---------------------------- MODULE LedgerProofs ----------------------------
(***************************************************************************)
(* Proofs about Ledger, for any tree of blocks and any transactions: the   *)
(* indexes are exact, what is pending can be mined on the head, and no two *)
(* transactions on a chain without complaints spend the same output.       *)
(***************************************************************************)
EXTENDS Ledger, TLAPS

LedgerType ==
    /\ held \subseteq Slot /\ hashed \subseteq Slot
    /\ complaint \subseteq Blocks /\ head \in Blocks
    /\ pend \subseteq Txs /\ unknown \subseteq Txs /\ readd \subseteq Txs
    /\ storing \subseteq held

(* txhash, over the slots of the blocks without complaint. *)
TxhashExact ==
    \A b \in Blocks, t \in Txs : t \in Content[b] /\ b \notin complaint =>
        (<<t, b>> \in txhash <=> <<b, t>> \in held \cup hashed)

(* Every input of a transaction known in full by T is in I. *)
Covers(T, I) ==
    \A t \in Txs : txhash_gettx(T, t) => \A o \in Spends[t] : t \in UsersOf(I, o)

(* Whatever has an input in I is known in full by T. *)
NoMore(T, I) ==
    \A t \in Txs, o \in Txs : t \in UsersOf(I, o) => txhash_gettx(T, t)

InputsExact ==
    freed = {} => /\ Covers(txhash, inputhash)
                  /\ complaint = {} => NoMore(txhash, inputhash)

(* What txhash has as pending is on one of the lists; what is on the first *)
(* list is in txhash.                                                      *)
PendingListed ==
    \A t \in Txs : /\ <<t, Pending>> \in txhash => t \in pend \cup unknown
                   /\ t \in pend => <<t, Pending>> \in txhash

(* Between the handlers no complaint is on the chain of the head. *)
HeadClean == ~invalidated => Anc[head] \cap complaint = {}

(* PendingMinable, also while recheck_pending_txs() adds transactions      *)
(* again: it may only be disturbed when a recheck is due.                  *)
Settled == ~needs_recheck /\ ~invalidated /\ storing = {} /\ freed = {}

Minable ==
    Settled => \A t \in pend :
        /\ \A o \in Spends[t] : \E a \in Anc[head] : <<a, o>> \in held
        /\ \A a \in Anc[head] : <<a, t>> \notin held \cup hashed
        /\ \A u \in pend : u = t \/ Spends[u] \cap Spends[t] = {}

(* Two stored transactions on one chain without complaints spend the       *)
(* output o that a stores before both.                                     *)
Conflict(s, r, a, o) ==
    /\ s \in held /\ r \in held /\ s # r
    /\ o \in Spends[s[2]] /\ o \in Spends[r[2]]
    /\ s[1] \in Anc[r[1]] /\ Anc[r[1]] \cap complaint = {}
    /\ a \in Anc[s[1]] /\ <<a, o>> \in held

(* Of every conflict, one of the three is still being stored. *)
ConflictsStoring ==
    freed = {} /\ ended = "" =>
        \A s, r \in Slot : \A a \in Blocks, o \in Txs :
            Conflict(s, r, a, o) => \E w \in storing : w \in {s, r, <<a, o>>}

LedgerInv ==
    /\ LedgerType /\ TxhashExact /\ InputsExact /\ PendingListed
    /\ HeadClean /\ Minable /\ ConflictsStoring

-----------------------------------------------------------------------------
(* Taking elements out of txhash, and the inputs of what is then no longer *)
(* known in full out of inputhash.                                         *)
LEMMA ForgetCovers ==
    ASSUME NEW T, NEW I, NEW T2 \in SUBSET T, NEW G,
           Covers(T, I), \A t \in G : ~txhash_gettx(T2, t)
    PROVE  Covers(T2, inputhash_del_tx(I, G))
<1> SUFFICES ASSUME NEW t \in Txs, txhash_gettx(T2, t), NEW o \in Spends[t]
             PROVE  t \in UsersOf(inputhash_del_tx(I, G), o)
  BY DEF Covers
<1>1. t \notin G /\ txhash_gettx(T, t)
  BY DEF txhash_gettx
<1>2. t \in UsersOf(I, o)
  BY <1>1 DEF Covers
<1> QED BY <1>1, <1>2 DEF UsersOf, inputhash_del_tx

(* A transaction that becomes known in full through the element e, with    *)
(* its inputs added if it was not known before.                            *)
LEMMA AddCovers ==
    ASSUME NEW T, NEW I, NEW I2, NEW t \in Txs, NEW ctx \in {"shard", "pending"},
           Covers(T, I),
           I2 = IF txhash_gettx(T, t) THEN I ELSE inputhash_add_tx(I, t, ctx)
    PROVE  /\ \A u \in Txs : u = t \/ txhash_gettx(T, u) =>
                 \A o \in Spends[u] : u \in UsersOf(I2, o)
           /\ \A u \in Txs, o \in Txs : u \in UsersOf(I2, o) =>
                 u = t \/ u \in UsersOf(I, o)
<1>1. CASE txhash_gettx(T, t)
  BY <1>1 DEF Covers
<1>2. CASE ~txhash_gettx(T, t)
  <2>1. I2 = I \cup {<<o, t, ctx>> : o \in Spends[t]}
    BY <1>2 DEF inputhash_add_tx
  <2>2. \A o \in Spends[t] : t \in UsersOf(I2, o)
    BY <2>1 DEF UsersOf
  <2>3. \A u \in Txs : \A o : u \in UsersOf(I, o) => u \in UsersOf(I2, o)
    BY <2>1 DEF UsersOf
  <2>4. \A u \in Txs, o \in Txs : u \in UsersOf(I2, o) => u = t \/ u \in UsersOf(I, o)
    BY <2>1 DEF UsersOf
  <2> QED BY <2>2, <2>3, <2>4 DEF Covers
<1> QED BY <1>1, <1>2

(* The input check of add_pending_tx() passes only when every input is     *)
(* stored in a block before b.                                             *)
LEMMA CheckedInputs ==
    ASSUME NEW T, NEW I, NEW b, NEW me, NEW t,
           check_tx_inputs(T, I, b, me, t) = "OK"
    PROVE  \A o \in Spends[t] : \E a \in Blocks :
              a \in Anc[b] /\ <<a, o>> \in held
<1> SUFFICES ASSUME NEW o \in Spends[t]
             PROVE  \E a \in Blocks : a \in Anc[b] /\ <<a, o>> \in held
  OBVIOUS
<1>1. check_one_input(T, I, b, me, t, o) = {"OK"}
  BY DEF check_tx_inputs
<1>2. PICK a \in txhash_gettx_ancestor(T, o, b) :
         "OK" = IF <<a, o>> \notin held THEN "UNKNOWN"
                ELSE IF t \in WrongInput \/ tx_find_doublespend(T, I, b, me, o)
                THEN "BAD" ELSE "OK"
  BY <1>1 DEF check_one_input
<1> QED BY <1>2 DEF txhash_gettx_ancestor, block_preceeds

(* A double spend of a stored output is found: by the search for spends    *)
(* before and after b, whatever `me' is.                                   *)
LEMMA DoublespendFound ==
    ASSUME NEW T, NEW I, NEW b, NEW me, NEW t, NEW o \in Spends[t],
           NEW a \in Blocks, a \in Anc[b], <<o, a>> \in T, <<a, o>> \in held,
           NEW c \in Blocks, c \in Anc[b] \/ b \in Anc[c],
           NEW u \in UsersOf(I, o), <<u, c>> \in T, <<c, u>> \in held, <<c, u>> \notin me
    PROVE  check_tx_inputs(T, I, b, me, t) \notin {"OK", "UNKNOWN"}
<1>1. tx_find_doublespend(T, I, b, me, o)
  BY DEF tx_find_doublespend, block_preceeds
<1>2. a \in txhash_gettx_ancestor(T, o, b)
  BY DEF txhash_gettx_ancestor, block_preceeds
<1>3. "BAD" \in check_one_input(T, I, b, me, t, o)
  BY <1>1, <1>2 DEF check_one_input
<1>4. check_tx_inputs(T, I, b, me, t) = "BAD"
  BY <1>3 DEF check_tx_inputs
<1> QED BY <1>4
-----------------------------------------------------------------------------
(* The conjuncts a step leaves alone. *)
LEMMA SameConflicts ==
    ASSUME ConflictsStoring, UNCHANGED <<held, storing>>,
           complaint \subseteq complaint', freed \subseteq freed',
           ended' = "" => ended = ""
    PROVE  ConflictsStoring'
<1> SUFFICES ASSUME freed' = {}, ended' = "", NEW s \in Slot, NEW r \in Slot,
                    NEW a \in Blocks, NEW o \in Txs, Conflict(s, r, a, o)'
             PROVE  \E w \in storing' : w \in {s, r, <<a, o>>}
  BY DEF ConflictsStoring
<1>1. Conflict(s, r, a, o)
  BY DEF Conflict
<1>2. freed = {} /\ ended = ""
  OBVIOUS
<1> QED BY <1>1, <1>2 DEF ConflictsStoring

(* A step that leaves the blocks and the indexes alone. *)
LEMMA SameIndexes ==
    ASSUME TxhashExact, InputsExact,
           UNCHANGED <<held, hashed, complaint, txhash, inputhash, freed>>
    PROVE  TxhashExact' /\ InputsExact'
BY DEF TxhashExact, InputsExact, Covers, NoMore, txhash_gettx

(* add_pending_tx(), for a transaction that arrives or is added again. *)
LEMMA AddPendingInv ==
    ASSUME LedgerAssumption, LedgerInv, NEW t \in Txs, add_pending_tx(t),
           UNCHANGED <<blocksState, head, storing, invalidated, ended, needs_recheck>>,
           readd' \subseteq readd
    PROVE  LedgerInv'
<1> DEFINE ierr == check_tx_inputs(txhash, inputhash, head, {}, t)
<1>0. UNCHANGED <<held, hashed, complaint, freed>>
  BY DEF blocksState, add_pending_tx
<1>1. CASE UNCHANGED <<pend, unknown, inputhash, txhash>>
  <2>1. LedgerType' /\ PendingListed' /\ HeadClean' /\ Minable'
    BY <1>0, <1>1 DEF LedgerInv, LedgerType, PendingListed, HeadClean, Minable, Settled
  <2>2. TxhashExact' /\ InputsExact'
    BY <1>0, <1>1, SameIndexes DEF LedgerInv
  <2>3. ConflictsStoring'
    BY <1>0, SameConflicts DEF LedgerInv
  <2> QED BY <2>1, <2>2, <2>3 DEF LedgerInv
<1>2. CASE ~UNCHANGED <<pend, unknown, inputhash, txhash>>
  <2>1. /\ txhash_gettx_ancestor(txhash, t, head) = {}
        /\ ~txhash_get_pending_tx(txhash, t)
        /\ \/ ierr = "UNKNOWN"
           \/ ierr = "OK" /\ ~find_pending_doublespend(txhash, inputhash, t)
        /\ pend' = IF ierr = "OK" THEN pend \cup {t} ELSE pend
        /\ unknown' = IF ierr = "OK" THEN unknown ELSE unknown \cup {t}
        /\ inputhash' = IF txhash_gettx(txhash, t) THEN inputhash
                        ELSE inputhash_add_tx(inputhash, t, "pending")
        /\ txhash' = txhash \cup {<<t, Pending>>}
    BY <1>2 DEF add_pending_tx
  <2> HIDE DEF ierr
  <2>2. LedgerType'
    BY <1>0, <2>1 DEF LedgerInv, LedgerType
  <2>3. TxhashExact'
    BY <1>0, <2>1 DEF LedgerInv, TxhashExact, LedgerAssumption
  <2>4. \A u \in Txs : txhash_gettx(txhash, u)' <=> u = t \/ txhash_gettx(txhash, u)
    BY <1>0, <2>1 DEF txhash_gettx, LedgerAssumption
  <2>5. InputsExact'
    <3> SUFFICES ASSUME freed' = {}
                 PROVE  /\ Covers(txhash, inputhash)'
                        /\ complaint' = {} => NoMore(txhash, inputhash)'
      BY DEF InputsExact
    <3>1. Covers(txhash, inputhash) /\ (complaint = {} => NoMore(txhash, inputhash))
      BY <1>0 DEF LedgerInv, InputsExact
    <3>2. /\ \A u \in Txs : u = t \/ txhash_gettx(txhash, u) =>
                 \A o \in Spends[u] : u \in UsersOf(inputhash', o)
          /\ \A u \in Txs, o \in Txs : u \in UsersOf(inputhash', o) =>
                 u = t \/ u \in UsersOf(inputhash, o)
      BY <2>1, <3>1, AddCovers
    <3>3. Covers(txhash, inputhash)'
      BY <2>4, <3>2 DEF Covers
    <3>4. complaint' = {} => NoMore(txhash, inputhash)'
      BY <1>0, <2>4, <3>1, <3>2 DEF NoMore
    <3> QED BY <3>3, <3>4
  <2>6. PendingListed'
    BY <2>1 DEF LedgerInv, PendingListed
  <2>7. HeadClean' /\ ConflictsStoring'
    BY <1>0, SameConflicts DEF LedgerInv, HeadClean
  <2>8. Minable'
    <3> SUFFICES ASSUME Settled'
                 PROVE  \A u \in pend' :
                   /\ \A o \in Spends[u] : \E a \in Anc[head] : <<a, o>> \in held
                   /\ \A a \in Anc[head] : <<a, u>> \notin held \cup hashed
                   /\ \A v \in pend' : v = u \/ Spends[v] \cap Spends[u] = {}
      BY <1>0 DEF Minable
    <3>1. Settled
      BY <1>0 DEF Settled
    <3>2. CASE ierr # "OK"
      BY <2>1, <3>1, <3>2 DEF LedgerInv, Minable
    <3>3. CASE ierr = "OK"
      <4>1. \A o \in Spends[t] : \E a \in Anc[head] : <<a, o>> \in held
        BY <3>3, CheckedInputs DEF ierr
      <4>2. \A a \in Anc[head] : <<a, t>> \notin held \cup hashed
        <5> SUFFICES ASSUME NEW a \in Anc[head], <<a, t>> \in held \cup hashed
                     PROVE  FALSE
          OBVIOUS
        <5>1. a \in Blocks /\ t \in Content[a]
          BY DEF LedgerInv, LedgerType, LedgerAssumption, Slot
        <5>2. a \notin complaint
          BY <3>1 DEF LedgerInv, HeadClean, Settled
        <5>3. <<t, a>> \in txhash
          BY <5>1, <5>2 DEF LedgerInv, TxhashExact
        <5> QED BY <2>1, <5>1, <5>3 DEF txhash_gettx_ancestor, block_preceeds
      <4>3. \A v \in pend : Spends[v] \cap Spends[t] = {}
        <5> SUFFICES ASSUME NEW v \in pend, NEW o \in Spends[v], o \in Spends[t]
                     PROVE  FALSE
          OBVIOUS
        <5>1. v \in Txs /\ <<v, Pending>> \in txhash
          BY DEF LedgerInv, LedgerType, PendingListed
        <5>2. v \in UsersOf(inputhash, o)
          BY <3>1, <5>1 DEF LedgerInv, InputsExact, Settled, Covers, txhash_gettx
        <5>3. find_pending_doublespend(txhash, inputhash, t)
          BY <5>1, <5>2 DEF find_pending_doublespend, txhash_get_pending_tx
        <5> QED BY <2>1, <3>3, <5>3
      <4>4. pend' = pend \cup {t}
        BY <2>1, <3>3
      <4> QED BY <3>1, <4>1, <4>2, <4>3, <4>4 DEF LedgerInv, Minable
    <3> QED BY <3>2, <3>3
  <2> QED BY <2>2, <2>3, <2>5, <2>6, <2>7, <2>8 DEF LedgerInv
<1> QED BY <1>1, <1>2
-----------------------------------------------------------------------------
(* recheck_pending_txs() up to its second loop: everything pending leaves  *)
(* the hashes.  T and I are the hashes it finds, U the unknown list.       *)
LEMMA RecheckFromInv ==
    ASSUME LedgerAssumption, NEW U \in SUBSET Txs, NEW T, NEW I,
           pend \subseteq Txs, RecheckFrom(U, T, I), UNCHANGED <<held, hashed>>,
           \A b \in Blocks, t \in Txs : t \in Content[b] /\ b \notin complaint' =>
               (<<t, b>> \in T <=> <<b, t>> \in held \cup hashed),
           freed = {} => Covers(T, I),
           freed = {} /\ complaint' = {} => NoMore(T, I),
           \A t \in Txs : <<t, Pending>> \in T => t \in pend \cup U
    PROVE  /\ TxhashExact' /\ InputsExact' /\ PendingListed' /\ Minable'
           /\ pend' = {} /\ unknown' = {} /\ readd' \subseteq Txs
           /\ freed \subseteq freed'
<1> DEFINE Q     == pend \cup U
           T2    == {e \in T : e[2] # Pending}
           gone  == {t \in Q : ~txhash_gettx(T2, t)}
           I2    == inputhash_del_tx(I, gone)
           stale == {e \in I2 : e[3] = "pending"}
<1>1. /\ txhash' = T2
      /\ \E lost \in SUBSET stale : inputhash' = I2 \ lost
      /\ freed' = freed \cup stale
      /\ readd' = Q /\ pend' = {} /\ unknown' = {}
  BY DEF RecheckFrom
<1>2. /\ T2 \in SUBSET T
      /\ \A t : <<t, Pending>> \notin T2
      /\ \A t, b : b # Pending => (<<t, b>> \in T2 <=> <<t, b>> \in T)
  OBVIOUS
<1>3. \A t \in gone : ~txhash_gettx(T2, t)
  OBVIOUS
<1>4. \A t \in Q : t \in gone \/ txhash_gettx(T2, t)
  OBVIOUS
<1> HIDE DEF T2, gone
<1>5. TxhashExact'
  BY <1>1, <1>2 DEF TxhashExact, LedgerAssumption
<1>6. freed' = {} => freed = {} /\ inputhash' = I2
  BY <1>1
<1>7. \A t \in Txs : txhash_gettx(txhash, t)' <=> txhash_gettx(T2, t)
  BY <1>1 DEF txhash_gettx
<1>8. InputsExact'
  <2> SUFFICES ASSUME freed' = {}
               PROVE  /\ Covers(txhash, inputhash)'
                      /\ complaint' = {} => NoMore(txhash, inputhash)'
    BY DEF InputsExact
  <2>1. Covers(T2, I2)
    BY <1>2, <1>3, <1>6, ForgetCovers
  <2>2. Covers(txhash, inputhash)'
    BY <1>6, <1>7, <2>1 DEF Covers
  <2>3. ASSUME complaint' = {} PROVE NoMore(txhash, inputhash)'
    <3> SUFFICES ASSUME NEW t \in Txs, NEW o \in Txs, t \in UsersOf(I2, o)
                 PROVE  txhash_gettx(T2, t)
      BY <1>6, <1>7 DEF NoMore
    <3>1. t \notin gone /\ t \in UsersOf(I, o)
      BY DEF UsersOf, inputhash_del_tx
    <3>2. txhash_gettx(T, t)
      BY <1>6, <2>3, <3>1 DEF NoMore
    <3>3. CASE t \in Q
      BY <1>4, <3>1, <3>3
    <3>4. CASE t \notin Q
      <4>1. <<t, Pending>> \notin T
        BY <3>4
      <4>2. \A b \in Blocks : b # Pending
        BY DEF LedgerAssumption
      <4> QED BY <1>2, <3>2, <4>1, <4>2 DEF txhash_gettx
    <3> QED BY <3>3, <3>4
  <2> QED BY <2>2, <2>3
<1>9. PendingListed' /\ Minable'
  BY <1>1, <1>2 DEF PendingListed, Minable
<1>10. Q \subseteq Txs
  OBVIOUS
<1> QED BY <1>1, <1>5, <1>8, <1>9, <1>10

(* publish_complaint(): what it changes of the ledger. *)
LEMMA PublishInv ==
    ASSUME LedgerAssumption, LedgerInv, NEW b \in Blocks, complaint_on_all(b),
           UNCHANGED <<held, hashed, head, storing>>
    PROVE  LedgerInv'
<1> DEFINE S    == Descendents(b)
           dump == {t \in Txs : \E d \in S : <<d, t>> \in held}
           T2   == {e \in txhash : e[2] \notin S}
           gone == {t \in dump : ~txhash_gettx(T2, t)}
<1>1. CASE UNCHANGED <<complaint, txhash, inputhash, freed, pendingState, invalidated>>
  <2>1. UNCHANGED <<complaint, txhash, inputhash, freed, pend, unknown, needs_recheck, readd, invalidated>>
    BY <1>1 DEF pendingState
  <2>2. LedgerType' /\ PendingListed' /\ HeadClean' /\ Minable'
    BY <2>1 DEF LedgerInv, LedgerType, PendingListed, HeadClean, Minable, Settled
  <2>3. TxhashExact' /\ InputsExact'
    BY <2>1, SameIndexes DEF LedgerInv
  <2>4. ended' = "" => ended = ""
    BY DEF complaint_on_all
  <2>5. ConflictsStoring'
    BY <2>1, <2>4, SameConflicts DEF LedgerInv
  <2> QED BY <2>2, <2>3, <2>5 DEF LedgerInv
<1>2. CASE ~UNCHANGED <<complaint, txhash, inputhash, freed, pendingState, invalidated>>
  <2>1. /\ complaint' = complaint \cup S /\ invalidated' = TRUE /\ ended' = ended
        /\ \/ /\ dump = {} /\ ~needs_recheck
              /\ txhash' = T2 /\ UNCHANGED <<inputhash, freed, pendingState>>
           \/ RecheckFrom(unknown \cup dump, T2, inputhash_del_tx(inputhash, gone))
    BY <1>2 DEF complaint_on_all
  <2>2. /\ S \subseteq Blocks /\ b \in S /\ Pending \notin S
        /\ dump \subseteq Txs
    BY DEF Descendents, LedgerAssumption
  <2>3. /\ T2 \in SUBSET txhash
        /\ \A t, c : <<t, c>> \in T2 <=> <<t, c>> \in txhash /\ c \notin S
        /\ \A t \in gone : ~txhash_gettx(T2, t)
    OBVIOUS
  <2> HIDE DEF S, dump, T2, gone
  <2>4. \A c \in Blocks, t \in Txs : t \in Content[c] /\ c \notin complaint' =>
            (<<t, c>> \in T2 <=> <<c, t>> \in held \cup hashed)
    BY <2>1, <2>3 DEF LedgerInv, TxhashExact
  <2>5. freed = {} => Covers(T2, inputhash_del_tx(inputhash, gone))
    BY <2>3, ForgetCovers DEF LedgerInv, InputsExact
  <2>6. complaint' # {} /\ HeadClean' /\ complaint' \subseteq Blocks
    BY <2>1, <2>2 DEF HeadClean, LedgerInv, LedgerType
  <2>7. \A t \in Txs : <<t, Pending>> \in T2 => t \in pend \cup (unknown \cup dump)
    BY <2>3 DEF LedgerInv, PendingListed
  <2>8. CASE RecheckFrom(unknown \cup dump, T2, inputhash_del_tx(inputhash, gone))
    <3>1. pend \subseteq Txs /\ unknown \cup dump \in SUBSET Txs
      BY <2>2 DEF LedgerInv, LedgerType
    <3>2. /\ TxhashExact' /\ InputsExact' /\ PendingListed' /\ Minable'
          /\ pend' = {} /\ unknown' = {} /\ readd' \subseteq Txs
          /\ freed \subseteq freed'
      <4> DEFINE U == unknown \cup dump
                 I == inputhash_del_tx(inputhash, gone)
      <4>1. RecheckFrom(U, T2, I) /\ U \in SUBSET Txs /\ (freed = {} => Covers(T2, I))
            /\ \A t \in Txs : <<t, Pending>> \in T2 => t \in pend \cup U
        BY <2>5, <2>7, <2>8, <3>1
      <4> HIDE DEF U, I
      <4> QED BY <2>4, <2>6, <3>1, <4>1, RecheckFromInv
    <3>3. LedgerType'
      BY <2>6, <3>2 DEF LedgerInv, LedgerType
    <3>4. ConflictsStoring'
      BY <2>1, <3>2, SameConflicts DEF LedgerInv
    <3> QED BY <2>6, <3>2, <3>3, <3>4 DEF LedgerInv
  <2>9. CASE txhash' = T2 /\ UNCHANGED <<inputhash, freed, pendingState>>
    <3>1. UNCHANGED <<inputhash, freed, pend, unknown, needs_recheck, readd>>
      BY <2>9 DEF pendingState
    <3>2. LedgerType'
      BY <2>6, <3>1 DEF LedgerInv, LedgerType
    <3>3. TxhashExact'
      BY <2>4, <2>9 DEF TxhashExact
    <3>4. \A t \in Txs : txhash_gettx(txhash, t)' => txhash_gettx(txhash, t)
      BY <2>3, <2>9 DEF txhash_gettx
    <3>5. InputsExact'
      BY <2>6, <3>1, <3>4 DEF LedgerInv, InputsExact, Covers
    <3>6. PendingListed'
      BY <2>2, <2>3, <2>9, <3>1 DEF LedgerInv, PendingListed
    <3>7. Minable' /\ ConflictsStoring'
      BY <2>1, <3>1, SameConflicts DEF LedgerInv, Minable, Settled
    <3> QED BY <2>6, <3>2, <3>3, <3>5, <3>6, <3>7 DEF LedgerInv
  <2> QED BY <2>1, <2>8, <2>9
<1> QED BY <1>1, <1>2

(* put_tx_in_shard(), between packets. *)
LEMMA PutTxStep ==
    ASSUME LedgerAssumption, LedgerInv, NEW b \in Blocks, NEW t \in Content[b],
           storing = {}, put_tx_in_shard(b, t),
           UNCHANGED <<complaint, head, freed, pendingState, invalidated, ended>>
    PROVE  LedgerInv'
<1>1. UNCHANGED <<pend, unknown, needs_recheck, readd>>
  BY DEF pendingState
<1>2. /\ held' = held \cup {<<b, t>>} /\ hashed' = hashed \ {<<b, t>>}
      /\ inputhash' = IF txhash_gettx(txhash, t) THEN inputhash
                      ELSE inputhash_add_tx(inputhash, t, "shard")
      /\ txhash' = (IF <<b, t>> \in hashed THEN txhash ELSE txhash \cup {<<t, b>>})
      /\ storing' = {<<b, t>>}
  BY DEF put_tx_in_shard
<1>3. t \in Txs /\ <<b, t>> \in Slot /\ b # Pending
  BY DEF LedgerAssumption, Slot
<1>4. LedgerType'
  BY <1>1, <1>2, <1>3 DEF LedgerInv, LedgerType
<1>5. TxhashExact'
  BY <1>2, <1>3 DEF LedgerInv, TxhashExact
<1>6. /\ \A u \in Txs : txhash_gettx(txhash, u)' => u = t \/ txhash_gettx(txhash, u)
      /\ \A u \in Txs : txhash_gettx(txhash, u) => txhash_gettx(txhash, u)'
      /\ b \notin complaint => txhash_gettx(txhash, t)'
  <2>1. \A u \in Txs : txhash_gettx(txhash, u)' => u = t \/ txhash_gettx(txhash, u)
    BY <1>2, <1>3 DEF txhash_gettx
  <2>2. \A u \in Txs : txhash_gettx(txhash, u) => txhash_gettx(txhash, u)'
    BY <1>2 DEF txhash_gettx
  <2>3. b \notin complaint => <<t, b>> \in txhash'
    BY <1>2, <1>3 DEF LedgerInv, TxhashExact
  <2>4. b \notin complaint => txhash_gettx(txhash, t)'
    BY <1>2, <2>3 DEF txhash_gettx
  <2> QED BY <2>1, <2>2, <2>4
<1>7. InputsExact'
  <2> SUFFICES ASSUME freed' = {}
               PROVE  /\ Covers(txhash, inputhash)'
                      /\ complaint' = {} => NoMore(txhash, inputhash)'
    BY DEF InputsExact
  <2>1. Covers(txhash, inputhash) /\ (complaint = {} => NoMore(txhash, inputhash))
    BY DEF LedgerInv, InputsExact
  <2>2. /\ \A u \in Txs : u = t \/ txhash_gettx(txhash, u) =>
               \A o \in Spends[u] : u \in UsersOf(inputhash', o)
        /\ \A u \in Txs, o \in Txs : u \in UsersOf(inputhash', o) =>
               u = t \/ u \in UsersOf(inputhash, o)
    BY <1>2, <1>3, <2>1, AddCovers
  <2>3. Covers(txhash, inputhash)'
    BY <1>6, <2>2 DEF Covers
  <2>4. complaint' = {} => NoMore(txhash, inputhash)'
    BY <1>6, <2>1, <2>2 DEF NoMore
  <2> QED BY <2>3, <2>4
<1>8. PendingListed' /\ HeadClean' /\ Minable'
  BY <1>1, <1>2, <1>3 DEF LedgerInv, PendingListed, HeadClean, Minable, Settled
<1>9. ConflictsStoring'
  <2> SUFFICES ASSUME freed' = {}, ended' = "", NEW s \in Slot, NEW r \in Slot,
                      NEW a \in Blocks, NEW o \in Txs, Conflict(s, r, a, o)',
                      <<b, t>> \notin {s, r, <<a, o>>}
               PROVE  FALSE
    BY <1>2 DEF ConflictsStoring
  <2>1. Conflict(s, r, a, o)
    BY <1>2 DEF Conflict
  <2> QED BY <2>1 DEF LedgerInv, ConflictsStoring
<1> QED BY <1>4, <1>5, <1>7, <1>8, <1>9 DEF LedgerInv
-----------------------------------------------------------------------------
(* What a conflict says of the indexes: all three are in txhash, and both  *)
(* spenders in inputhash.                                                  *)
LEMMA ConflictIndexed ==
    ASSUME LedgerAssumption, LedgerInv, freed = {},
           NEW s \in Slot, NEW r \in Slot, NEW a \in Blocks, NEW o \in Txs,
           Conflict(s, r, a, o)
    PROVE  /\ s[1] \in Blocks /\ s[2] \in Txs /\ s = <<s[1], s[2]>>
           /\ r[1] \in Blocks /\ r[2] \in Txs /\ r = <<r[1], r[2]>>
           /\ a \in Anc[r[1]]
           /\ <<s[2], s[1]>> \in txhash /\ <<r[2], r[1]>> \in txhash /\ <<o, a>> \in txhash
           /\ s[2] \in UsersOf(inputhash, o) /\ r[2] \in UsersOf(inputhash, o)
           /\ s[1] \notin complaint /\ r[1] \notin complaint
<1>1. /\ s[1] \in Blocks /\ s[2] \in Txs /\ s = <<s[1], s[2]>> /\ s[2] \in Content[s[1]]
      /\ r[1] \in Blocks /\ r[2] \in Txs /\ r = <<r[1], r[2]>> /\ r[2] \in Content[r[1]]
  BY DEF Slot
<1>2. a \in Anc[r[1]] /\ s[1] \in Anc[r[1]] /\ r[1] \in Anc[r[1]]
  BY <1>1 DEF Conflict, LedgerAssumption
<1>3. a \notin complaint /\ s[1] \notin complaint /\ r[1] \notin complaint
  BY <1>2 DEF Conflict
<1>4. o \in Content[a]
  BY DEF Conflict, LedgerInv, LedgerType, Slot
<1>5. <<s[2], s[1]>> \in txhash /\ <<r[2], r[1]>> \in txhash /\ <<o, a>> \in txhash
  BY <1>1, <1>3, <1>4 DEF Conflict, LedgerInv, TxhashExact
<1>6. txhash_gettx(txhash, s[2]) /\ txhash_gettx(txhash, r[2])
  BY <1>1, <1>5 DEF Conflict, txhash_gettx
<1>7. s[2] \in UsersOf(inputhash, o) /\ r[2] \in UsersOf(inputhash, o)
  BY <1>1, <1>6 DEF Conflict, LedgerInv, InputsExact, Covers
<1> QED BY <1>1, <1>2, <1>3, <1>5, <1>7

(* The head that is chosen has no complaint on its chain. *)
LEMMA ChosenHeadClean ==
    ASSUME NEW h \in HeadChoices
    PROVE  h \in Blocks /\ Anc[h] \cap complaint = {}
<1>1. h \in Knowns
  BY DEF HeadChoices
<1> QED BY <1>1 DEF Knowns

(* put_tx_in_shard() ends: check_resolved_txs() has passed the spenders of *)
(* what was stored, check_block_shard() its block.                         *)
LEMMA StoredStep ==
    ASSUME LedgerAssumption, LedgerInv, tx_stored
    PROVE  LedgerInv'
<1>1. UNCHANGED <<held, hashed, complaint, txhash, inputhash, freed, pend, readd, invalidated>>
  BY DEF tx_stored, blocksState
<1>2. head' \in Blocks /\ Anc[head'] \cap complaint = {}
  BY ChosenHeadClean DEF tx_stored
<1>3. LedgerType'
  BY <1>1, <1>2 DEF tx_stored, LedgerInv, LedgerType
<1>4. TxhashExact' /\ InputsExact'
  BY <1>1, SameIndexes DEF LedgerInv
<1>5. PendingListed' /\ HeadClean' /\ Minable'
  BY <1>1, <1>2 DEF tx_stored, LedgerInv, PendingListed, HeadClean, Minable, Settled
<1>6. ConflictsStoring'
  <2> SUFFICES ASSUME freed' = {}, ended' = "", NEW s \in Slot, NEW r \in Slot,
                      NEW a \in Blocks, NEW o \in Txs, Conflict(s, r, a, o)'
               PROVE  FALSE
    BY DEF ConflictsStoring
  <2>1. Conflict(s, r, a, o) /\ freed = {}
    BY <1>1 DEF Conflict
  <2>2. /\ ended = "" /\ \A w \in storing : check_block_shard(txhash, inputhash, w[1])
        /\ \A e \in Spenders \cap held : Recheck(e) \in {"OK", "UNKNOWN"}
    BY DEF tx_stored
  <2>3. PICK w \in storing : w \in {s, r, <<a, o>>}
    BY <2>1, <2>2 DEF LedgerInv, ConflictsStoring
  <2>4. /\ s[1] \in Blocks /\ s[2] \in Txs /\ s = <<s[1], s[2]>>
        /\ r[1] \in Blocks /\ r[2] \in Txs /\ r = <<r[1], r[2]>>
        /\ a \in Anc[r[1]]
        /\ <<s[2], s[1]>> \in txhash /\ <<r[2], r[1]>> \in txhash /\ <<o, a>> \in txhash
        /\ s[2] \in UsersOf(inputhash, o) /\ r[2] \in UsersOf(inputhash, o)
    BY <2>1, ConflictIndexed
  <2>5. /\ s \in held /\ r \in held /\ s # r /\ <<a, o>> \in held
        /\ o \in Spends[s[2]] /\ o \in Spends[r[2]]
        /\ s[1] \in Anc[r[1]] /\ a \in Anc[s[1]]
        /\ s[2] \in Content[s[1]] /\ r[2] \in Content[r[1]]
    BY <2>1 DEF Conflict, Slot
  <2>6. CASE w = r
    <3>1. check_tx_inputs(txhash, inputhash, r[1], {r}, r[2]) \in {"OK", "UNKNOWN"}
      BY <2>2, <2>4, <2>5, <2>6 DEF check_block_shard
    <3>2. <<s[1], s[2]>> \notin {r} /\ <<s[1], s[2]>> \in held
      BY <2>4, <2>5
    <3> QED BY <2>4, <2>5, <3>1, <3>2, DoublespendFound
  <2>7. CASE w = s
    <3>1. check_tx_inputs(txhash, inputhash, s[1], {s}, s[2]) \in {"OK", "UNKNOWN"}
      BY <2>2, <2>4, <2>5, <2>7 DEF check_block_shard
    <3>2. <<r[1], r[2]>> \notin {s} /\ <<r[1], r[2]>> \in held
      BY <2>4, <2>5
    <3> QED BY <2>4, <2>5, <3>1, <3>2, DoublespendFound
  <2>8. CASE w = <<a, o>>
    <3>1. s \in Spenders
      BY <2>4, <2>8 DEF Spenders
    <3>2. check_tx_inputs(txhash, inputhash, s[1], {}, s[2]) \in {"OK", "UNKNOWN"}
      BY <2>2, <2>5, <3>1 DEF Recheck
    <3>3. <<r[1], r[2]>> \notin {} /\ <<r[1], r[2]>> \in held
      BY <2>4, <2>5
    <3> QED BY <2>4, <2>5, <3>2, <3>3, DoublespendFound
  <2> QED BY <2>3, <2>6, <2>7, <2>8
<1> QED BY <1>3, <1>4, <1>5, <1>6 DEF LedgerInv

(* put_txhash_in_shard(): a hash makes no transaction known in full. *)
LEMMA PutTxhashStep ==
    ASSUME LedgerAssumption, LedgerInv, NEW b \in Blocks, NEW t \in Content[b],
           put_txhash_in_shard(b, t)
    PROVE  LedgerInv'
<1>1. /\ hashed' = hashed \cup {<<b, t>>} /\ txhash' = txhash \cup {<<t, b>>}
      /\ <<b, t>> \notin held /\ needs_recheck' = TRUE
      /\ UNCHANGED <<held, complaint, head, inputhash, freed, pend, unknown, readd,
                     storing, invalidated>>
      /\ ended' = "" => ended = ""
  BY DEF put_txhash_in_shard
<1>2. t \in Txs /\ <<b, t>> \in Slot /\ b # Pending
  BY DEF LedgerAssumption, Slot
<1>3. LedgerType' /\ TxhashExact'
  BY <1>1, <1>2 DEF LedgerInv, LedgerType, TxhashExact
<1>4. \A u \in Txs : txhash_gettx(txhash, u)' <=> txhash_gettx(txhash, u)
  BY <1>1, <1>2 DEF txhash_gettx
<1>5. InputsExact'
  BY <1>1, <1>4 DEF LedgerInv, InputsExact, Covers, NoMore
<1>6. PendingListed' /\ HeadClean' /\ Minable'
  BY <1>1, <1>2 DEF LedgerInv, PendingListed, HeadClean, Minable, Settled
<1>7. ConflictsStoring'
  BY <1>1, SameConflicts DEF LedgerInv
<1> QED BY <1>3, <1>5, <1>6, <1>7 DEF LedgerInv

(* pkt_in() ends with recheck_pending_txs(). *)
LEMMA RecheckStep ==
    ASSUME LedgerAssumption, LedgerInv, recheck_pending_txs
    PROVE  LedgerInv'
<1>1. /\ RecheckFrom(unknown, txhash, inputhash)
      /\ UNCHANGED <<held, hashed, complaint, head, storing, invalidated, ended>>
  BY DEF recheck_pending_txs, blocksState
<1>2. /\ TxhashExact' /\ InputsExact' /\ PendingListed' /\ Minable'
      /\ pend' = {} /\ unknown' = {} /\ readd' \subseteq Txs
      /\ freed \subseteq freed'
  BY <1>1, RecheckFromInv
     DEF LedgerInv, LedgerType, TxhashExact, InputsExact, PendingListed
<1>3. LedgerType' /\ HeadClean' /\ ConflictsStoring'
  BY <1>1, <1>2, SameConflicts DEF LedgerInv, LedgerType, HeadClean
<1> QED BY <1>2, <1>3 DEF LedgerInv

(* Every step keeps the invariant. *)
LEMMA LedgerStep ==
    ASSUME LedgerAssumption, LedgerInv, [LedgerNext]_ledgerVars
    PROVE  LedgerInv'
<1>0. \A s \in Slot : s[1] \in Blocks /\ s[2] \in Content[s[1]] /\ s[2] \in Txs
  BY DEF Slot
<1>1. ASSUME NEW s \in Slot, recv_tx(s[1], s[2]) PROVE LedgerInv'
  <2>1. CASE complaint_on_all(s[1]) /\ UNCHANGED <<held, hashed, storing>>
    BY <1>0, <1>1, <2>1, PublishInv DEF recv_tx
  <2>2. CASE UNCHANGED <<blocksState, txhash, inputhash, freed, pendingState,
                         storing, invalidated, ended>>
    <3>1. UNCHANGED <<held, hashed, complaint, head, txhash, inputhash, freed, pend,
                      unknown, needs_recheck, readd, storing, invalidated, ended>>
      BY <1>1, <2>2 DEF recv_tx, blocksState, pendingState
    <3> QED BY <3>1, SameIndexes, SameConflicts
            DEF LedgerInv, LedgerType, PendingListed, HeadClean, Minable, Settled
  <2>3. CASE /\ put_tx_in_shard(s[1], s[2])
             /\ UNCHANGED <<complaint, freed, pendingState, invalidated, ended>>
    <3>1. storing = {} /\ UNCHANGED head
      BY <1>1 DEF recv_tx, Idle
    <3> QED BY <1>0, <2>3, <3>1, PutTxStep
  <2> QED BY <1>1, <2>1, <2>2, <2>3 DEF recv_tx
<1>2. ASSUME NEW s \in Slot, put_txhash_in_shard(s[1], s[2]) PROVE LedgerInv'
  BY <1>0, <1>2, PutTxhashStep
<1>3. ASSUME NEW s \in Slot, try_resolve_hash(s[1], s[2]) PROVE LedgerInv'
  <2>1. /\ storing = {} /\ put_tx_in_shard(s[1], s[2])
        /\ UNCHANGED <<complaint, head, freed, pendingState, invalidated, ended>>
    BY <1>3 DEF try_resolve_hash, Idle
  <2> QED BY <1>0, <2>1, PutTxStep
<1>4. ASSUME NEW t \in Txs, recv_pending_tx(t) PROVE LedgerInv'
  BY <1>4, AddPendingInv DEF recv_pending_tx
<1>5. CASE recheck_pending_txs
  BY <1>5, RecheckStep
<1>6. ASSUME NEW t \in readd, ReAdd(t) PROVE LedgerInv'
  <2>1. t \in Txs
    BY DEF LedgerInv, LedgerType
  <2> QED BY <1>6, <2>1, AddPendingInv DEF ReAdd
<1>7. CASE update_block_ptrs_invalidated
  <2>1. /\ head' \in HeadChoices /\ needs_recheck' = TRUE /\ invalidated' = FALSE
        /\ UNCHANGED <<held, hashed, complaint, txhash, inputhash, freed, pend, unknown,
                       readd, storing, ended>>
    BY <1>7 DEF update_block_ptrs_invalidated, blocksState
  <2>2. head' \in Blocks /\ Anc[head'] \cap complaint = {}
    BY <2>1, ChosenHeadClean
  <2>3. LedgerType' /\ PendingListed' /\ HeadClean' /\ Minable'
    BY <2>1, <2>2 DEF LedgerInv, LedgerType, PendingListed, HeadClean, Minable, Settled
  <2> QED BY <2>1, <2>3, SameIndexes, SameConflicts DEF LedgerInv
<1>8. ASSUME NEW s \in Spenders, recheck_tx(s) PROVE LedgerInv'
  <2>1. UNCHANGED <<held, hashed, head, storing>>
    BY <1>8 DEF recheck_tx
  <2>2. s[1] \in Blocks
    BY DEF Spenders
  <2>3. CASE s[1] \notin complaint
    BY <1>8, <2>1, <2>2, <2>3, PublishInv DEF recheck_tx
  <2>4. CASE s[1] \in complaint
    <3>1. /\ ended' # ""
          /\ UNCHANGED <<complaint, txhash, inputhash, freed, pend, unknown,
                         needs_recheck, readd, invalidated>>
      BY <1>8, <2>4 DEF recheck_tx, pendingState
    <3>2. LedgerType' /\ PendingListed' /\ HeadClean' /\ Minable'
      BY <2>1, <3>1 DEF LedgerInv, LedgerType, PendingListed, HeadClean, Minable, Settled
    <3> QED BY <2>1, <3>1, <3>2, SameIndexes, SameConflicts DEF LedgerInv
  <2> QED BY <2>3, <2>4
<1>9. CASE tx_stored
  BY <1>9, StoredStep
<1>10. CASE UNCHANGED ledgerVars
  <2>1. UNCHANGED <<held, hashed, complaint, head, txhash, inputhash, freed, pend,
                    unknown, needs_recheck, readd, storing, invalidated, ended>>
    BY <1>10 DEF ledgerVars, blocksState, pendingState
  <2> QED BY <2>1, SameIndexes, SameConflicts
          DEF LedgerInv, LedgerType, PendingListed, HeadClean, Minable, Settled
<1> QED BY <1>1, <1>2, <1>3, <1>4, <1>5, <1>6, <1>7, <1>8, <1>9, <1>10 DEF LedgerNext

(* The inductive invariant holds in every reachable state. *)
LEMMA LedgerInvariant ==
    ASSUME LedgerAssumption
    PROVE  LedgerSpec => []LedgerInv
<1>1. LedgerInit => LedgerInv
  <2> SUFFICES ASSUME LedgerInit PROVE LedgerInv
    OBVIOUS
  <2>1. LedgerType /\ TxhashExact /\ PendingListed /\ HeadClean /\ Minable
    BY DEF LedgerInit, LedgerType, TxhashExact, PendingListed, HeadClean, Minable
  <2>2. InputsExact
    BY DEF LedgerInit, InputsExact, Covers, NoMore, txhash_gettx, UsersOf
  <2>3. ConflictsStoring
    BY DEF LedgerInit, ConflictsStoring, Conflict
  <2> QED BY <2>1, <2>2, <2>3 DEF LedgerInv
<1>2. LedgerInv /\ [LedgerNext]_ledgerVars => LedgerInv'
  BY LedgerStep
<1> QED BY <1>1, <1>2, PTL DEF LedgerSpec

(* For any blocks and transactions: txhash has exactly what the blocks     *)
(* without complaint hold, and inputhash the inputs of every transaction   *)
(* known in full (tx_in_hashes.c).                                         *)
THEOREM IndexesExact ==
    ASSUME LedgerAssumption
    PROVE  LedgerSpec => []IndexExact
<1>1. LedgerInv => IndexExact
  <2> SUFFICES ASSUME LedgerInv PROVE IndexExact
    OBVIOUS
  <2>1. \A s \in Slot : s[1] \notin complaint =>
           (<<s[2], s[1]>> \in txhash <=> s \in held \cup hashed)
    <3> SUFFICES ASSUME NEW s \in Slot, s[1] \notin complaint
                 PROVE  <<s[2], s[1]>> \in txhash <=> s \in held \cup hashed
      OBVIOUS
    <3>1. s[1] \in Blocks /\ s[2] \in Txs /\ s = <<s[1], s[2]>> /\ s[2] \in Content[s[1]]
      BY DEF Slot
    <3> QED BY <3>1 DEF LedgerInv, TxhashExact
  <2>2. freed = {} => \A t \in Txs, o \in Txs :
          /\ o \in Spends[t] /\ txhash_gettx(txhash, t) => t \in UsersOf(inputhash, o)
          /\ t \in UsersOf(inputhash, o) /\ complaint = {} => txhash_gettx(txhash, t)
    BY DEF LedgerInv, InputsExact, Covers, NoMore
  <2> QED BY <2>1, <2>2 DEF IndexExact
<1> QED BY <1>1, LedgerInvariant, PTL

(* For any blocks and transactions, in whatever order they come: two       *)
(* stored transactions on a chain without complaints do not spend the same *)
(* stored output (check_resolved_txs(), check_block_shard()).              *)
THEOREM NoDoubleSpend ==
    ASSUME LedgerAssumption
    PROVE  LedgerSpec => []DoubleSpendNoticed
<1>1. LedgerInv => DoubleSpendNoticed
  <2> SUFFICES ASSUME LedgerInv, Idle, freed = {},
                      NEW s \in held, NEW r \in held,
                      NEW o \in Spends[s[2]] \cap Spends[r[2]],
                      s # r, s[1] \in Anc[r[1]], Anc[r[1]] \cap complaint = {},
                      NEW a \in Anc[s[1]], <<a, o>> \in held
               PROVE  FALSE
    BY DEF DoubleSpendNoticed
  <2>1. s \in Slot /\ r \in Slot /\ a \in Blocks /\ o \in Txs
    BY DEF LedgerInv, LedgerType, Slot
  <2>2. Conflict(s, r, a, o)
    BY DEF Conflict
  <2>3. storing = {} /\ ended = ""
    BY DEF Idle
  <2> QED BY <2>1, <2>2, <2>3 DEF LedgerInv, ConflictsStoring
<1> QED BY <1>1, LedgerInvariant, PTL

(* For any blocks and transactions: what is pending can be mined on the    *)
(* head, its inputs being there and unspent by anything else that is       *)
(* pending (add_pending_tx(), recheck_pending_txs()).                      *)
THEOREM PendingCanBeMined ==
    ASSUME LedgerAssumption
    PROVE  LedgerSpec => []PendingMinable
<1>1. LedgerInv => PendingMinable
  BY DEF LedgerInv, Minable, PendingMinable, Settled, Idle, Returned
<1> QED BY <1>1, LedgerInvariant, PTL
=============================================================================
