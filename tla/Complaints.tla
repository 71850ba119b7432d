----------------------------- MODULE Complaints -----------------------------
(***************************************************************************)
(* How a node learns from others that a transaction, or a block, is bad:   *)
(* the reports about single transactions (recv_tx_bad_input(),             *)
(* recv_tx_bad_amount(), recv_tx_doublespend() of peer.c) and the          *)
(* complaints about blocks (recv_complain.c), which complain.c composes.   *)
(*                                                                         *)
(* A slot <<b, i>> is the place of a transaction in a block.  A complaint  *)
(* carries parts one after the other, as tal_packet.c appends them: for a  *)
(* proven transaction the proof, the transaction and, if it has inputs,    *)
(* its references.  Skip is the number of parts unmarshal_proven_tx() goes *)
(* forward once it has read the proof.  It is 0 in the source, so that the *)
(* proof itself is read as the transaction; 1 is the layout that           *)
(* protocol_net.h gives.                                                   *)
(*                                                                         *)
(* What a complaint does to pending and to inputhash is the module Ledger. *)
(***************************************************************************)
EXTENDS Integers, Sequences, FiniteSets

CONSTANTS
    CBlocks,      \* blocks
    CAnc,         \* CAnc[b]: b and what it descends from
    CContent,     \* CContent[b]: the transactions of b, in order
    CTxs,         \* transactions
    Kind,         \* Kind[t]: "normal", "gateway" or "claim"
    Inputs,       \* Inputs[t]: the transactions whose output t spends
    Value,        \* Value[t]: what the output of t is worth
    Sent, Fee,    \* what t sends, and the fee it owes
    NotMine,      \* <<t, i>>: input i of t was not to the address of t
    Invalid,      \* transactions that check_tx() refuses
    Rank,         \* Rank[t]: where tx_cmp() puts t
    BadRef,       \* <<s, i, r>>: the reference of input i of slot s points to
                  \* slot r, which is not that input
    Skips         \* values of Skip

ComplaintAssumption ==
    \A b \in CBlocks : CAnc[b] \subseteq CBlocks /\ \A a \in CAnc[b] : CAnc[a] \subseteq CAnc[b]

VARIABLES
    blockKnown,   \* the blocks block_find_any() finds
    stored,       \* slots whose transaction is in its shard
    txIndex,      \* slots that txhash has as TX_IN_BLOCK
    blamed,       \* block->complaint, the blocks that have one
    told,         \* blocks this node has broadcast a complaint about
    wanted,       \* blocks todo_add_get_block() asked for
    heard,        \* the known block the last packet complained about
    report,       \* the double spend report in its loop, or NoReport
    skip,         \* one of Skips
    dead          \* an uninitialised pointer was followed

complaintVars == <<blockKnown, stored, txIndex, blamed, told, wanted, heard,
                   report, skip, dead>>

Slots == {s \in CBlocks \X (1 .. 3) : s[2] <= Len(CContent[s[1]])}
TxAt(s) == CContent[s[1]][s[2]]
NoReport == <<>>
num_inputs(t) == Len(Inputs[t])
Precedes(a, b) == a \in CAnc[b]

ComplaintInit ==
    /\ blockKnown = {b \in CBlocks : CAnc[b] = {b}}
    /\ stored = {} /\ txIndex = {} /\ blamed = {} /\ told = {} /\ wanted = {}
    /\ heard = <<>> /\ report = NoReport /\ dead = FALSE
    /\ skip \in Skips

-----------------------------------------------------------------------------
(* Judging a transaction. *)

InputTotal(t) ==
    LET sum[i \in 0 .. num_inputs(t)] == IF i = 0 THEN 0 ELSE sum[i - 1] + Value[Inputs[t][i]]
    IN  sum[num_inputs(t)]

correct_amount(t) == InputTotal(t) = Sent[t] + Fee[t]

(* check_simple_input(). *)
InputFine(t, i) == <<t, i>> \notin NotMine

(* Mutant: that `in' is the transaction the input names is not checked. *)
MutVerifyProblemInput(t, i, in) ==
    IF i \notin 1 .. num_inputs(t) \/ Kind[t] = "claim" THEN "BAD_INPUTNUM"
    ELSE IF InputFine(t, i) /\ in = Inputs[t][i] THEN "OK" ELSE "BAD"

(* They say that input i of t is `in'.  "OK" and "BAD" are the judgement   *)
(* on the input, anything else an error of the packet.                     *)
verify_problem_input(t, i, in) ==
    IF i \notin 1 .. num_inputs(t) \/ Kind[t] = "claim" THEN "BAD_INPUTNUM"
    ELSE IF in # Inputs[t][i] THEN "BAD_INPUT"
    ELSE IF InputFine(t, i) THEN "OK" ELSE "BAD"

(* All inputs are given, and each is fine: do they add up?  Unlike         *)
(* correct_amount() it leaves the fee out.                                 *)
unmarshal_and_check_bad_amount(t, ins) ==
    IF num_inputs(t) = 0 THEN "BAD_INPUTNUM"
    ELSE IF \E i \in 1 .. Len(ins) : ins[i] \in Invalid \/ verify_problem_input(t, i, ins[i]) # "OK"
    THEN "BAD_INPUT"
    ELSE IF Len(ins) # num_inputs(t) THEN "INVALID_LEN"
    ELSE IF InputTotal(t) = Sent[t] THEN "COMPLAINT_INVALID" ELSE "NONE"

-----------------------------------------------------------------------------
(* Publishing. *)

(* complaint_on_all(): the block and its descendents are marked and leave  *)
(* txhash.  No complaint is published about a block that has one.          *)
publish_complaint(b) ==
    IF b \in blamed THEN UNCHANGED <<blamed, txIndex, told>>
    ELSE /\ blamed' = blamed \cup {d \in blockKnown : Precedes(b, d)}
         /\ txIndex' = {s \in txIndex : s[1] \in blockKnown => ~Precedes(b, s[1])}
         /\ told' = told \cup {b}

(* complain_bad_input(), complain_bad_amount(), complain_misorder(),       *)
(* complain_doublespend(), complain_bad_input_ref(), complain_bad_claim(), *)
(* complain_bad_tx(): `second' is the other proven transaction, as a slot, *)
(* or the inputs.                                                          *)
Complaint(type, s, num, second) == [type |-> type, slot |-> s, num |-> num, second |-> second]

Proof(s) == [part |-> "proof", what |-> s]
TxPart(t) == [part |-> "tx", what |-> t]
append_proven_tx(s) ==
    <<Proof(s), TxPart(TxAt(s))>>
        \o IF num_inputs(TxAt(s)) = 0 THEN <<>> ELSE <<[part |-> "refs", what |-> s]>>

TwoProofs == {"misorder", "doublespend", "bad_input_ref", "claim_input_invalid"}
Body(c) ==
    append_proven_tx(c.slot)
        \o IF c.type \in TwoProofs THEN append_proven_tx(c.second)
           ELSE [i \in 1 .. Len(c.second) |-> TxPart(c.second[i])]

(* What there is to complain of, given all the blocks. *)
Conflict(s, i, r, j) ==
    /\ s # r /\ Precedes(s[1], r[1])
    /\ i <= num_inputs(TxAt(s)) /\ j <= num_inputs(TxAt(r))
    /\ Inputs[TxAt(s)][i] = Inputs[TxAt(r)][j]
Fine(t) == \A i \in 1 .. num_inputs(t) : InputFine(t, i)
Complaints ==
    {Complaint("tx_invalid", s, 0, <<>>) : s \in {x \in Slots : TxAt(x) \in Invalid}}
    \cup {Complaint("bad_input", x[1], x[2], <<Inputs[TxAt(x[1])][x[2]]>>) :
            x \in {y \in Slots \X (1 .. 2) : <<TxAt(y[1]), y[2]>> \in NotMine}}
    \cup {Complaint("bad_amount", s, 0, Inputs[TxAt(s)]) :
            s \in {x \in Slots : /\ Kind[TxAt(x)] = "normal" /\ Fine(TxAt(x))
                                 /\ ~correct_amount(TxAt(x))}}
    \cup {Complaint("misorder", x[1], 0, x[2]) :
            x \in {y \in Slots \X Slots : /\ y[1][1] = y[2][1] /\ y[1][2] < y[2][2]
                                          /\ Rank[TxAt(y[1])] >= Rank[TxAt(y[2])]}}
    \cup {Complaint("doublespend", x[1], <<x[2], x[4]>>, x[3]) :
            x \in {y \in Slots \X (1 .. 2) \X Slots \X (1 .. 2) :
                      Conflict(y[1], y[2], y[3], y[4])}}
    \cup {Complaint("bad_input_ref", x[1], x[2], x[3]) : x \in BadRef}
    \cup {Complaint("claim_input_invalid", x[1], 0, x[2]) :
            x \in {y \in Slots \X Slots : /\ Kind[TxAt(y[1])] = "claim"
                                          /\ Inputs[TxAt(y[1])] = <<TxAt(y[2])>>}}

(* The block a complaint is about. *)
About(c) == IF c.type = "doublespend" THEN c.second[1] ELSE c.slot[1]

-----------------------------------------------------------------------------
(* Receiving a complaint. *)

unmarshal_tx(p) ==
    IF p = <<>> THEN "INVALID_LEN" ELSE IF p[1].part # "tx" THEN "TX_HIGH_VERSION" ELSE "NONE"

(* A transaction with its proof, from the parts p: the error, the position *)
(* it claims, the transaction and the parts that are left.                 *)
unmarshal_proven_tx(p) ==
    LET q    == SubSeq(p, 1 + skip, Len(p))
        slot == p[1].what
        t    == q[1].what
        left == SubSeq(q, IF num_inputs(t) = 0 THEN 2 ELSE 3, Len(q))
        none == [e |-> "INVALID_LEN", slot |-> <<>>, t |-> "", left |-> <<>>]
    IN  IF p = <<>> THEN none
        ELSE IF unmarshal_tx(q) # "NONE" THEN [none EXCEPT !.e = unmarshal_tx(q)]
        ELSE [slot |-> slot, t |-> t, left |-> left,
              e |-> IF slot[1] \notin blockKnown THEN "UNKNOWN_BLOCK"
                    ELSE IF t \in Invalid THEN "check_tx"
                    ELSE IF t # TxAt(slot) THEN "BAD_PROOF" ELSE "NONE"]

(* recv_complain_tx_bad_input() after the proven transaction. *)
recv_complain_tx_bad_input(c, v) ==
    IF unmarshal_tx(v.left) # "NONE" THEN unmarshal_tx(v.left)
    ELSE IF Len(v.left) # 1 THEN "INVALID_LEN"
    ELSE CASE verify_problem_input(v.t, c.num, v.left[1].what) = "OK" -> "COMPLAINT_INVALID"
           [] verify_problem_input(v.t, c.num, v.left[1].what) = "BAD" -> "NONE"
           [] OTHER -> "BAD_INPUT"

recv_complain_tx_bad_amount(c, v) ==
    IF \E i \in 1 .. Len(v.left) : v.left[i].part # "tx" THEN "INVALID_LEN"
    ELSE unmarshal_and_check_bad_amount(v.t, [i \in 1 .. Len(v.left) |-> v.left[i].what])

(* The others have a second proven transaction, w. *)
recv_complain_tx_misorder(c, v, w) ==
    IF v.slot[1] # w.slot[1] \/ v.slot[2] = w.slot[2] THEN "BAD_MISORDER_POS"
    ELSE IF (v.slot[2] < w.slot[2]) = (Rank[v.t] < Rank[w.t]) /\ Rank[v.t] # Rank[w.t]
    THEN "COMPLAINT_INVALID" ELSE "NONE"

recv_complain_doublespend(c, v, w) ==
    IF c.num[1] > num_inputs(v.t) \/ c.num[2] > num_inputs(w.t) THEN "BAD_INPUTNUM"
    ELSE IF Inputs[v.t][c.num[1]] # Inputs[w.t][c.num[2]] THEN "BAD_INPUT"
    ELSE IF ~Precedes(v.slot[1], w.slot[1]) THEN "BAD_DOUBLESPEND_BLOCKS" ELSE "NONE"

recv_complain_bad_input_ref(c, v, w) ==
    IF c.num > num_inputs(v.t) THEN "BAD_INPUTNUM"
    ELSE IF <<v.slot, c.num, w.slot>> \notin BadRef THEN "BAD_INPUT"
    ELSE IF Inputs[v.t][c.num] = w.t THEN "COMPLAINT_INVALID" ELSE "NONE"

(* check_claim_input() returns ECODE_INPUT_OK, which is 0, as a truth      *)
(* value: a claim is never found to be right.                              *)
recv_complain_claim_input_invalid(c, v, w) ==
    IF Kind[v.t] # "claim" \/ Inputs[v.t][1] # w.t THEN "COMPLAINT_INVALID" ELSE "NONE"

(* txlen says where the transaction ends; complain_bad_tx() leaves it      *)
(* uninitialised.  The references are what is left, and nothing may be.    *)
recv_complain_tx_invalid(c, txlenRight) ==
    IF c.slot[1] \notin blockKnown THEN "UNKNOWN_BLOCK"
    ELSE IF TxAt(c.slot) \notin Invalid THEN "COMPLAINT_INVALID"
    ELSE IF ~txlenRight \/ num_inputs(TxAt(c.slot)) # 0 THEN "INVALID_LEN" ELSE "NONE"

Verdict(c, txlenRight) ==
    LET v == unmarshal_proven_tx(Body(c))
        w == unmarshal_proven_tx(v.left)
    IN  IF c.type = "tx_invalid" THEN recv_complain_tx_invalid(c, txlenRight)
        ELSE IF v.e # "NONE" THEN v.e
        ELSE IF c.type = "bad_input" THEN recv_complain_tx_bad_input(c, v)
        ELSE IF c.type = "bad_amount" THEN recv_complain_tx_bad_amount(c, v)
        ELSE IF w.e # "NONE" THEN w.e
        ELSE IF w.left # <<>> THEN "INVALID_LEN"
        ELSE CASE c.type = "misorder" -> recv_complain_tx_misorder(c, v, w)
               [] c.type = "doublespend" -> recv_complain_doublespend(c, v, w)
               [] c.type = "bad_input_ref" -> recv_complain_bad_input_ref(c, v, w)
               [] OTHER -> recv_complain_claim_input_invalid(c, v, w)

-----------------------------------------------------------------------------
(* Steps of the node. *)

Free == report = NoReport /\ ~dead

(* A header arrives; it inherits the complaint of its predecessor. *)
LearnBlock(b) ==
    /\ Free /\ b \notin blockKnown /\ CAnc[b] \ {b} \subseteq blockKnown
    /\ blockKnown' = blockKnown \cup {b}
    /\ blamed' = IF CAnc[b] \cap blamed # {} THEN blamed \cup {b} ELSE blamed
    /\ wanted' = wanted \ {b}
    /\ UNCHANGED <<stored, txIndex, told, report, skip, dead>>

(* put_tx_in_shard(): also into a block with a complaint.  The fault is    *)
(* one this node does not see, for want of the inputs.                     *)
LearnTx(s) ==
    /\ Free /\ s[1] \in blockKnown /\ s \notin stored /\ TxAt(s) \notin Invalid
    /\ stored' = stored \cup {s}
    /\ txIndex' = txIndex \cup {s}
    /\ UNCHANGED <<blockKnown, blamed, told, wanted, report, skip, dead>>

(* pkt_in() for the seven packets PROTOCOL_PKT_COMPLAIN_*.                 *)
recv_complain(c) ==
    /\ Free
    /\ \E txlenRight \in BOOLEAN : LET e == Verdict(c, txlenRight) IN
          /\ e = "NONE" => publish_complaint(About(c))
          /\ e # "NONE" => UNCHANGED <<blamed, txIndex, told>>
          /\ heard' = IF e = "UNKNOWN_BLOCK" THEN <<>> ELSE <<About(c)>>
          /\ wanted' = IF e = "UNKNOWN_BLOCK" THEN wanted \cup (CAnc[About(c)] \ blockKnown)
                       ELSE wanted
    /\ UNCHANGED <<blockKnown, stored, report, skip, dead>>

(* The blocks a report on t marks: those of the elements of txhash that    *)
(* the loop visits.  A complaint takes elements out of the table and puts  *)
(* others in, after which the iterator may have lost its place.            *)
BlameAll(t) ==
    LET copies == {s \in txIndex : TxAt(s) = t} IN
    \E S \in SUBSET copies :
        LET hit == {s \in S : s[1] \notin blamed} IN
        /\ copies # {} => S # {}
        /\ blamed' = blamed \cup {d \in blockKnown : \E s \in hit : Precedes(s[1], d)}
        /\ txIndex' = {x \in txIndex : \A s \in hit : ~Precedes(s[1], x[1])}
        /\ told' = told \cup {s[1] : s \in hit}

(* A peer answers a transaction of ours: input i, which it gives, is bad. *)
recv_tx_bad_input(t, i, in) ==
    /\ Free /\ {t, in} \cap Invalid = {}
    /\ verify_problem_input(t, i, in) = "BAD"
    /\ BlameAll(t)
    /\ UNCHANGED <<blockKnown, stored, wanted, report, skip, dead>>

(* A peer answers: it does not add up.  complain_bad_amount() is given     *)
(* the local array in[], which nothing has filled in.                      *)
recv_tx_bad_amount(t) ==
    /\ Free /\ t \notin Invalid
    /\ Kind[t] = "normal" /\ Fine(t) /\ ~correct_amount(t)
    /\ unmarshal_and_check_bad_amount(t, Inputs[t]) = "NONE"
    /\ \/ /\ BlameAll(t) /\ UNCHANGED dead
       \/ /\ \E s \in txIndex : TxAt(s) = t /\ s[1] \notin blamed
          /\ dead' = TRUE /\ UNCHANGED <<blamed, txIndex, told>>
    /\ UNCHANGED <<blockKnown, stored, wanted, report, skip>>

(* A peer reports that t and u spend the same output: the loop starts. *)
recv_tx_doublespend(t, i, u, j) ==
    /\ Free /\ t # u /\ {t, u} \cap Invalid = {}
    /\ i <= num_inputs(t) /\ j <= num_inputs(u) /\ Inputs[t][i] = Inputs[u][j]
    /\ report' = <<t, i, u, j>>
    /\ UNCHANGED <<blockKnown, stored, txIndex, blamed, told, wanted, skip, dead>>

(* The pairs of slots, the earlier first, that the loop can find. *)
Pairs ==
    {p \in txIndex \X txIndex :
        /\ {TxAt(p[1]), TxAt(p[2])} = {report[1], report[3]} /\ TxAt(p[1]) # TxAt(p[2])
        /\ Precedes(p[1][1], p[2][1])}

BlameLater(p) ==
    publish_complaint(p[2][1])

(* One turn of the loop, which starts again after every complaint and      *)
(* ends when it finds no pair.                                             *)
again ==
    /\ report # NoReport /\ ~dead
    /\ \/ /\ \E p \in Pairs : BlameLater(p)
          /\ UNCHANGED report
       \/ Pairs = {} /\ report' = NoReport /\ UNCHANGED <<blamed, txIndex, told>>
    /\ UNCHANGED <<blockKnown, stored, wanted, skip, dead>>

ComplaintNext ==
    \/ \E c \in Complaints : recv_complain(c)
    \/ /\ \/ \E b \in CBlocks : LearnBlock(b)
          \/ \E s \in Slots : LearnTx(s)
          \/ \E t, in \in CTxs, i \in 1 .. 2 : recv_tx_bad_input(t, i, in)
          \/ \E t \in CTxs : recv_tx_bad_amount(t)
          \/ \E t, u \in CTxs, i, j \in 1 .. 2 : recv_tx_doublespend(t, i, u, j)
          \/ again
       /\ heard' = <<>>

ComplaintSpec == ComplaintInit /\ [][ComplaintNext]_complaintVars

-----------------------------------------------------------------------------
(* Properties *)

(* Whatever peers report, and in whatever order it arrives with the blocks *)
(* themselves, a block is marked only if it, or a block before it, holds a *)
(* transaction that is wrong or the later of two conflicting ones.  (All   *)
(* claims count as wrong; see recv_complain_claim_input_invalid.)          *)
Wrong(b) == \E c \in Complaints : About(c) \in CAnc[b]
OnlyFaultyBlamed == \A b \in blamed : Wrong(b)

(* "Mark it invalid, and tell everyone else if it wasn't already":         *)
(* a justified complaint about a known block leaves the block marked.      *)
ComplaintsHeard ==
    heard # <<>> => heard[1] \in blamed
=============================================================================
