------------------------------- MODULE Wallet ------------------------------
(***************************************************************************)
(* The wallet (dumbwallet.c) against the daemon it asks over JSON-RPC:     *)
(* listtransactions.c, create_tx.c, tx.c and what sendrawtransaction.c     *)
(* does with the result.  Amounts are scaled: a u32 has Wrap values, and   *)
(* Wrap = 2 * MaxInputs * MaxSatoshi as in protocol.h.                     *)
(***************************************************************************)
EXTENDS Naturals, Integers, Sequences, FiniteSets, SequencesExt, FiniteSetsExt

CONSTANTS MaxTxs,       \* bound on the transactions
          MaxBlocks,    \* bound on the preferred chain
          Deposits,     \* amounts the gateway pays
          Asked,        \* <<whole, cents>> the user asks to send
          Cents,        \* 100 in get_amount()
          MaxInputs,    \* PROTOCOL_TX_MAX_INPUTS
          MaxSatoshi,   \* PROTOCOL_MAX_SATOSHI
          Horizon       \* blocks young enough to be spent from

VARIABLES txs,          \* all transactions, in order of creation
          chain,        \* preferred chain: a sequence of sets of indices
          pending       \* indices of pending transactions

walletVars == <<txs, chain, pending>>

Wrap == 2 * MaxInputs * MaxSatoshi
u32(n) == n % Wrap

OnChain == UNION {chain[i] : i \in DOMAIN chain}

num_outputs(tx) == IF tx.type = "normal" THEN 2 ELSE 1

(* find_output(): what is sent goes to the destination, the change to the  *)
(* one who signs.                                                          *)
OutAddr(tx, n) == IF n = 0 THEN tx.to ELSE tx.from
OutAmount(tx, n) == IF n = 0 THEN tx.send ELSE tx.change

tx_amount_sent(tx) == u32(tx.send + tx.change)

SpentBy(S, o) == \E t \in S : o \in ToSet(txs[t].inputs)

-----------------------------------------------------------------------------
(* listtransactions.  tx_find_doublespend() from the preferred chain sees  *)
(* the spends in its blocks, not the pending ones.                         *)
(* Mutant: a transaction with a spent output is not reported. *)
MutUnspentOutputAffects(t) ==
  /\ \A n \in 0 .. num_outputs(txs[t]) - 1 : ~SpentBy(OnChain, <<t, n>>)
  /\ \E n \in 0 .. num_outputs(txs[t]) - 1 : OutAddr(txs[t], n) = "me"

unspent_output_affects(t) ==
  \E n \in 0 .. num_outputs(txs[t]) - 1 :
    ~SpentBy(OnChain, <<t, n>>) /\ OutAddr(txs[t], n) = "me"

Descending(S) == SetToSortSeq(S, >)

(* From the head back to the horizon, reported forwards. *)
add_existing_txs ==
  LET young == SubSeq(chain, Max({1, Len(chain) - Horizon + 1}), Len(chain))
  IN  FlattenSeq([i \in DOMAIN young |-> Descending({t \in young[i] : unspent_output_affects(t)})])

(* The shards of the pending block: the loop takes the order, 2, for their *)
(* number, 4, so half of them are not looked at.                           *)
Order == 2
Shard(t) == t % 2^Order
add_pending_txs == Descending({t \in pending : Shard(t) < Order /\ unspent_output_affects(t)})

listtransactions(minconf) ==
  add_existing_txs \o (IF minconf = 0 THEN add_pending_txs ELSE <<>>)

-----------------------------------------------------------------------------
(* get_utxo(): the outputs of what is listed that are ours; no change is   *)
(* no output.  Outputs of a listed transaction that are spent are taken    *)
(* with the others.                                                        *)
add_utxo(t, n) ==
  IF OutAddr(txs[t], n) = "me" /\ OutAmount(txs[t], n) # 0
  THEN <<[tx |-> t, out |-> n, amount |-> OutAmount(txs[t], n)]>> ELSE <<>>

UtxosOf(t) == IF txs[t].type = "normal" THEN add_utxo(t, 0) \o add_utxo(t, 1) ELSE add_utxo(t, 0)

get_utxo(minconf) == FlattenSeq([i \in DOMAIN listtransactions(minconf) |-> UtxosOf(listtransactions(minconf)[i])])

(* get_amount(): -1 when it exits. *)
get_amount(a) == IF a[1] >= MaxSatoshi \div Cents \/ a[2] > Cents THEN -1 ELSE a[1] * Cents + a[2]

(* The selection of send_normal(): in order, until nothing remains; when   *)
(* there is no more room a smaller one is kicked out.                      *)
Take(acc, u) ==
  IF acc.remaining <= 0 \/ acc.failed THEN acc
  ELSE IF Len(acc.in) < MaxInputs
  THEN [acc EXCEPT !.in = Append(@, u), !.remaining = @ - u.amount]
  ELSE LET smaller == {n \in DOMAIN acc.in : acc.in[n].amount < u.amount}
       IN  IF smaller = {} THEN [acc EXCEPT !.failed = TRUE]
           ELSE LET n == Min(smaller)
                IN  [acc EXCEPT !.in[n] = u, !.remaining = @ + acc.in[n].amount - u.amount]

Selected(amount) == FoldLeft(Take, [in |-> <<>>, remaining |-> amount, failed |-> FALSE], get_utxo(0))

(* create_normal_tx(): what remains, negated, is the change, as a u32. *)
create_normal_tx(to, amount, sel) ==
  [type |-> "normal", from |-> "me", to |-> to, send |-> amount, change |-> u32(-sel.remaining),
   inputs |-> [i \in DOMAIN sel.in |-> <<sel.in[i].tx, sel.in[i].out>>]]

-----------------------------------------------------------------------------
(* Mutant: the change is not limited. *)
MutWellformed(tx) ==
  /\ tx.send <= MaxSatoshi
  /\ tx_amount_sent(tx) # 0
  /\ Len(tx.inputs) \in 1 .. MaxInputs

(* check_tx_with_inputs_wellformed() *)
Wellformed(tx) ==
  /\ tx.send <= MaxSatoshi /\ tx.change <= MaxSatoshi
  /\ tx_amount_sent(tx) # 0
  /\ Len(tx.inputs) \in 1 .. MaxInputs

(* check_tx_inputs() for a pending transaction: every input is known, ours *)
(* and not spent, in a block or by another pending one, and the amounts    *)
(* agree as u32.                                                           *)
InputsOK(tx) ==
  LET ins == {<<tx.inputs[i][1], tx.inputs[i][2]>> : i \in DOMAIN tx.inputs} IN
  /\ Cardinality(ins) = Len(tx.inputs)
  /\ \A o \in ins : /\ o[1] \in OnChain \cup pending
                    /\ OutAddr(txs[o[1]], o[2]) = tx.from
                    /\ ~SpentBy(OnChain \cup pending, o)
  /\ u32(MapThenSumSet(LAMBDA o : OutAmount(txs[o[1]], o[2]), ins)) = tx_amount_sent(tx)

WalletInit == txs = <<>> /\ chain = <<>> /\ pending = {}

from_gateway(amount) ==
  /\ Len(txs) < MaxTxs
  /\ txs' = Append(txs, [type |-> "gateway", from |-> "gateway", to |-> "me",
                         send |-> amount, change |-> 0, inputs |-> <<>>])
  /\ pending' = pending \cup {Len(txs')}
  /\ UNCHANGED chain

(* send_normal() and sendrawtransaction: one that is refused changes       *)
(* nothing.                                                                *)
send_normal(to, asked) ==
  LET amount == get_amount(asked)
      sel == Selected(amount)
      tx == create_normal_tx(to, amount, sel)
  IN  /\ Len(txs) < MaxTxs
      /\ amount >= 0 /\ ~sel.failed
      /\ Wellformed(tx) /\ InputsOK(tx)
      /\ txs' = Append(txs, tx)
      /\ pending' = pending \cup {Len(txs')}
      /\ UNCHANGED chain

(* A block takes pending transactions whose inputs are in earlier blocks. *)
mined(S) ==
  /\ Len(chain) < MaxBlocks
  /\ \A t \in S : \A i \in DOMAIN txs[t].inputs : txs[t].inputs[i][1] \in OnChain
  /\ chain' = Append(chain, S) /\ pending' = pending \ S
  /\ UNCHANGED txs

(* The preferred chain loses its last block: what was in it is pending.    *)
block_lost ==
  /\ chain # <<>>
  /\ pending' = pending \cup Last(chain) /\ chain' = Front(chain)
  /\ UNCHANGED txs

WalletNext ==
  \/ \E a \in Deposits : from_gateway(a)
  \/ \E to \in {"me", "you"}, a \in Asked : send_normal(to, a)
  \/ \E S \in SUBSET pending : mined(S)
  \/ block_lost

WalletSpec == WalletInit /\ [][WalletNext]_walletVars

-----------------------------------------------------------------------------
Outputs == {<<t, n>> : t \in OnChain \cup pending, n \in {0, 1}}
Unspent(S) == {o \in Outputs : o[1] \in S /\ o[2] < num_outputs(txs[o[1]]) /\ ~SpentBy(OnChain \cup pending, o)}
Total(S) == MapThenSumSet(LAMBDA o : OutAmount(txs[o[1]], o[2]), S)

(* Money is neither made nor lost: what can be spent is what the gateway   *)
(* paid in, although sums are taken modulo 2^32 and a wallet that is short *)
(* of funds asks for a negative change.                                    *)
MoneyConserved ==
  Total(Unspent(OnChain \cup pending)) =
    MapThenSumSet(LAMBDA t : txs[t].send, {t \in OnChain \cup pending : txs[t].type = "gateway"})

(* The wallet sees all it can spend: every output of ours in a block of    *)
(* the preferred chain that is young enough and that no block of it spends *)
(* is among the outputs the wallet chooses from.                           *)
SpendableSeen ==
  \A i \in DOMAIN chain : i > Len(chain) - Horizon =>
    \A t \in chain[i] : \A n \in 0 .. num_outputs(txs[t]) - 1 :
      OutAddr(txs[t], n) = "me" /\ OutAmount(txs[t], n) # 0 /\ ~SpentBy(OnChain, <<t, n>>)
        => \E k \in DOMAIN get_utxo(1) : get_utxo(1)[k].tx = t /\ get_utxo(1)[k].out = n
=============================================================================
