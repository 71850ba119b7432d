------------------------------ MODULE Gateway ------------------------------
(***************************************************************************)
(* The gateway (pettycoin-gateway.c): a process that polls bitcoind for    *)
(* deposits, turns each confirmed one into a from-gateway transaction with *)
(* pettycoin-tx, injects it with pettycoin-query, and appends the deposit  *)
(* to the file gateway-txs so that a later run does not pay it again.      *)
(*                                                                         *)
(* Several copies may be started; any of them may be killed between any    *)
(* two system calls.  bitcoind is external: it lists deposits in order of  *)
(* arrival, from the one the caller asks for.                              *)
(***************************************************************************)
EXTENDS Naturals, Sequences, FiniteSets

CONSTANTS Deposits,     \* bitcoin transactions to the gateway's account
          Procs,        \* copies of the gateway somebody starts
          Poison,       \* deposits without an input address: block rewards
          Amount,       \* [Deposits -> Nat], in satoshi
          Width,        \* bits of the amount pettycoin-tx passes on
          MaxDeaths     \* bound on the number of times a copy dies

VARIABLES bitcoin,      \* deposits in bitcoind's order
          confirmed,    \* those with REQUIRED_CONFIRMATIONS
          files,        \* the files --setup has created
          txs,          \* gateway-txs: complete records
          torn,         \* gateway-txs ends in a partial record
          lock,         \* set of copies that hold the lock on gateway-txs
          proc,         \* [Procs -> state of the process]
          paid,         \* [Deposits -> Seq of amounts injected for it]
          lost,         \* [Deposits -> payments whose record was not written]
          deaths

gatewayVars == <<bitcoin, confirmed, files, txs, torn, lock, proc, paid, lost, deaths>>

Down == [at |-> "down", known_txs |-> 0, thash |-> {}, list |-> <<>>, conf |-> {}]

GatewayInit ==
  /\ bitcoin = <<>> /\ confirmed = {} /\ files = 0
  /\ txs = <<>> /\ torn = FALSE /\ lock = {}
  /\ proc = [p \in Procs |-> Down]
  /\ paid = [d \in Deposits |-> <<>>] /\ lost = [d \in Deposits |-> 0]
  /\ deaths = 0

(* The world: somebody pays, a block confirms. *)
deposit(d) ==
  /\ d \notin {bitcoin[i] : i \in DOMAIN bitcoin}
  /\ bitcoin' = Append(bitcoin, d)
  /\ UNCHANGED <<confirmed, files, txs, torn, lock, proc, paid, lost, deaths>>

confirm(d) ==
  /\ d \in {bitcoin[i] : i \in DOMAIN bitcoin} \ confirmed
  /\ confirmed' = confirmed \cup {d}
  /\ UNCHANGED <<bitcoin, files, txs, torn, lock, proc, paid, lost, deaths>>

(* setup_gateway(): three files, created O_EXCL one after the other.  It    *)
(* refuses to start when the account exists, which asking for its address   *)
(* makes it do, so a setup that was cut short is never completed.           *)
SetupFiles == <<"gateway-address", "gateway-privkey", "gateway-txs">>

setup_gateway(p) ==
  /\ \/ proc[p] = Down /\ files = 0
     \/ proc[p].at = "setup" /\ files < Len(SetupFiles)
  /\ files' = files + 1
  /\ proc' = [proc EXCEPT ![p] = IF files' = Len(SetupFiles) THEN Down ELSE [Down EXCEPT !.at = "setup"]]
  /\ UNCHANGED <<bitcoin, confirmed, txs, torn, lock, paid, lost, deaths>>

(* A mutant. *)
MutGetLock(p) == TRUE

(* get_lock(): F_SETLK does not wait. *)
get_lock(p) == lock \subseteq {p}

(* read_gateway_txs() and the reading of gateway-privkey: the only way into *)
(* the loop.  It exits when a file is missing, when another copy has the    *)
(* lock, and when the size is not a whole number of records.                *)
read_gateway_txs(p) ==
  /\ proc[p] = Down /\ files = Len(SetupFiles)
  /\ get_lock(p) /\ ~torn
  /\ lock' = lock \cup {p}
  /\ proc' = [proc EXCEPT ![p] = [Down EXCEPT !.at = "poll", !.thash = {txs[i] : i \in DOMAIN txs}]]
  /\ UNCHANGED <<bitcoin, confirmed, files, txs, torn, paid, lost, deaths>>

(* json_bitcoind("listtransactions", known_txs), with the answer parsed. *)
listtransactions(p) ==
  /\ proc[p].at = "poll"
  /\ proc' = [proc EXCEPT ![p].at = "list", ![p].conf = confirmed,
                          ![p].list = SubSeq(bitcoin, proc[p].known_txs + 1, Len(bitcoin))]
  /\ UNCHANGED <<bitcoin, confirmed, files, txs, torn, lock, paid, lost, deaths>>

(* The loop over the answer, up to a deposit that has to be paid: it ends   *)
(* at the first one that was not confirmed when bitcoind answered.          *)
Confirmed(p) == proc[p].list # <<>> /\ Head(proc[p].list) \in proc[p].conf

next_entry(p) ==
  /\ proc[p].at = "list"
  /\ \/ /\ ~Confirmed(p)
        /\ proc' = [proc EXCEPT ![p].at = "poll", ![p].list = <<>>, ![p].conf = {}]
     \/ /\ Confirmed(p) /\ Head(proc[p].list) \in proc[p].thash
        /\ proc' = [proc EXCEPT ![p].known_txs = @ + 1, ![p].list = Tail(@)]
  /\ UNCHANGED <<bitcoin, confirmed, files, txs, torn, lock, paid, lost, deaths>>

(* The process ends: the kernel drops the lock.  A payment it had injected  *)
(* and not recorded is forgotten.                                           *)
Die(p) ==
  /\ proc' = [proc EXCEPT ![p] = Down]
  /\ lock' = lock \ {p}

(* get_first_input_addr(): a block reward has no input, the process exits.  *)
get_first_input_addr(d) == d \notin Poison

(* pettycoin-tx from-gateway: atoi() and cpu_to_le32() keep Width bits.     *)
from_gateway(d) == Amount[d] % 2^Width

(* pettycoin_tx(): create and inject.  Either process may fail, and then    *)
(* the gateway exits; the injection may have happened all the same, when    *)
(* pettycoin-query dies after the daemon has taken the transaction.         *)
pettycoin_tx(p) ==
  /\ proc[p].at = "list" /\ Confirmed(p)
  /\ LET d == Head(proc[p].list) IN
     /\ d \notin proc[p].thash
     /\ \/ /\ get_first_input_addr(d)
           /\ paid' = [paid EXCEPT ![d] = Append(@, from_gateway(d))]
           /\ proc' = [proc EXCEPT ![p].known_txs = @ + 1, ![p].at = "record"]
           /\ UNCHANGED <<lock, lost, deaths>>
        \/ /\ get_first_input_addr(d) /\ deaths < MaxDeaths
           /\ deaths' = deaths + 1
           /\ paid' = [paid EXCEPT ![d] = Append(@, from_gateway(d))]
           /\ lost' = [lost EXCEPT ![d] = @ + 1]
           /\ Die(p)
        \/ /\ deaths < MaxDeaths
           /\ deaths' = deaths + 1
           /\ Die(p)
           /\ UNCHANGED <<paid, lost>>
  /\ UNCHANGED <<bitcoin, confirmed, files, txs, torn>>

(* write_all() of the txid, then the next entry; a full disk leaves a part  *)
(* of the record and ends the process.                                      *)
write_txid(p) ==
  /\ proc[p].at = "record"
  /\ \/ /\ txs' = Append(txs, Head(proc[p].list))
        /\ proc' = [proc EXCEPT ![p].at = "list", ![p].list = Tail(@)]
        /\ UNCHANGED <<torn, lock, lost, deaths>>
     \/ /\ deaths < MaxDeaths
        /\ deaths' = deaths + 1
        /\ torn' = TRUE
        /\ lost' = [lost EXCEPT ![Head(proc[p].list)] = @ + 1]
        /\ Die(p)
        /\ UNCHANGED txs
  /\ UNCHANGED <<bitcoin, confirmed, files, paid>>

killed(p) ==
  /\ proc[p] # Down /\ deaths < MaxDeaths
  /\ deaths' = deaths + 1
  /\ Die(p)
  /\ lost' = IF proc[p].at = "record" THEN [lost EXCEPT ![Head(proc[p].list)] = @ + 1] ELSE lost
  /\ UNCHANGED <<bitcoin, confirmed, files, txs, torn, paid>>

GatewayNext ==
  \/ \E d \in Deposits : deposit(d) \/ confirm(d)
  \/ \E p \in Procs : \/ setup_gateway(p) \/ read_gateway_txs(p) \/ listtransactions(p)
                      \/ next_entry(p) \/ pettycoin_tx(p) \/ write_txid(p) \/ killed(p)

GatewaySpec == GatewayInit /\ [][GatewayNext]_gatewayVars

-----------------------------------------------------------------------------
Records(d) == Cardinality({i \in DOMAIN txs : txs[i] = d})
InHand(d) == Cardinality({p \in Procs : proc[p].at = "record" /\ Head(proc[p].list) = d})

(* What is skipped has been paid: the count a running gateway starts its    *)
(* next listing from never passes over a deposit nobody was paid for.       *)
SkippedPaid == \A p \in Procs : \A i \in 1 .. proc[p].known_txs : paid[bitcoin[i]] # <<>>

(* A deposit is paid again only when the record of a payment was lost: the  *)
(* in-process count of known transactions, the table read at start-up and   *)
(* the lock between them keep every other payment from being repeated, over *)
(* restarts and concurrent copies; and none is passed over.                 *)
PaidOnce ==
  /\ \A d \in Deposits : Len(paid[d]) = Records(d) + InHand(d) + lost[d] /\ Records(d) <= 1
  /\ SkippedPaid
=============================================================================
