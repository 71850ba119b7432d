------------------------------ MODULE MCNode ------------------------------
(***************************************************************************)
(* The bookkeeping of one node, each component in behaviours of its own:   *)
(* the transactions in blocks and pending (Ledger), complaints and reports *)
(* from peers (Complaints), and connections and addresses (Peers).         *)
(***************************************************************************)
EXTENDS Ledger, Complaints, Peers

VARIABLE active  \* the component this behaviour is about

(* Five blocks: a chain of four and a fork.  x and y spend the same output *)
(* of g, which both branches hold; w spends x and has a wrong amount.      *)
ForkAnc == [b \in Blocks |-> CASE b = "b0" -> {"b0"}
                               [] b = "b1" -> {"b0", "b1"}
                               [] b = "b2" -> {"b0", "b1", "b2"}
                               [] b = "b3" -> {"b0", "b1", "b2", "b3"}
                               [] b = "b4" -> {"b0", "b4"}]
ForkContent == [b \in Blocks |-> CASE b = "b0" -> {}
                                   [] b \in {"b1", "b4"} -> {"g"}
                                   [] b = "b2" -> {"x"}
                                   [] b = "b3" -> {"y"}]
ForkSpends == [t \in Txs |-> CASE t = "g" -> {}
                               [] t \in {"x", "y"} -> {"g"}
                               [] t = "w" -> {"x"}]

(* Two branches.  x, y and r spend the same output of m; r is a claim; n   *)
(* names an input that is not its own; v is malformed; z is out of order   *)
(* and spends less than it has.                                            *)
TwoCBlocks == {"g", "a", "b", "c", "d"}
TwoCAnc == [b \in CBlocks |-> CASE b = "g" -> {"g"}
                             [] b = "a" -> {"g", "a"}
                             [] b = "b" -> {"g", "a", "b"}
                             [] b = "c" -> {"g", "c"}
                             [] b = "d" -> {"g", "c", "d"}]
TwoCContent == [b \in CBlocks |-> CASE b = "g" -> <<>>
                                 [] b = "a" -> <<"m", "x">>
                                 [] b = "b" -> <<"y", "r">>
                                 [] b = "c" -> <<"m", "y">>
                                 [] b = "d" -> <<"n", "z", "v">>]
TwoCTxs == {"m", "x", "y", "n", "r", "z", "v"}
TwoInputs == [t \in CTxs |-> CASE t \in {"m", "v"} -> <<>>
                            [] t \in {"x", "y", "r"} -> <<"m">>
                            [] t \in {"n", "z"} -> <<"y">>]
TwoKind == [t \in CTxs |-> CASE t \in {"m", "v"} -> "gateway" [] t = "r" -> "claim"
                          [] OTHER -> "normal"]
TwoValue == [t \in CTxs |-> IF t = "m" THEN 4 ELSE 3]
TwoSent == [t \in CTxs |-> CASE t = "z" -> 1 [] t = "n" -> 2 [] OTHER -> 3]
TwoFee == [t \in CTxs |-> 1]
TwoRank == [t \in CTxs |-> CASE t = "m" -> 1 [] t = "z" -> 2 [] t = "v" -> 5 [] OTHER -> 3]
TwoNotMine == {<<"n", 1>>}
TwoInvalid == {"v"}
TwoBadRef == {<<<<"b", 1>>, 1, <<"a", 2>>>>}

(* The hash of an address depends on the seed of the cache file. *)
TwoSeeds == [s \in Seeds |-> [a \in Addrs |-> IF s = 1 /\ a = "a1" THEN 0 ELSE 1]]

ASSUME LedgerAssumption /\ ComplaintAssumption

LedgerVars == <<held, hashed, complaint, head, txhash, inputhash, freed,
                pend, unknown, needs_recheck, storing, readd, invalidated,
                ended>>
LedgerIdle == LedgerInit
ComplaintsVars == <<blockKnown, stored, txIndex, blamed, told, wanted,
                    heard, report, skip, dead>>
ComplaintsIdle == ComplaintInit /\ skip = 0
PeersVars == <<cache, disk, randbytes, peer, connected, seed, seedCount,
               filling, removed, halted>>
PeersIdle == PeersInit /\ randbytes = CHOOSE s \in Seeds : TRUE

Init ==
    \/ active = "ledger" /\ LedgerInit /\ ComplaintsIdle /\ PeersIdle
    \/ active = "complaints" /\ ComplaintInit /\ LedgerIdle /\ PeersIdle
    \/ active = "peers" /\ PeersInit /\ LedgerIdle /\ ComplaintsIdle

Next ==
    \/ active = "ledger" /\ LedgerNext /\ UNCHANGED <<active, ComplaintsVars, PeersVars>>
    \/ active = "complaints" /\ ComplaintNext /\ UNCHANGED <<active, LedgerVars, PeersVars>>
    \/ active = "peers" /\ PeersNext /\ UNCHANGED <<active, LedgerVars, ComplaintsVars>>

vars == <<active, LedgerVars, ComplaintsVars, PeersVars>>

Spec == Init /\ [][Next]_vars

=============================================================================
