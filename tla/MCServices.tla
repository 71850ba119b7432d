---------------------------- MODULE MCServices ----------------------------
(***************************************************************************)
(* The daemon and the programs it talks to, each in behaviours of its own: *)
(* the wallet and the transactions it builds (Wallet), the gateway to      *)
(* bitcoin (Gateway), JSON text (Json), the JSON-RPC connection (JsonRpc), *)
(* and, for what must eventually happen, the generator (Generator) and the *)
(* requests to a peer (Todo).                                              *)
(***************************************************************************)
EXTENDS Gateway

CONSTANTS Txs, NumShards, ShardOf, MaxPending, Heads, PipeSize, MAX_PEERS,
          MIN_PEERS, MAX_REQUESTS, Requests, Blocks, BlockOf, MaxPkts,
          TextChars, MaxText, Streams, InitialSize, MaxTxs, MaxBlocks,
          Earned, Asked, Cents, MaxInputs, MaxSatoshi, Horizon

VARIABLE active  \* the component this behaviour is about
VARIABLES walletTxs, chain, pending, text, sent, stream, gone, failed,
          buffer, size, reader, writer, output, outbuf, written, stop,
          broke, gen, child, pend, trans_hashes, head, needs_recheck,
          unknown, updates, genWriter, reaping, shards_read, base, input,
          pipe, genWritten, todo, ahead, asked, todoFailed, slot,
          outstanding, syncing, pkts, asleep, wire, stopped

(* Transactions take turns over the shards; each request is about a block  *)
(* of its own.                                                             *)
TurnShards == [t \in Txs |-> (t % NumShards) + 1]
OwnBlock == [r \in Requests |-> IF r = "r1" THEN "b1" ELSE "b2"]

(* The second and third deposit do not fit in the Width bits of an amount. *)
BtcAmounts == [d \in Deposits |-> IF d = "d1" THEN 3 ELSE 9]

(* Whole and part coins a user asks to send. *)
AskedAmounts == {<<0, 1>>, <<1, 1>>, <<1, 2>>}

(* What clients send: requests one after the other or in one packet, with  *)
(* spaces, cut short, or not JSON at all.                                  *)
ClientStreams == {
    <<"{", "f", "}", "{", "z", "}">>,
    <<"s", "{", "f", "}", "s", "{", "u", "}", "{", "f", "}">>,
    <<"{", "f", "}", "{", "f">>,
    <<"{", "f", "}", "f">>,
    <<"s", "s", "{", "}">>,
    <<"{", "z", "}", "}">>}

W == INSTANCE Wallet WITH txs <- walletTxs, Deposits <- Earned
J == INSTANCE Json
R == INSTANCE JsonRpc
M == INSTANCE Generator WITH writer <- genWriter, written <- genWritten
T == INSTANCE Todo WITH failed <- todoFailed

idle == "idle"
WalletVars == <<walletTxs, chain, pending>>
WalletIdle ==
    /\ walletTxs = idle /\ chain = idle /\ pending = idle
GatewayVars == <<bitcoin, confirmed, files, txs, torn, lock, proc, paid,
                 lost, deaths>>
GatewayIdle == GatewayInit
JsonVars == <<text>>
JsonIdle ==
    /\ text = idle
JsonRpcVars == <<sent, stream, gone, failed, buffer, size, reader, writer,
                 output, outbuf, written, stop, broke>>
JsonRpcIdle ==
    /\ sent = <<>> /\ stream = idle /\ gone = TRUE /\ failed = idle
    /\ buffer = idle /\ size = idle /\ reader = idle /\ writer = idle
    /\ output = idle /\ outbuf = idle /\ written = <<>> /\ stop = idle
    /\ broke = idle
GeneratorVars == <<gen, child, pend, trans_hashes, head, needs_recheck,
                   unknown, updates, genWriter, reaping, shards_read, base,
                   input, pipe, genWritten>>
GeneratorIdle ==
    /\ gen = FALSE /\ child = "none" /\ pend = [s \in M!Shards |-> <<>>]
    /\ trans_hashes = [s \in M!Shards |-> <<>>] /\ head = idle
    /\ needs_recheck = idle /\ unknown = idle /\ updates = idle
    /\ genWriter = idle /\ reaping = idle /\ shards_read = idle
    /\ base = idle /\ input = idle /\ pipe = idle /\ genWritten = idle
TodoVars == <<todo, ahead, asked, todoFailed, slot, outstanding, syncing,
              pkts, asleep, wire, stopped>>
TodoIdle ==
    /\ todo = idle /\ ahead = idle /\ asked = idle /\ todoFailed = idle
    /\ slot = [p \in T!Peers |-> "free"] /\ outstanding = idle
    /\ syncing = idle /\ pkts = [p \in T!Peers |-> 0] /\ asleep = idle
    /\ wire = idle /\ stopped = idle

Init ==
    \/ active = "wallet" /\ W!WalletInit /\ GatewayIdle /\ JsonIdle /\ JsonRpcIdle /\ GeneratorIdle /\ TodoIdle
    \/ active = "gateway" /\ GatewayInit /\ WalletIdle /\ JsonIdle /\ JsonRpcIdle /\ GeneratorIdle /\ TodoIdle
    \/ active = "json" /\ J!JsonInit /\ WalletIdle /\ GatewayIdle /\ JsonRpcIdle /\ GeneratorIdle /\ TodoIdle
    \/ active = "jsonrpc" /\ R!init_rpc /\ WalletIdle /\ GatewayIdle /\ JsonIdle /\ GeneratorIdle /\ TodoIdle
    \/ active = "generator" /\ M!Init /\ WalletIdle /\ GatewayIdle /\ JsonIdle /\ JsonRpcIdle /\ TodoIdle
    \/ active = "todo" /\ T!Init /\ WalletIdle /\ GatewayIdle /\ JsonIdle /\ JsonRpcIdle /\ GeneratorIdle

Next ==
    \/ active = "wallet" /\ W!WalletNext /\ UNCHANGED <<active, GatewayVars, JsonVars, JsonRpcVars, GeneratorVars, TodoVars>>
    \/ active = "gateway" /\ GatewayNext /\ UNCHANGED <<active, WalletVars, JsonVars, JsonRpcVars, GeneratorVars, TodoVars>>
    \/ active = "json" /\ J!JsonNext /\ UNCHANGED <<active, WalletVars, GatewayVars, JsonRpcVars, GeneratorVars, TodoVars>>
    \/ active = "jsonrpc" /\ R!RpcNext /\ UNCHANGED <<active, WalletVars, GatewayVars, JsonVars, GeneratorVars, TodoVars>>
    \/ active = "generator" /\ M!Next /\ UNCHANGED <<active, WalletVars, GatewayVars, JsonVars, JsonRpcVars, TodoVars>>
    \/ active = "todo" /\ T!Next /\ UNCHANGED <<active, WalletVars, GatewayVars, JsonVars, JsonRpcVars, GeneratorVars>>

vars == <<active, WalletVars, GatewayVars, JsonVars, JsonRpcVars, GeneratorVars, TodoVars>>

(* As in the specifications of the three: io_loop() serves every conn, the *)
(* generator runs, and so does the writer of a peer that is awake.         *)
Rpc(A) == active = "jsonrpc" /\ A
          /\ UNCHANGED <<active, WalletVars, GatewayVars, JsonVars, GeneratorVars, TodoVars>>
Generate(A) == active = "generator" /\ A
          /\ UNCHANGED <<active, WalletVars, GatewayVars, JsonVars, JsonRpcVars, TodoVars>>
Request(A) == active = "todo" /\ A
          /\ UNCHANGED <<active, WalletVars, GatewayVars, JsonVars, JsonRpcVars, GeneratorVars>>
Fairness ==
    /\ WF_vars(Rpc(R!Reading)) /\ WF_vars(Rpc(R!Writing))
    /\ WF_vars(Generate(M!send_go_byte \/ M!do_send_tx \/ M!finish_update))
    /\ WF_vars(Generate(M!got_shard \/ M!finish_answer))
    /\ WF_vars(Generate(M!reap_generator))
    /\ WF_vars(Generate(M!main \/ M!check_input \/ M!add_tx \/ M!read_txs_done
                        \/ M!solve_block \/ M!write_block \/ M!exit))
    /\ \A p \in T!Peers : WF_vars(Request(T!plan_output(p)))

Spec == Init /\ [][Next]_vars /\ Fairness

(* Money is neither made nor lost by the wallet's transactions, however    *)
(* sums wrap (create_tx.c, check_tx.c).                                    *)
MoneyConserved == active = "wallet" => W!MoneyConserved

(* Every output of ours that can still be spent is among those the wallet  *)
(* chooses from (dumbwallet.c).                                            *)
SpendableSeen == active = "wallet" => W!SpendableSeen

(* The functions that walk tokens find exactly the members of a container, *)
(* also if the text came in pieces (json.c, jsmn.c).                       *)
NavigationExact == active = "json" => J!NavigationExact

(* Replies are those of the requests, in their order (read_json(),         *)
(* write_json()).                                                          *)
RepliesInOrder == active = "jsonrpc" => R!RepliesInOrder

(* A client that has sent complete requests gets all replies (jsonrpc.c).  *)
AllAnswered == active = "jsonrpc" => R!AllAnswered

(* After a restart, a mined block or a death mining goes on                *)
(* (reap_generator()).                                                     *)
MiningResumes == active = "generator" => M!MiningResumes

(* A pending transaction reaches the generator                             *)
(* (tell_generator_new_pending(), do_send_tx()).                           *)
PendingReachesGenerator == active = "generator" => M!PendingReachesGenerator

(* A packet queued for a peer is sent (todo_for_peer(), plan_output()).    *)
QueuedSent == active = "todo" => T!QueuedSent

=============================================================================
