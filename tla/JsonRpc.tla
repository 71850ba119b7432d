------------------------------ MODULE JsonRpc ------------------------------
(***************************************************************************)
(* One connection to the RPC socket (jsonrpc.c): a reader and a writer     *)
(* conn on one file descriptor that wait for each other on the same        *)
(* address, a buffer that grows, and a list of replies.  The bytes come in *)
(* pieces of any size; they are the character classes of module Json, and  *)
(* parsing them is its json_parse_input().  A request is {x}: x is what    *)
(* find_cmd() and the command make of it.                                  *)
(*   {f} a command that is found     {z} an unknown command                *)
(*   {u} stop                        { } no method: the connection closes  *)
(***************************************************************************)
EXTENDS Naturals, Sequences, FiniteSets, SequencesExt

CONSTANTS Streams,      \* what a client may send
          InitialSize   \* 64 in init_rpc()

VARIABLES sent,         \* all the client sends on this connection
          stream,       \* what of it has not arrived
          gone,         \* the client has closed its end
          failed,       \* a write failed
          buffer,       \* the first jcon->used bytes of jcon->buffer
          size,         \* how many it has room for
          reader,       \* "read", "wait", "run" or "closed"
          writer,       \* "wait", "run", "write" or "closed"
          output,       \* jcon->output
          outbuf,       \* jcon->outbuf: the reply being written
          written,      \* replies the client has received
          stop,         \* jcon->stop
          broke         \* io_break() has ended the event loop

rpcVars == <<sent, stream, gone, failed, buffer, size, reader, writer, output,
             outbuf, written, stop, broke>>

J == INSTANCE Json WITH text <- buffer, TextChars <- {}, MaxText <- 0

num_conns(r, w) == Cardinality({c \in {"reader", "writer"} : (IF c = "reader" THEN r ELSE w) # "closed"})

(* io_wake(): whoever waits on the address runs again. *)
io_wake(c) == IF c = "wait" THEN "run" ELSE c

init_rpc ==
  /\ sent \in Streams /\ stream = sent
  /\ gone = FALSE /\ failed = FALSE
  /\ buffer = <<>> /\ size = InitialSize
  /\ reader = "read" /\ writer = "wait"
  /\ output = <<>> /\ outbuf = <<>> /\ written = <<>>
  /\ stop = FALSE /\ broke = FALSE

(* parse_request(): the reply, or "" when it returns NULL. *)
parse_request(buf, toks) ==
  IF toks[1].type = "object" /\ toks[1].size = 1 THEN buf[toks[2].start] ELSE ""

(* What json_parse_input() makes of anything that can be in the buffer.    *)
Parses ==
  [b \in UNION {{SubSeq(s, i, j) : i \in 1 .. Len(s) + 1, j \in 0 .. Len(s)} : s \in Streams} |->
     J!json_parse_input(b, Len(b))]

(* Mutant: the writer is not woken. *)
MutQueueReply(r) ==
  /\ output' = Append(output, r)
  /\ reader' = "wait" /\ UNCHANGED writer

(* The end of read_json(): queue for writing, wake the writer, wait for it *)
(* to finish.                                                              *)
QueueReply(r) ==
  /\ output' = Append(output, r)
  /\ writer' = io_wake(writer) /\ reader' = "wait"

(* io_close() of one side runs free_jcon(), which wakes the other. *)
CloseReader == reader' = "closed" /\ writer' = io_wake(writer)

(* Mutant: the request stays in the buffer when nothing is behind it. *)
MutAfter(buf, toks) == IF toks[1].end > Len(buf) THEN buf ELSE SubSeq(buf, toks[1].end, Len(buf))

(* memmove() of everything behind the first {}. *)
After(buf, toks) == SubSeq(buf, toks[1].end, Len(buf))

(* read_json() with the bytes buf, once it is known that the writer is     *)
(* there: grow, parse, and ask for more, refuse, or handle one request.    *)
ReadJson(buf) ==
  /\ size' = IF Len(buf) = size THEN 2 * size ELSE size
  /\ \E p \in {Parses[buf]} : \E reply \in {IF Len(p.toks) > 1 THEN parse_request(buf, p.toks) ELSE ""} :
       \/ /\ p.valid /\ Len(p.toks) <= 1
          /\ buffer' = IF Len(p.toks) = 1 THEN <<>> ELSE buf
          /\ reader' = "read"
          /\ UNCHANGED <<writer, output, stop>>
       \/ /\ ~p.valid \/ (Len(p.toks) > 1 /\ reply = "")
          /\ buffer' = buf
          /\ CloseReader
          /\ UNCHANGED <<output, stop>>
       \/ /\ Len(p.toks) > 1 /\ reply # ""
          /\ buffer' = After(buf, p.toks)
          /\ stop' = (stop \/ reply = "u")
          /\ QueueReply(reply)

read_json(buf) ==
  \/ num_conns(reader, writer) = 2 /\ ReadJson(buf)
  \/ /\ num_conns(reader, writer) # 2
     /\ CloseReader
     /\ buffer' = buf
     /\ UNCHANGED <<size, output, stop>>

(* io_read_partial() has k bytes. *)
arrives(k) ==
  /\ ~broke /\ reader = "read"
  /\ k \in 1 .. Len(stream) /\ k <= size - Len(buffer)
  /\ stream' = SubSeq(stream, k + 1, Len(stream))
  /\ read_json(buffer \o SubSeq(stream, 1, k))
  /\ UNCHANGED <<sent, gone, failed, outbuf, written, broke>>

(* The reader was woken: len_read is 0. *)
reader_woken ==
  /\ ~broke /\ reader = "run"
  /\ read_json(buffer)
  /\ UNCHANGED <<sent, stream, gone, failed, outbuf, written, broke>>

reader_eof ==
  /\ ~broke /\ reader = "read" /\ gone
  /\ CloseReader
  /\ UNCHANGED <<sent, stream, gone, failed, buffer, size, output, outbuf, written, stop, broke>>

write_json ==
  /\ ~broke /\ writer = "run"
  /\ \/ /\ output # <<>>
        /\ outbuf' = <<Head(output)>> /\ output' = Tail(output)
        /\ writer' = "write"
        /\ UNCHANGED <<reader, broke>>
     \/ /\ output = <<>> /\ stop
        /\ broke' = TRUE /\ writer' = "closed" /\ reader' = io_wake(reader)
        /\ UNCHANGED <<output, outbuf>>
     \/ /\ output = <<>> /\ ~stop /\ num_conns(reader, writer) # 2
        /\ writer' = "closed" /\ reader' = io_wake(reader)
        /\ UNCHANGED <<output, outbuf, broke>>
     \/ /\ output = <<>> /\ ~stop /\ num_conns(reader, writer) = 2
        /\ writer' = "wait" /\ reader' = io_wake(reader)
        /\ UNCHANGED <<output, outbuf, broke>>
  /\ UNCHANGED <<sent, stream, gone, failed, buffer, size, written, stop>>

write_done ==
  /\ ~broke /\ writer = "write"
  /\ written' = written \o outbuf /\ outbuf' = <<>>
  /\ writer' = "run"
  /\ UNCHANGED <<sent, stream, gone, failed, buffer, size, reader, output, stop, broke>>

write_error ==
  /\ ~broke /\ writer = "write" /\ gone
  /\ failed' = TRUE
  /\ writer' = "closed" /\ reader' = io_wake(reader)
  /\ UNCHANGED <<sent, stream, gone, buffer, size, output, outbuf, written, stop, broke>>

(* The client goes away, with or without having sent everything. *)
hangup ==
  /\ ~gone /\ gone' = TRUE
  /\ stream' \in {stream, <<>>}
  /\ UNCHANGED <<sent, failed, buffer, size, reader, writer, output, outbuf, written, stop, broke>>

Reading == (\E k \in 1 .. Len(stream) : arrives(k)) \/ reader_woken \/ reader_eof
Writing == write_json \/ write_done \/ write_error

RpcNext == Reading \/ Writing \/ hangup

RpcSpec == init_rpc /\ [][RpcNext]_rpcVars

(* The loop serves both conns, and a client that stays sends what it has.  *)
RpcFair == WF_rpcVars(Reading) /\ WF_rpcVars(Writing)
RpcFairSpec == RpcSpec /\ RpcFair

-----------------------------------------------------------------------------
(* What a client is owed: the contents of its requests in order, up to a   *)
(* stop or something that is not a request.                                *)
RECURSIVE Owed(_)
Owed(s) ==
  CASE s = <<>> -> <<>>
    [] Head(s) = "s" -> Owed(Tail(s))
    [] Len(s) >= 3 /\ s[1] = "{" /\ s[2] \in {"f", "z"} /\ s[3] = "}" ->
         <<s[2]>> \o Owed(SubSeq(s, 4, Len(s)))
    [] Len(s) >= 3 /\ s[1] = "{" /\ s[2] = "u" /\ s[3] = "}" -> <<"u">>
    [] OTHER -> <<>>

(* Every byte belongs to a request: nothing follows that is incomplete or  *)
(* not a request.                                                          *)
AllRequests(s) == Len(s) = Len(SelectSeq(s, LAMBDA c : c = "s")) + 3 * Len(Owed(s))

(* Replies go out once, in the order of the requests, whatever the pieces  *)
(* the requests arrive in and whoever closes when.                         *)
RepliesInOrder == IsPrefix(written \o outbuf \o output, Owed(sent))

(* A client that sends only requests and stays gets every reply: no wake-  *)
(* up between reader and writer is lost, the buffer never fills, a request *)
(* that arrived behind another one is not forgotten in the buffer.         *)
AllAnswered == AllRequests(sent) ~> (written = Owed(sent) \/ gone)
=============================================================================
