-------------------------- MODULE GeneratorProofs --------------------------
(***************************************************************************)
(* The protocol between the daemon and the generator, for any finite set   *)
(* of transactions and any number of shards, heads and updates in the      *)
(* pipe.  First what does not depend on what is pending: SIGIO is never    *)
(* lost, and the daemon is never left waiting for a generator that goes on *)
(* mining.  Then that the generator works on what is pending: how the      *)
(* arrays are searched and kept in order, what it means that updates lead  *)
(* from one working block to another (Follows), that every handler of the  *)
(* daemon keeps that up or gives the generator up (Keeps), and that every  *)
(* step of the two processes does (PipeInv).                               *)
(***************************************************************************)
EXTENDS Generator, FiniteSetTheorems, SequenceTheorems, WellFoundedInduction, TLAPS

(* What a handler of the daemon can do to the generator. *)
LEMMA BecomeChild ==
    ASSUME NEW d, Become(d)
    PROVE  \/ child' = "killed" /\ pipe' = <<>>
           \/ UNCHANGED <<child, input, pipe>>
BY Zenon DEF Become, Ends

(* The generator does not overlook an update: whatever the order of the    *)
(* daemon's writes and its own reads, a generator about to hash while an   *)
(* update waits has its `input' flag set.                                  *)
THEOREM NoticesInput == Spec => []InputNoticed
<1>1. Init => InputNoticed
  BY DEF Init, InputNoticed
<1>2. InputNoticed /\ [Next]_vars => InputNoticed'
  <2> SUFFICES ASSUME InputNoticed, [Next]_vars PROVE InputNoticed'
    OBVIOUS
  <2>1. CASE pkt_in
    BY <2>1, BecomeChild DEF pkt_in, InputNoticed
  <2>2. CASE \E t \in Txs : recv_tx(t) \/ sendrawtransaction(t) \/ drop_pending_tx(t)
    <3>1. \E d : Become(d)
      BY <2>2 DEF recv_tx, sendrawtransaction, drop_pending_tx
    <3> QED BY <3>1, BecomeChild DEF InputNoticed
  <2>3. CASE send_go_byte \/ finish_update \/ finish_answer
    BY <2>3 DEF send_go_byte, finish_update, finish_answer, child_vars, InputNoticed
  <2>4. CASE do_send_tx
    BY <2>4 DEF do_send_tx, InputNoticed
  <2>5. CASE got_shard
    <3>1. CASE AllRead(shards_read')
      BY <2>5, <3>1, BecomeChild DEF got_shard, InputNoticed
    <3>2. CASE ~AllRead(shards_read')
      BY <2>5, <3>2 DEF got_shard, InputNoticed
    <3> QED BY <3>1, <3>2
  <2>6. CASE reap_generator
    BY <2>6 DEF reap_generator, start_generating, InputNoticed
  <2>7. CASE exec_fails
    BY <2>7 DEF exec_fails, Ends, InputNoticed
  <2>8. CASE main \/ solve_block
    BY <2>8 DEF main, solve_block, InputNoticed
  <2>9. CASE check_input
    BY <2>9 DEF check_input, InputNoticed
  <2>10. CASE add_tx
    BY <2>10 DEF add_tx, Ends, InputNoticed
  <2>11. CASE read_txs_done
    BY <2>11 DEF read_txs_done, InputNoticed
  <2>12. CASE write_block \/ exit
    BY <2>12 DEF write_block, exit, Ends, InputNoticed
  <2>13. CASE UNCHANGED vars
    BY <2>13 DEF vars, child_vars, InputNoticed
  <2> QED
    BY <2>1, <2>2, <2>3, <2>4, <2>5, <2>6, <2>7, <2>8, <2>9, <2>10, <2>11, <2>12, <2>13
    DEF Next
<1> QED BY <1>1, <1>2, PTL DEF Spec

-----------------------------------------------------------------------------
(* WaitpidReturns is not inductive: that the last packet is only read from *)
(* a generator with nothing left to write needs the count of the packets   *)
(* and the fact that only a generator that has solved its block writes.    *)
WaitInv ==
    /\ written \in Nat /\ shards_read \in Nat
    /\ shards_read <= written /\ written <= AnswerLen
    /\ child \notin {"writing", "exited", "killed"} => written = 0
    /\ WaitpidReturns

(* Handlers that say nothing about the answer keep the invariant. *)
LEMMA BecomeWaitInv ==
    ASSUME WaitInv, NEW d, Become(d), UNCHANGED <<reaping, shards_read, written>>
    PROVE  WaitInv'
<1>1. child' = "killed" \/ child' = child
  BY BecomeChild
<1>2. AnswerLen' = AnswerLen
  BY DEF AnswerLen
<1> QED BY <1>1, <1>2 DEF WaitInv, WaitpidReturns, Dead

LEMMA WaitHolds == Spec => []WaitInv
<1>0. AnswerLen \in Nat /\ AnswerLen > 0
  BY GeneratorAssumption DEF AnswerLen
<1>1. Init => WaitInv
  BY <1>0 DEF Init, WaitInv, WaitpidReturns
<1>2. WaitInv /\ [Next]_vars => WaitInv'
  <2> SUFFICES ASSUME WaitInv, [Next]_vars PROVE WaitInv'
    OBVIOUS
  <2>0. AnswerLen' = AnswerLen
    BY DEF AnswerLen
  <2>1. CASE pkt_in
    BY <2>1, BecomeWaitInv DEF pkt_in, OthersUnchanged
  <2>2. CASE \E t \in Txs : recv_tx(t) \/ sendrawtransaction(t) \/ drop_pending_tx(t)
    <3>1. (\E d : Become(d)) /\ UNCHANGED <<reaping, shards_read, written>>
      BY <2>2 DEF recv_tx, sendrawtransaction, drop_pending_tx, OthersUnchanged
    <3> QED BY <3>1, BecomeWaitInv
  <2>3. CASE send_go_byte
    BY <2>0, <2>3 DEF send_go_byte, child_vars, WaitInv, WaitpidReturns
  <2>4. CASE do_send_tx
    BY <2>0, <2>4 DEF do_send_tx, WaitInv, WaitpidReturns
  <2>5. CASE finish_update \/ finish_answer
    BY <2>0, <2>5 DEF finish_update, finish_answer, child_vars, WaitInv, WaitpidReturns
  <2>6. CASE got_shard
    <3>1. /\ shards_read < written /\ shards_read' = shards_read + 1
          /\ UNCHANGED written
      BY <2>6 DEF got_shard
    <3>2. child \in {"writing", "exited", "killed"}
      BY <3>1 DEF WaitInv
    <3>3. child' = "killed" \/ child' = child
      BY <2>6, BecomeChild DEF got_shard
    <3>4. CASE AllRead(shards_read')
      <4>1. written = AnswerLen
        BY <1>0, <3>1, <3>4 DEF AllRead, WaitInv
      <4> QED BY <1>0, <2>0, <3>1, <3>2, <3>3, <4>1 DEF WaitInv, WaitpidReturns, Dead
    <3>5. CASE ~AllRead(shards_read')
      <4>1. UNCHANGED <<child, reaping>>
        BY <2>6, <3>5 DEF got_shard
      <4> QED BY <1>0, <2>0, <3>1, <4>1 DEF WaitInv, WaitpidReturns
    <3> QED BY <3>4, <3>5
  <2>7. CASE reap_generator
    <3>1. CASE EndedWell(child) /\ start_generating
      BY <1>0, <2>0, <3>1 DEF start_generating, WaitInv, WaitpidReturns
    <3>2. CASE ~EndedWell(child)
      BY <2>0, <2>7, <3>2 DEF reap_generator, EndedWell, Dead, WaitInv, WaitpidReturns
    <3> QED BY <2>7, <3>1, <3>2 DEF reap_generator
  <2>8. CASE exec_fails
    BY <2>0, <2>8 DEF exec_fails, Ends, DaemonUnchanged, WaitInv, WaitpidReturns, Dead
  <2>9. CASE main \/ check_input \/ read_txs_done \/ solve_block
    <3>1. /\ child \in {"starting", "looping", "reading", "solving"}
          /\ UNCHANGED <<written, shards_read, reaping>>
      BY <2>9 DEF main, check_input, read_txs_done, solve_block, DaemonUnchanged
    <3>2. ~reaping /\ written = 0
      BY <3>1 DEF WaitInv, WaitpidReturns, Dead
    <3> QED BY <2>0, <3>1, <3>2 DEF WaitInv, WaitpidReturns
  <2>10. CASE add_tx
    <3>1. /\ child = "reading"
          /\ UNCHANGED <<written, shards_read, reaping>>
      BY <2>10 DEF add_tx, DaemonUnchanged
    <3>2. ~reaping /\ written = 0
      BY <3>1 DEF WaitInv, WaitpidReturns, Dead
    <3> QED BY <2>0, <3>1, <3>2 DEF WaitInv, WaitpidReturns
  <2>11. CASE write_block
    <3>1. child = "writing" /\ written < AnswerLen /\ UNCHANGED <<shards_read, reaping>>
      BY <2>11 DEF write_block, DaemonUnchanged
    <3>2. ~reaping
      BY <1>0, <3>1 DEF WaitInv, WaitpidReturns, Dead
    <3>3. written' = written + 1 /\ UNCHANGED child
      BY <2>11, <3>2 DEF write_block
    <3> QED BY <1>0, <2>0, <3>1, <3>2, <3>3 DEF WaitInv, WaitpidReturns
  <2>12. CASE exit
    BY <2>0, <2>12 DEF exit, Ends, DaemonUnchanged, WaitInv, WaitpidReturns, Dead
  <2>13. CASE UNCHANGED vars
    BY <2>0, <2>13 DEF vars, child_vars, WaitInv, WaitpidReturns
  <2> QED
    BY <2>1, <2>2, <2>3, <2>4, <2>5, <2>6, <2>7, <2>8, <2>9, <2>10, <2>11, <2>12, <2>13
    DEF Next
<1> QED BY <1>1, <1>2, PTL DEF Spec

(* The daemon's waitpid() returns: it is only called on a generator that   *)
(* has ended, or has written its whole answer and ends by itself.          *)
THEOREM WaitpidSafe == Spec => []WaitpidReturns
<1>1. WaitInv => WaitpidReturns
  BY DEF WaitInv
<1> QED BY <1>1, WaitHolds, PTL

(* Neither the generator nor the daemon waits for the other in vain. *)
THEOREM NobodyStuck == Spec => []NeverStuck
<1>1. InputNoticed /\ WaitpidReturns => NeverStuck
  BY DEF NeverStuck
<1> QED BY <1>1, NoticesInput, WaitpidSafe, PTL

-----------------------------------------------------------------------------
(* Numbers *)

(* Every set of naturals that is not empty has a least element. *)
LEMMA LeastNatural ==
    ASSUME NEW T \in SUBSET Nat, T # {}
    PROVE  \E m \in T : \A x \in T : m <= x
<1>1. IsWellFoundedOn(OpToRel(<, Nat), Nat)
  BY NatLessThanWellFounded
<1>2. PICK m \in T : \A y \in T : ~(<<y, m>> \in OpToRel(<, Nat))
  BY <1>1, WFMin
<1>3. \A y \in T : ~(y < m)
  BY <1>2 DEF OpToRel
<1> QED BY <1>3

(* Induction up to a number. *)
LEMMA UpTo ==
    ASSUME NEW n \in Nat, NEW S, 0 \in S, \A j \in 0 .. n - 1 : j \in S => j + 1 \in S
    PROVE  \A j \in 0 .. n : j \in S
<1> DEFINE T == (0 .. n) \ S
<1>1. SUFFICES ASSUME T # {} PROVE FALSE
  OBVIOUS
<1>2. PICK m \in T : \A x \in T : m <= x
  <2>1. T \in SUBSET Nat
    OBVIOUS
  <2> HIDE DEF T
  <2> QED BY <1>1, <2>1, LeastNatural
<1>3. m \in 0 .. n /\ m \notin S /\ m # 0
  BY <1>2
<1>4. m - 1 \in 0 .. n - 1 /\ m - 1 \notin T /\ (m - 1) + 1 = m
  BY <1>2, <1>3
<1> QED BY <1>3, <1>4

(* A function defined by recursion up to n exists: it starts at c, and     *)
(* each value follows from the one before by a function of its own.        *)
StepsIn(G, n, V) == G \in [1 .. n -> [V -> V]]
FollowsFrom(f, c, G, n, V) ==
    f \in [0 .. n -> V] /\ f[0] = c /\ \A k \in 1 .. n : f[k] = G[k][f[k - 1]]

LEMMA RecursionWorks ==
    ASSUME NEW n \in Nat, NEW V, NEW c \in V, NEW G, StepsIn(G, n, V)
    PROVE  \E f : FollowsFrom(f, c, G, n, V)
<1>0. G \in [1 .. n -> [V -> V]]
  BY DEF StepsIn
<1> DEFINE Goes(f, j) == f[0] = c /\ \A k \in 1 .. j : f[k] = G[k][f[k - 1]]
           S == {j \in 0 .. n : \E f \in [0 .. j -> V] : Goes(f, j)}
<1>1. 0 \in S
  <2>1. [k \in 0 .. 0 |-> c] \in [0 .. 0 -> V] /\ Goes([k \in 0 .. 0 |-> c], 0)
    OBVIOUS
  <2> HIDE DEF Goes
  <2> QED BY <2>1
<1>2. ASSUME NEW j \in 0 .. n - 1, j \in S PROVE j + 1 \in S
  <2>1. PICK f \in [0 .. j -> V] : Goes(f, j)
    BY <1>2
  <2> DEFINE g == [k \in 0 .. j + 1 |-> IF k <= j THEN f[k] ELSE G[j + 1][f[j]]]
  <2>2. G[j + 1] \in [V -> V] /\ f[j] \in V
    BY <1>0, <2>1
  <2>3. g \in [0 .. j + 1 -> V]
    BY <2>1, <2>2
  <2>4. Goes(g, j + 1)
    <3>1. g[0] = c
      BY <2>1
    <3>2. ASSUME NEW k \in 1 .. j + 1 PROVE g[k] = G[k][g[k - 1]]
      <4>1. CASE k <= j
        BY <2>1, <4>1
      <4>2. CASE k = j + 1
        <5>1. g[k] = G[k][f[k - 1]]
          BY <4>2
        <5>2. g[k - 1] = f[k - 1]
          BY <4>2
        <5> HIDE DEF g
        <5> QED BY <5>1, <5>2
      <4> HIDE DEF g
      <4> QED BY <4>1, <4>2
    <3> HIDE DEF g
    <3> QED BY <3>1, <3>2
  <2>5. j + 1 \in 0 .. n
    OBVIOUS
  <2> HIDE DEF g, Goes
  <2> QED BY <2>3, <2>4, <2>5
<1>3. n \in S
  <2>1. \A j \in 0 .. n : j \in S
    <3> HIDE DEF S
    <3> QED BY <1>1, <1>2, UpTo
  <2> HIDE DEF S
  <2> QED BY <2>1
<1> QED BY <1>3 DEF FollowsFrom

-----------------------------------------------------------------------------
(* Sequences *)

(* r is q with e inserted behind its first off elements.                   *)
IsInserted(r, q, off, e) ==
    /\ Len(r) = Len(q) + 1
    /\ \A i \in 1 .. off : r[i] = q[i]
    /\ r[off + 1] = e
    /\ \A i \in off + 1 .. Len(q) : r[i + 1] = q[i]

LEMMA Inserted ==
    ASSUME NEW S, NEW q \in Seq(S), NEW off \in 0 .. Len(q), NEW e \in S
    PROVE  InsertAt(q, off + 1, e) \in Seq(S) /\ IsInserted(InsertAt(q, off + 1, e), q, off, e)
<1> DEFINE a == SubSeq(q, 1, off)
           b == SubSeq(q, off + 1, Len(q))
           r == (a \o <<e>>) \o b
<1>0. Len(q) \in Nat /\ off \in Nat /\ off + 1 \in Int /\ Len(q) \in Int /\ off \in Int /\ 1 \in Int
  BY LenProperties
<1>1. \A i \in 1 .. Len(q) : q[i] \in S
  BY ElementOfSeq
<1>2. (\A i \in 1 .. off : q[i] \in S) /\ (\A i \in off + 1 .. Len(q) : q[i] \in S)
  BY <1>0, <1>1
<1>3. /\ a \in Seq(S) /\ Len(a) = off
      /\ \A i \in 1 .. off : a[i] = q[i]
  <2>1. /\ a \in Seq(S) /\ Len(a) = (IF 1 <= off THEN off - 1 + 1 ELSE 0)
        /\ \A i \in 1 .. off - 1 + 1 : a[i] = q[1 + i - 1]
    BY <1>0, <1>2, SubSeqProperties
  <2> HIDE DEF a
  <2> QED BY <1>0, <2>1
<1>4. /\ b \in Seq(S) /\ Len(b) = Len(q) - off
      /\ \A i \in 1 .. Len(q) - off : b[i] = q[off + i]
  <2>1. /\ b \in Seq(S)
        /\ Len(b) = (IF off + 1 <= Len(q) THEN Len(q) - (off + 1) + 1 ELSE 0)
        /\ \A i \in 1 .. Len(q) - (off + 1) + 1 : b[i] = q[(off + 1) + i - 1]
    BY <1>0, <1>2, SubSeqProperties
  <2> HIDE DEF b
  <2> QED BY <1>0, <2>1
<1> HIDE DEF a, b
<1>5. <<e>> \in Seq(S) /\ Len(<<e>>) = 1 /\ <<e>>[1] = e
  OBVIOUS
<1>6. /\ a \o <<e>> \in Seq(S) /\ Len(a \o <<e>>) = off + 1
      /\ (a \o <<e>>)[off + 1] = e
      /\ \A i \in 1 .. off : (a \o <<e>>)[i] = q[i]
  <2> DEFINE c == <<e>>
  <2>0. c \in Seq(S) /\ Len(c) = 1 /\ c[1] = e
    BY <1>5
  <2> HIDE DEF c
  <2>1. /\ a \o c \in Seq(S) /\ Len(a \o c) = Len(a) + Len(c)
        /\ \A i \in 1 .. Len(a) + Len(c) :
               (a \o c)[i] = IF i <= Len(a) THEN a[i] ELSE c[i - Len(a)]
    BY <1>3, <2>0, ConcatProperties
  <2>2. /\ a \o c \in Seq(S) /\ Len(a \o c) = off + 1
        /\ \A i \in 1 .. off + 1 : (a \o c)[i] = IF i <= off THEN a[i] ELSE c[i - off]
    BY <1>3, <2>0, <2>1
  <2>3. (a \o c)[off + 1] = c[1]
    <3>1. off + 1 \in 1 .. off + 1 /\ ~(off + 1 <= off) /\ (off + 1) - off = 1
      BY <1>0
    <3> QED BY <2>2, <3>1
  <2>4. ASSUME NEW i \in 1 .. off PROVE (a \o c)[i] = q[i]
    <3>1. i \in 1 .. off + 1 /\ i <= off
      BY <1>0
    <3> QED BY <1>3, <2>2, <3>1
  <2> QED BY <2>0, <2>2, <2>3, <2>4 DEF c
<1> DEFINE d == a \o <<e>>
<1> HIDE DEF d
<1>7. /\ d \in Seq(S) /\ Len(d) = off + 1 /\ d[off + 1] = e
      /\ \A i \in 1 .. off : d[i] = q[i]
  BY <1>6 DEF d
<1>8. /\ d \o b \in Seq(S) /\ Len(d \o b) = Len(q) + 1
      /\ \A i \in 1 .. Len(q) + 1 :
             (d \o b)[i] = IF i <= off + 1 THEN d[i] ELSE b[i - (off + 1)]
  <2>1. /\ d \o b \in Seq(S) /\ Len(d \o b) = Len(d) + Len(b)
        /\ \A i \in 1 .. Len(d) + Len(b) :
               (d \o b)[i] = IF i <= Len(d) THEN d[i] ELSE b[i - Len(d)]
    BY <1>4, <1>7, ConcatProperties
  <2>2. Len(d) + Len(b) = Len(q) + 1
    BY <1>0, <1>4, <1>7
  <2> QED BY <1>7, <2>1, <2>2
<1>9. ASSUME NEW i \in 1 .. off PROVE (d \o b)[i] = q[i]
  <2>1. i \in 1 .. Len(q) + 1 /\ i <= off + 1
    BY <1>0
  <2> QED BY <1>7, <1>8, <2>1
<1>10. (d \o b)[off + 1] = e
  <2>1. off + 1 \in 1 .. Len(q) + 1 /\ off + 1 <= off + 1
    BY <1>0
  <2> QED BY <1>7, <1>8, <2>1
<1>11. ASSUME NEW i \in off + 1 .. Len(q) PROVE (d \o b)[i + 1] = q[i]
  <2>1. /\ i + 1 \in 1 .. Len(q) + 1 /\ ~(i + 1 <= off + 1)
        /\ (i + 1) - (off + 1) = i - off /\ i - off \in 1 .. Len(q) - off /\ off + (i - off) = i
    BY <1>0
  <2>2. (d \o b)[i + 1] = b[i - off]
    BY <1>8, <2>1
  <2>3. b[i - off] = q[i]
    BY <1>4, <2>1
  <2> QED BY <2>2, <2>3
<1>12. InsertAt(q, off + 1, e) = d \o b
  <2>1. (off + 1) - 1 = off
    BY <1>0
  <2>2. InsertAt(q, off + 1, e) = (SubSeq(q, 1, (off + 1) - 1) \o <<e>>) \o SubSeq(q, off + 1, Len(q))
    BY Zenon DEF InsertAt
  <2> QED BY <2>1, <2>2, Zenon DEF d, a, b
<1> QED BY <1>8, <1>9, <1>10, <1>11, <1>12 DEF IsInserted

(* A sequence with one element less, or none less if there is none there.  *)
LEMMA Removed ==
    ASSUME NEW S, NEW q \in Seq(S), NEW off \in 0 .. Len(q)
    PROVE  LET r == RemoveAt(q, off + 1) IN
           /\ r \in Seq(S) /\ Len(r) <= Len(q)
           /\ \A i \in 1 .. Len(r) : r[i] = q[IF i <= off THEN i ELSE i + 1]
           /\ \A i \in 1 .. Len(r) : (IF i <= off THEN i ELSE i + 1) \in 1 .. Len(q)
<1> DEFINE a == SubSeq(q, 1, off)
           b == SubSeq(q, off + 2, Len(q))
<1>0. Len(q) \in Nat /\ off \in Nat /\ off + 2 \in Int /\ Len(q) \in Int /\ off \in Int /\ 1 \in Int
  BY LenProperties
<1>1. \A i \in 1 .. Len(q) : q[i] \in S
  BY ElementOfSeq
<1>2. (\A i \in 1 .. off : q[i] \in S) /\ (\A i \in off + 2 .. Len(q) : q[i] \in S)
  BY <1>0, <1>1
<1>3. /\ a \in Seq(S) /\ Len(a) = off
      /\ \A i \in 1 .. off : a[i] = q[i]
  <2>1. /\ a \in Seq(S) /\ Len(a) = (IF 1 <= off THEN off - 1 + 1 ELSE 0)
        /\ \A i \in 1 .. off - 1 + 1 : a[i] = q[1 + i - 1]
    BY <1>0, <1>2, SubSeqProperties
  <2> HIDE DEF a
  <2> QED BY <1>0, <2>1
<1>4. /\ b \in Seq(S) /\ Len(b) = (IF off + 2 <= Len(q) THEN Len(q) - (off + 1) ELSE 0)
      /\ \A i \in 1 .. Len(q) - (off + 1) : b[i] = q[(off + 1) + i]
  <2>1. /\ b \in Seq(S)
        /\ Len(b) = (IF off + 2 <= Len(q) THEN Len(q) - (off + 2) + 1 ELSE 0)
        /\ \A i \in 1 .. Len(q) - (off + 2) + 1 : b[i] = q[(off + 2) + i - 1]
    BY <1>0, <1>2, SubSeqProperties
  <2> HIDE DEF b
  <2>2. Len(q) - (off + 2) + 1 = Len(q) - (off + 1)
    BY <1>0
  <2>3. ASSUME NEW i \in 1 .. Len(q) - (off + 1) PROVE b[i] = q[(off + 1) + i]
    <3>1. (off + 2) + i - 1 = (off + 1) + i
      BY <1>0
    <3> QED BY <2>1, <2>2, <3>1
  <2> QED BY <2>1, <2>2, <2>3
<1> HIDE DEF a, b
<1>5. RemoveAt(q, off + 1) = a \o b
  <2>1. (off + 1) - 1 = off /\ (off + 1) + 1 = off + 2
    BY <1>0
  <2>2. RemoveAt(q, off + 1) = SubSeq(q, 1, (off + 1) - 1) \o SubSeq(q, (off + 1) + 1, Len(q))
    BY Zenon DEF RemoveAt
  <2> QED BY <2>1, <2>2, Zenon DEF a, b
<1> DEFINE r == a \o b
<1>6. /\ r \in Seq(S) /\ Len(r) = off + Len(b)
      /\ \A i \in 1 .. off + Len(b) : r[i] = IF i <= off THEN a[i] ELSE b[i - off]
  BY <1>3, <1>4, ConcatProperties
<1> HIDE DEF r
<1>7. Len(b) \in Nat /\ Len(r) <= Len(q)
  BY <1>0, <1>4, <1>6
<1>8. ASSUME NEW i \in 1 .. Len(r)
      PROVE  /\ r[i] = q[IF i <= off THEN i ELSE i + 1]
             /\ (IF i <= off THEN i ELSE i + 1) \in 1 .. Len(q)
  <2>1. CASE i <= off
    <3>1. i \in 1 .. off /\ i \in 1 .. off + Len(b) /\ i \in 1 .. Len(q)
      BY <1>0, <1>6, <1>7, <2>1
    <3> QED BY <1>3, <1>6, <2>1, <3>1
  <2>2. CASE ~(i <= off)
    <3>1. /\ i - off \in 1 .. Len(b) /\ i - off \in 1 .. Len(q) - (off + 1)
          /\ (off + 1) + (i - off) = i + 1 /\ i \in 1 .. off + Len(b) /\ i + 1 \in 1 .. Len(q)
      BY <1>0, <1>4, <1>6, <1>7, <2>2
    <3>2. r[i] = b[i - off]
      BY <1>6, <2>2, <3>1
    <3>3. b[i - off] = q[i + 1]
      BY <1>4, <3>1
    <3> QED BY <2>2, <3>1, <3>2, <3>3
  <2> QED BY <2>1, <2>2
<1> QED BY <1>5, <1>6, <1>7, <1>8 DEF r

-----------------------------------------------------------------------------
(* Sorted arrays *)

InTxOrder(arr) == \A i, j \in 1 .. Len(arr) : i < j => arr[i].tx < arr[j].tx
Windows(arr) == {x \in (0 .. Len(arr)) \X (0 .. Len(arr)) : x[1] <= x[2]}
Around(arr, t, x) ==
    /\ \A i \in 1 .. x[1] : arr[i].tx < t
    /\ \A i \in x[2] + 1 .. Len(arr) : t < arr[i].tx
Absent(arr, t) == \A i \in 1 .. Len(arr) : arr[i].tx # t

(* One turn of the loop leaves a smaller part that t must be in.           *)
LEMMA HalvedPart ==
    ASSUME NEW arr \in Seq(Entry), NEW t \in Txs, NEW p \in Nat, NEW e \in Nat,
           p < e, e <= Len(arr)
    PROVE  /\ Halved(arr, t, p, e) \in Windows(arr)
           /\ Halved(arr, t, p, e)[2] - Halved(arr, t, p, e)[1] < e - p
           /\ InTxOrder(arr) /\ Absent(arr, t) /\ Around(arr, t, <<p, e>>)
              => Around(arr, t, Halved(arr, t, p, e))
<1> DEFINE h == (p + e) \div 2
           y == Halved(arr, t, p, e)
<1>0. Len(arr) \in Nat
  BY LenProperties
<1>1. h \in Nat /\ p <= h /\ h < e /\ h + 1 \in 1 .. Len(arr)
  BY <1>0
<1>2. \A i \in 1 .. Len(arr) : arr[i].tx \in Txs /\ arr[i].tx \in Nat /\ t \in Nat
  <2>1. \A i \in 1 .. Len(arr) : arr[i] \in Entry
    BY ElementOfSeq
  <2>2. Txs \subseteq Nat
    BY GeneratorAssumption
  <2> QED BY <2>1, <2>2 DEF Entry
<1>3. y = CASE t < arr[h + 1].tx -> <<p, h>>
            [] t > arr[h + 1].tx -> <<h + 1, e>>
            [] t = arr[h + 1].tx -> <<h, h>>
  BY DEF Halved
<1> HIDE DEF h, y
<1>4. CASE t < arr[h + 1].tx
  <2>1. y = <<p, h>>
    BY <1>1, <1>2, <1>3, <1>4
  <2>2. ASSUME InTxOrder(arr), Around(arr, t, <<p, e>>) PROVE Around(arr, t, <<p, h>>)
    <3>1. ASSUME NEW i \in h + 1 .. Len(arr) PROVE t < arr[i].tx
      <4>1. i \in 1 .. Len(arr) /\ (i = h + 1 \/ h + 1 < i)
        BY <1>0, <1>1
      <4>2. CASE i = h + 1
        BY <1>4, <4>2
      <4>3. CASE h + 1 < i
        <5>1. arr[h + 1].tx < arr[i].tx
          BY <1>1, <2>2, <4>1, <4>3 DEF InTxOrder
        <5> QED BY <1>1, <1>2, <1>4, <4>1, <5>1
      <4> QED BY <4>1, <4>2, <4>3
    <3> QED BY <2>2, <3>1 DEF Around
  <2>3. y \in Windows(arr) /\ y[2] - y[1] < e - p
    BY <1>0, <1>1, <2>1 DEF Windows
  <2> QED BY <2>1, <2>2, <2>3 DEF y
<1>5. CASE t > arr[h + 1].tx
  <2>1. y = <<h + 1, e>>
    BY <1>1, <1>2, <1>3, <1>5
  <2>2. ASSUME InTxOrder(arr), Around(arr, t, <<p, e>>) PROVE Around(arr, t, <<h + 1, e>>)
    <3>1. ASSUME NEW i \in 1 .. h + 1 PROVE arr[i].tx < t
      <4>1. i \in 1 .. Len(arr) /\ (i = h + 1 \/ i < h + 1)
        BY <1>0, <1>1
      <4>2. CASE i = h + 1
        BY <1>1, <1>2, <1>5, <4>2
      <4>3. CASE i < h + 1
        <5>1. arr[i].tx < arr[h + 1].tx
          BY <1>1, <2>2, <4>1, <4>3 DEF InTxOrder
        <5> QED BY <1>1, <1>2, <1>5, <4>1, <5>1
      <4> QED BY <4>1, <4>2, <4>3
    <3> QED BY <2>2, <3>1 DEF Around
  <2>3. y \in Windows(arr) /\ y[2] - y[1] < e - p
    BY <1>0, <1>1, <2>1 DEF Windows
  <2> QED BY <2>1, <2>2, <2>3 DEF y
<1>6. CASE t = arr[h + 1].tx
  <2>1. y = <<h, h>>
    BY <1>1, <1>2, <1>3, <1>6
  <2>2. ~Absent(arr, t)
    BY <1>1, <1>6 DEF Absent
  <2>3. y \in Windows(arr) /\ y[2] - y[1] < e - p
    BY <1>0, <1>1, <2>1 DEF Windows
  <2> QED BY <2>2, <2>3 DEF y
<1> QED BY <1>1, <1>2, <1>4, <1>5, <1>6

IsLook(f, arr, t) ==
    f = [n \in 0..Len(arr) |->
            IF n = 0 THEN <<0, Len(arr)>>
            ELSE IF f[n - 1][1] < f[n - 1][2]
                 THEN Halved(arr, t, f[n - 1][1], f[n - 1][2])
                 ELSE f[n - 1]]
Look(arr, t) == CHOOSE f : IsLook(f, arr, t)

LEMMA FindIsLook ==
    ASSUME NEW arr, NEW t PROVE find_pending_in_arr(arr, t) = Look(arr, t)[Len(arr)][1]
BY DEF find_pending_in_arr, Look, IsLook

LEMMA LookExists ==
    ASSUME NEW arr \in Seq(Entry), NEW t \in Txs
    PROVE  IsLook(Look(arr, t), arr, t) /\ Look(arr, t) \in [0 .. Len(arr) -> Windows(arr)]
<1> DEFINE L == Len(arr)
           V == Windows(arr)
           F == [x \in V |-> IF x[1] < x[2] THEN Halved(arr, t, x[1], x[2]) ELSE x]
           G == [k \in 1 .. L |-> F]
<1>0. L \in Nat
  BY LenProperties
<1>1. F \in [V -> V]
  <2>1. ASSUME NEW x \in V PROVE (IF x[1] < x[2] THEN Halved(arr, t, x[1], x[2]) ELSE x) \in V
    <3>1. x[1] \in Nat /\ x[2] \in Nat /\ x[2] <= L
      BY <1>0 DEF Windows
    <3>2. x[1] < x[2] => Halved(arr, t, x[1], x[2]) \in V
      BY <3>1, HalvedPart
    <3> HIDE DEF V
    <3> QED BY <3>2
  <2> HIDE DEF V
  <2> QED BY <2>1
<1>2. <<0, L>> \in V
  BY <1>0 DEF Windows
<1>3. StepsIn(G, L, V)
  <2> HIDE DEF F, L, V
  <2> QED BY <1>1 DEF StepsIn
<1>4. PICK f : FollowsFrom(f, <<0, L>>, G, L, V)
  <2> HIDE DEF G, L, V
  <2> QED BY <1>0, <1>2, <1>3, RecursionWorks
<1>5. f \in [0 .. L -> V] /\ f[0] = <<0, L>> /\ \A k \in 1 .. L : f[k] = G[k][f[k - 1]]
  BY <1>4 DEF FollowsFrom
<1>6. ASSUME NEW n \in 0 .. L
      PROVE  f[n] = IF n = 0 THEN <<0, L>>
                    ELSE IF f[n - 1][1] < f[n - 1][2]
                         THEN Halved(arr, t, f[n - 1][1], f[n - 1][2])
                         ELSE f[n - 1]
  <2>1. CASE n = 0
    BY <1>5, <2>1
  <2>2. CASE n # 0
    <3>1. n \in 1 .. L /\ n - 1 \in 0 .. L
      BY <1>0, <2>2
    <3>2. f[n] = F[f[n - 1]] /\ f[n - 1] \in V
      <4> HIDE DEF F, V, L
      <4> QED BY <1>5, <3>1
    <3>3. F[f[n - 1]] = IF f[n - 1][1] < f[n - 1][2]
                        THEN Halved(arr, t, f[n - 1][1], f[n - 1][2]) ELSE f[n - 1]
      <4> HIDE DEF V
      <4> QED BY <3>2
    <3> HIDE DEF F, V
    <3> QED BY <2>2, <3>2, <3>3
  <2> QED BY <2>1, <2>2
<1>7. IsLook(f, arr, t)
  <2>1. DOMAIN f = 0 .. L
    BY <1>5
  <2> HIDE DEF V, F, G
  <2>2. f = [n \in 0 .. L |-> f[n]]
    BY <1>5
  <2> QED BY <1>6, <2>2 DEF IsLook
<1>8. IsLook(Look(arr, t), arr, t)
  BY <1>7 DEF Look
<1>9. ASSUME NEW g, IsLook(g, arr, t) PROVE g \in [0 .. L -> V]
  <2>1. /\ g = [n \in 0 .. L |-> g[n]]
        /\ \A n \in 0 .. L : g[n] = IF n = 0 THEN <<0, L>>
                    ELSE IF g[n - 1][1] < g[n - 1][2]
                         THEN Halved(arr, t, g[n - 1][1], g[n - 1][2])
                         ELSE g[n - 1]
    <3>1. DOMAIN g = 0 .. L /\ g = [n \in DOMAIN g |-> g[n]]
      BY <1>9 DEF IsLook
    <3> QED BY <1>9, <3>1 DEF IsLook
  <2> DEFINE S == {n \in 0 .. L : g[n] \in V}
  <2>2. 0 \in S
    <3>1. g[0] = <<0, L>> /\ 0 \in 0 .. L
      BY <1>0, <2>1
    <3> HIDE DEF V
    <3> QED BY <1>2, <3>1
  <2>3. ASSUME NEW j \in 0 .. L - 1, j \in S PROVE j + 1 \in S
    <3>1. j + 1 \in 0 .. L /\ (j + 1) - 1 = j /\ j + 1 # 0
      BY <1>0
    <3>2. g[j] \in V
      BY <2>3
    <3>3. g[j + 1] = IF g[j][1] < g[j][2] THEN Halved(arr, t, g[j][1], g[j][2]) ELSE g[j]
      BY <2>1, <3>1
    <3>4. F[g[j]] = IF g[j][1] < g[j][2] THEN Halved(arr, t, g[j][1], g[j][2]) ELSE g[j]
      <4> HIDE DEF V
      <4> QED BY <3>2
    <3>5. F[g[j]] \in V
      <4> HIDE DEF V, F
      <4> QED BY <1>1, <3>2
    <3> HIDE DEF V, F
    <3> QED BY <3>1, <3>3, <3>4, <3>5
  <2>4. \A n \in 0 .. L : n \in S
    <3> HIDE DEF S, L
    <3> QED BY <1>0, <2>2, <2>3, UpTo
  <2> HIDE DEF V, L
  <2> QED BY <2>1, <2>4
<1> QED BY <1>8, <1>9

(* The search ends at the place of t: everything before it is smaller,     *)
(* and everything from there on is larger if t is not there.               *)
LEMMA Found ==
    ASSUME NEW arr \in Seq(Entry), NEW t \in Txs
    PROVE  LET pos == find_pending_in_arr(arr, t) IN
           /\ pos \in 0 .. Len(arr)
           /\ InTxOrder(arr) /\ Absent(arr, t) => Around(arr, t, <<pos, pos>>)
<1> DEFINE L == Len(arr)
           f == Look(arr, t)
           S == {n \in 0 .. L : /\ f[n][2] - f[n][1] <= L - n
                                /\ InTxOrder(arr) /\ Absent(arr, t) => Around(arr, t, f[n])}
<1>0. L \in Nat
  BY LenProperties
<1>1. /\ \A n \in 0 .. L : f[n] \in Windows(arr)
      /\ f[0] = <<0, L>>
      /\ \A n \in 0 .. L : n # 0 => f[n] = IF f[n - 1][1] < f[n - 1][2]
                                       THEN Halved(arr, t, f[n - 1][1], f[n - 1][2])
                                       ELSE f[n - 1]
  <2>1. IsLook(f, arr, t) /\ f \in [0 .. L -> Windows(arr)]
    BY LookExists
  <2> HIDE DEF f
  <2>2. 0 \in 0 .. L
    BY <1>0
  <2> QED BY <2>1, <2>2 DEF IsLook
<1> HIDE DEF f
<1>2. 0 \in S
  BY <1>0, <1>1 DEF Around
<1>3. ASSUME NEW j \in 0 .. L - 1, j \in S PROVE j + 1 \in S
  <2>1. j + 1 \in 0 .. L /\ (j + 1) - 1 = j /\ j + 1 # 0 /\ j \in 0 .. L
    BY <1>0
  <2>2. f[j] \in Windows(arr) /\ f[j + 1] \in Windows(arr)
    BY <1>1, <2>1
  <2>3. f[j][1] \in Nat /\ f[j][2] \in Nat /\ f[j][2] <= L /\ f[j][1] <= f[j][2] /\ f[j] = <<f[j][1], f[j][2]>>
    BY <1>0, <2>2 DEF Windows
  <2>4. f[j + 1] = IF f[j][1] < f[j][2] THEN Halved(arr, t, f[j][1], f[j][2]) ELSE f[j]
    BY <1>1, <2>1
  <2>5. f[j][2] - f[j][1] <= L - j /\ (InTxOrder(arr) /\ Absent(arr, t) => Around(arr, t, f[j]))
    BY <1>3
  <2>6. CASE f[j][1] < f[j][2]
    <3> DEFINE y == Halved(arr, t, f[j][1], f[j][2])
    <3>1. /\ y \in Windows(arr) /\ y[2] - y[1] < f[j][2] - f[j][1]
          /\ InTxOrder(arr) /\ Absent(arr, t) /\ Around(arr, t, f[j]) => Around(arr, t, y)
      BY <2>3, <2>6, HalvedPart
    <3>2. y[1] \in Int /\ y[2] \in Int
      BY <1>0, <3>1 DEF Windows
    <3>3. f[j + 1] = y
      BY <2>4, <2>6
    <3> HIDE DEF y
    <3>4. y[2] - y[1] <= L - (j + 1)
      BY <1>0, <2>3, <2>5, <3>1, <3>2
    <3> QED BY <2>1, <2>5, <3>1, <3>3, <3>4
  <2>7. CASE ~(f[j][1] < f[j][2])
    <3>1. f[j + 1] = f[j] /\ f[j][2] - f[j][1] <= L - (j + 1)
      BY <1>0, <2>3, <2>4, <2>7
    <3> QED BY <2>1, <2>5, <3>1
  <2> QED BY <2>6, <2>7
<1>4. L \in S
  <2>1. \A n \in 0 .. L : n \in S
    <3> HIDE DEF S, L
    <3> QED BY <1>0, <1>2, <1>3, UpTo
  <2> QED BY <1>0, <2>1
<1>5. f[L] \in Windows(arr) /\ f[L][2] - f[L][1] <= L - L
      /\ (InTxOrder(arr) /\ Absent(arr, t) => Around(arr, t, f[L]))
  BY <1>0, <1>1, <1>4
<1>6. f[L][1] \in 0 .. L /\ f[L][2] = f[L][1] /\ f[L] = <<f[L][1], f[L][1]>>
  BY <1>0, <1>5 DEF Windows
<1> QED BY <1>5, <1>6, FindIsLook DEF f

(* With t at its place the array stays sorted. *)
LEMMA OrderKept ==
    ASSUME NEW arr \in Seq(Entry), NEW e \in Entry, InTxOrder(arr), Absent(arr, e.tx)
    PROVE  LET pos == find_pending_in_arr(arr, e.tx)
               r == InsertAt(arr, pos + 1, e)
           IN  /\ pos \in 0 .. Len(arr) /\ r \in Seq(Entry)
               /\ IsInserted(r, arr, pos, e) /\ InTxOrder(r)
<1> DEFINE pos == find_pending_in_arr(arr, e.tx)
           r == InsertAt(arr, pos + 1, e)
<1>0. Len(arr) \in Nat /\ e.tx \in Txs
  BY LenProperties DEF Entry
<1>1. pos \in 0 .. Len(arr) /\ Around(arr, e.tx, <<pos, pos>>)
  BY <1>0, Found
<1> HIDE DEF pos
<1>2. r \in Seq(Entry) /\ IsInserted(r, arr, pos, e)
  BY <1>1, Inserted
<1> HIDE DEF r
<1>3. \A i \in 1 .. Len(arr) : arr[i].tx \in Nat /\ e.tx \in Nat
  <2>1. \A i \in 1 .. Len(arr) : arr[i] \in Entry
    BY ElementOfSeq
  <2>2. Txs \subseteq Nat
    BY GeneratorAssumption
  <2> QED BY <2>1, <2>2 DEF Entry
<1>4. /\ \A i \in 1 .. pos : arr[i].tx < e.tx
      /\ \A i \in pos + 1 .. Len(arr) : e.tx < arr[i].tx
  BY <1>1 DEF Around
<1>5. /\ Len(r) = Len(arr) + 1 /\ r[pos + 1] = e
      /\ \A i \in 1 .. pos : r[i] = arr[i]
      /\ \A i \in pos + 1 .. Len(arr) : r[i + 1] = arr[i]
  BY <1>2 DEF IsInserted
<1>6. ASSUME NEW i \in 1 .. Len(r), NEW j \in 1 .. Len(r), i < j PROVE r[i].tx < r[j].tx
  <2>1. CASE j <= pos
    <3>1. i \in 1 .. pos /\ j \in 1 .. pos /\ i \in 1 .. Len(arr) /\ j \in 1 .. Len(arr)
      BY <1>0, <1>1, <1>6, <2>1
    <3> QED BY <1>5, <1>6, <3>1 DEF InTxOrder
  <2>2. CASE j = pos + 1
    <3>1. i \in 1 .. pos
      BY <1>0, <1>1, <1>6, <2>2
    <3> QED BY <1>4, <1>5, <2>2, <3>1
  <2>3. CASE j > pos + 1
    <3>1. j - 1 \in pos + 1 .. Len(arr) /\ (j - 1) + 1 = j /\ j - 1 \in 1 .. Len(arr)
      BY <1>0, <1>1, <1>5, <2>3
    <3>2. r[j] = arr[j - 1]
      BY <1>5, <3>1
    <3>3. CASE i <= pos
      <4>1. i \in 1 .. pos /\ i \in 1 .. Len(arr) /\ i < j - 1
        BY <1>0, <1>1, <2>3, <3>3
      <4> QED BY <1>5, <3>1, <3>2, <4>1 DEF InTxOrder
    <3>4. CASE i = pos + 1
      BY <1>4, <1>5, <3>1, <3>2, <3>4
    <3>5. CASE i > pos + 1
      <4>1. i - 1 \in pos + 1 .. Len(arr) /\ (i - 1) + 1 = i /\ i - 1 \in 1 .. Len(arr) /\ i - 1 < j - 1
        BY <1>0, <1>1, <1>5, <1>6, <3>5
      <4>2. r[i] = arr[i - 1]
        BY <1>5, <4>1
      <4> QED BY <3>1, <3>2, <4>1, <4>2 DEF InTxOrder
    <3> QED BY <1>0, <1>1, <3>3, <3>4, <3>5
  <2> QED BY <1>0, <1>1, <2>1, <2>2, <2>3
<1>7. InTxOrder(r)
  BY <1>6 DEF InTxOrder
<1> QED BY <1>1, <1>2, <1>7 DEF pos, r

(* What is sorted with e inserted was sorted without it. *)
LEMMA OrderBefore ==
    ASSUME NEW q \in Seq(Entry), NEW r, NEW off \in 0 .. Len(q), NEW e,
           IsInserted(r, q, off, e), InTxOrder(r)
    PROVE  InTxOrder(q)
<1>0. Len(q) \in Nat
  BY LenProperties
<1>5. /\ Len(r) = Len(q) + 1
      /\ \A i \in 1 .. off : r[i] = q[i]
      /\ \A i \in off + 1 .. Len(q) : r[i + 1] = q[i]
  BY DEF IsInserted
<1>1. ASSUME NEW i \in 1 .. Len(q), NEW j \in 1 .. Len(q), i < j PROVE q[i].tx < q[j].tx
  <2> DEFINE x == IF i <= off THEN i ELSE i + 1
             y == IF j <= off THEN j ELSE j + 1
  <2>1. x \in 1 .. Len(r) /\ y \in 1 .. Len(r) /\ x < y
    BY <1>0, <1>1, <1>5
  <2>2. r[x] = q[i]
    BY <1>0, <1>5
  <2>3. r[y] = q[j]
    BY <1>0, <1>5
  <2> HIDE DEF x, y
  <2> QED BY <2>1, <2>2, <2>3 DEF InTxOrder
<1> QED BY <1>1 DEF InTxOrder

(* Removal keeps the order. *)
LEMMA OrderRemoved ==
    ASSUME NEW q \in Seq(Entry), NEW off \in 0 .. Len(q), InTxOrder(q)
    PROVE  InTxOrder(RemoveAt(q, off + 1))
<1> DEFINE r == RemoveAt(q, off + 1)
           At(i) == IF i <= off THEN i ELSE i + 1
<1>0. Len(q) \in Nat
  BY LenProperties
<1>1. \A i \in 1 .. Len(r) : r[i] = q[At(i)] /\ At(i) \in 1 .. Len(q)
  BY Removed
<1> HIDE DEF r
<1>2. ASSUME NEW i \in 1 .. Len(r), NEW j \in 1 .. Len(r), i < j PROVE r[i].tx < r[j].tx
  <2>1. At(i) < At(j)
    BY <1>0, <1>2
  <2> HIDE DEF At
  <2> QED BY <1>1, <2>1 DEF InTxOrder
<1> QED BY <1>2 DEF InTxOrder, r

(* A finite set of transactions can be put in order. *)
Lists(f, S) ==
    /\ f \in [1..Cardinality(S) -> S]
    /\ \A i, j \in 1..Cardinality(S) : i < j => f[i] < f[j]

LEMMA OrderExists ==
    ASSUME NEW S \in SUBSET Txs
    PROVE  IsFiniteSet(S) /\ Cardinality(S) \in Nat /\ Lists(InOrder(S), S)
<1>0. ASSUME NEW T \in SUBSET Txs PROVE IsFiniteSet(T) /\ Cardinality(T) \in Nat /\ T \subseteq Nat
  BY GeneratorAssumption, FS_Subset, FS_CardinalityType
<1> DEFINE N == {n \in Nat : \A T \in SUBSET Txs : Cardinality(T) = n => \E f : Lists(f, T)}
<1>1. 0 \in N
  <2>1. ASSUME NEW T \in SUBSET Txs, Cardinality(T) = 0 PROVE Lists(<<>>, T)
    <3>1. T = {}
      BY <1>0, <2>1, FS_EmptySet
    <3>2. 1 .. 0 = {}
      OBVIOUS
    <3>3. <<>> \in [1 .. 0 -> T]
      BY <3>2
    <3> QED BY <2>1, <3>2, <3>3 DEF Lists
  <2> QED BY <2>1
<1>2. ASSUME NEW n \in Nat, n \in N PROVE n + 1 \in N
  <2>1. ASSUME NEW T \in SUBSET Txs, Cardinality(T) = n + 1 PROVE \E f : Lists(f, T)
    <3>1. IsFiniteSet(T) /\ T \subseteq Nat /\ T # {}
      BY <1>0, <2>1, FS_EmptySet
    <3>2. PICK m \in T : \A x \in T : m <= x
      BY <3>1, LeastNatural
    <3> DEFINE U == T \ {m}
    <3>3. U \in SUBSET Txs /\ Cardinality(U) = n
      <4>1. Cardinality(T \ {m}) = (n + 1) - 1
        BY <2>1, <3>1, <3>2, FS_RemoveElement
      <4> QED BY <1>2, <4>1
    <3>4. PICK f : Lists(f, U)
      <4> HIDE DEF U
      <4> QED BY <1>2, <3>3
    <3> DEFINE g == [i \in 1 .. n + 1 |-> IF i = 1 THEN m ELSE f[i - 1]]
    <3>5. f \in [1 .. n -> U] /\ \A i, j \in 1 .. n : i < j => f[i] < f[j]
      BY <3>3, <3>4 DEF Lists
    <3>6. ASSUME NEW i \in 1 .. n + 1, i # 1 PROVE i - 1 \in 1 .. n /\ g[i] = f[i - 1] /\ g[i] \in T /\ m < g[i]
      <4>1. i - 1 \in 1 .. n /\ g[i] = f[i - 1]
        BY <1>2, <3>6
      <4>2. f[i - 1] \in T /\ f[i - 1] # m
        BY <3>5, <4>1
      <4> HIDE DEF g, U
      <4>3. m \in Nat /\ f[i - 1] \in Nat /\ m <= f[i - 1]
        BY <3>1, <3>2, <4>2
      <4>4. m < f[i - 1]
        BY <4>2, <4>3
      <4> QED BY <4>1, <4>2, <4>4
    <3>7. 1 \in 1 .. n + 1 /\ g[1] = m
      BY <1>2
    <3>8. g \in [1 .. n + 1 -> T]
      <4>1. \A i \in 1 .. n + 1 : g[i] \in T
        <5> HIDE DEF g
        <5> QED BY <3>2, <3>6, <3>7
      <4>2. DOMAIN g = 1 .. n + 1 /\ g = [i \in 1 .. n + 1 |-> g[i]]
        OBVIOUS
      <4> HIDE DEF g
      <4> QED BY <4>1, <4>2
    <3>9. ASSUME NEW i \in 1 .. n + 1, NEW j \in 1 .. n + 1, i < j PROVE g[i] < g[j]
      <4>1. j # 1
        BY <1>2, <3>9
      <4> HIDE DEF g, U
      <4>2. CASE i = 1
        BY <3>6, <3>7, <4>1, <4>2
      <4>3. CASE i # 1
        <5>1. i - 1 < j - 1 /\ i - 1 \in 1 .. n /\ j - 1 \in 1 .. n /\ g[i] = f[i - 1] /\ g[j] = f[j - 1]
          BY <1>2, <3>6, <3>9, <4>1, <4>3
        <5> QED BY <3>5, <5>1
      <4> QED BY <4>2, <4>3
    <3> HIDE DEF g
    <3> QED BY <2>1, <3>8, <3>9 DEF Lists
  <2>2. n + 1 \in Nat
    OBVIOUS
  <2> QED BY <2>1, <2>2
<1>3. Cardinality(S) \in N
  <2> DEFINE c == Cardinality(S)
  <2>0. c \in Nat
    BY <1>0
  <2> HIDE DEF N, c
  <2>1. \A j \in 0 .. c : j \in N
    BY <1>1, <1>2, <2>0, UpTo
  <2> QED BY <2>0, <2>1 DEF c
<1>4. \E f : Lists(f, S)
  BY <1>3
<1>5. PICK f : Lists(f, S)
  BY <1>4
<1> DEFINE Q(txs) == \A i, j \in DOMAIN txs : i < j => txs[i] < txs[j]
<1>6. f \in [1..Cardinality(S) -> S] /\ Q(f)
  BY <1>5 DEF Lists
<1>7. InOrder(S) \in [1..Cardinality(S) -> S] /\ Q(InOrder(S))
  <2>1. InOrder(S) = CHOOSE txs \in [1..Cardinality(S) -> S] : Q(txs)
    BY DEF InOrder
  <2> HIDE DEF Q
  <2> QED BY <1>6, <2>1
<1>8. Lists(InOrder(S), S)
  BY <1>7 DEF Lists
<1> QED BY <1>0, <1>8

ArraysType == [Shards -> Seq(Entry)]
Orderly(a) == \A s \in Shards : InTxOrder(a[s])
Roomy(a) == \A s \in Shards : Len(a[s]) <= MaxPending

(* The arrays made by a recheck are in order and not too long. *)
LEMMA ArraysRight ==
    ASSUME NEW K \in Fitting, NEW h \in Heads
    PROVE  Arrays[K][h] \in ArraysType /\ Orderly(Arrays[K][h]) /\ Roomy(Arrays[K][h])
<1> DEFINE Of(s) == {t \in K : ShardOf[t] = s}
           arr(s) == [i \in DOMAIN InOrder(Of(s)) |-> [tx |-> InOrder(Of(s))[i], refs |-> h]]
           A == Arrays[K][h]
<1>1. K \in SUBSET Txs /\ \A s \in Shards : Cardinality(Of(s)) <= MaxPending
  BY DEF Fitting
<1>2. A = [s \in Shards |-> arr(s)]
  <2>1. Arrays[K] = [g \in Heads |-> [s \in Shards |->
            LET txs == InOrder(Of(s)) IN [i \in DOMAIN txs |-> [tx |-> txs[i], refs |-> g]]]]
    BY <1>1 DEF Arrays
  <2> QED BY <2>1
<1>3. ASSUME NEW s \in Shards
      PROVE  arr(s) \in Seq(Entry) /\ InTxOrder(arr(s)) /\ Len(arr(s)) <= MaxPending
  <2> DEFINE c == Cardinality(Of(s))
             f == InOrder(Of(s))
             a == arr(s)
  <2>1. c \in Nat /\ Lists(f, Of(s))
    BY <1>1, OrderExists
  <2>2. f \in [1 .. c -> Of(s)] /\ \A i, j \in 1 .. c : i < j => f[i] < f[j]
    BY <2>1 DEF Lists
  <2>3. Of(s) \subseteq Txs
    BY <1>1
  <2>4. a = [i \in 1 .. c |-> [tx |-> f[i], refs |-> h]]
    <3>1. DOMAIN f = 1 .. c
      BY <2>2
    <3> QED BY <3>1
  <2>5. c <= MaxPending
    BY <1>1
  <2> HIDE DEF a, f, c, Of
  <2>6. a \in [1 .. c -> Entry]
    BY <2>2, <2>3, <2>4 DEF Entry
  <2>7. a \in Seq(Entry) /\ Len(a) = c
    BY <2>1, <2>6
  <2>8. ASSUME NEW i \in 1 .. Len(a), NEW j \in 1 .. Len(a), i < j PROVE a[i].tx < a[j].tx
    <3>1. i \in 1 .. c /\ j \in 1 .. c
      BY <2>7
    <3>2. a[i].tx = f[i] /\ a[j].tx = f[j]
      BY <2>4, <3>1
    <3> QED BY <2>2, <2>8, <3>1, <3>2
  <2> QED BY <2>5, <2>7, <2>8 DEF a, InTxOrder
<1> HIDE DEF A, arr
<1> QED BY <1>2, <1>3 DEF A, ArraysType, Orderly, Roomy

-----------------------------------------------------------------------------
(* Updates *)

LEMMA PutAtFacts ==
    ASSUME NEW a \in ArraysType, NEW u \in Update, u.off <= Len(a[u.shard])
    PROVE  /\ PutAt(a, u) \in ArraysType
           /\ IsInserted(PutAt(a, u)[u.shard], a[u.shard], u.off, u.entry)
           /\ \A s \in Shards : s # u.shard => PutAt(a, u)[s] = a[s]
<1> DEFINE q == a[u.shard]
           r == InsertAt(q, u.off + 1, u.entry)
<1>1. u.shard \in Shards /\ u.off \in Nat /\ u.entry \in Entry
  BY DEF Update
<1>2. q \in Seq(Entry) /\ Len(q) \in Nat
  BY <1>1, LenProperties DEF ArraysType
<1>3. r \in Seq(Entry) /\ IsInserted(r, q, u.off, u.entry)
  BY <1>1, <1>2, Inserted
<1>4. PutAt(a, u) = [a EXCEPT ![u.shard] = r]
  BY DEF PutAt
<1> HIDE DEF r
<1> QED BY <1>1, <1>3, <1>4 DEF ArraysType

(* h follows a working block W through the updates Q to P: each update     *)
(* fits into the block that those before it have left.                     *)
Reading(h, W, Q, P) ==
    /\ h \in [0 .. Len(Q) -> ArraysType]
    /\ h[0] = W /\ h[Len(Q)] = P
    /\ \A n \in 1 .. Len(Q) :
          Q[n].off <= Len(h[n - 1][Q[n].shard]) /\ h[n] = PutAt(h[n - 1], Q[n])
Follows(W, Q, P) == Q \in Seq(Update) /\ \E h : Reading(h, W, Q, P)

LEMMA FollowsTypes ==
    ASSUME NEW W, NEW Q, NEW P, Follows(W, Q, P)
    PROVE  W \in ArraysType /\ P \in ArraysType /\ Q \in Seq(Update)
<1>1. PICK h : Reading(h, W, Q, P)
  BY DEF Follows
<1>2. Q \in Seq(Update) /\ Len(Q) \in Nat
  BY LenProperties DEF Follows
<1>3. 0 \in 0 .. Len(Q) /\ Len(Q) \in 0 .. Len(Q)
  BY <1>2
<1> QED BY <1>1, <1>2, <1>3 DEF Reading

LEMMA FollowsNothing == ASSUME NEW W \in ArraysType PROVE Follows(W, <<>>, W)
<1> DEFINE h == [n \in 0 .. 0 |-> W]
<1>1. Len(<<>>) = 0 /\ <<>> \in Seq(Update) /\ 1 .. 0 = {}
  OBVIOUS
<1>2. h \in [0 .. 0 -> ArraysType] /\ h[0] = W
  OBVIOUS
<1> HIDE DEF h
<1>3. Reading(h, W, <<>>, W)
  BY <1>1, <1>2 DEF Reading
<1> QED BY <1>1, <1>3 DEF Follows

(* One more update at the end. *)
LEMMA FollowsMore ==
    ASSUME NEW W, NEW Q, NEW P, Follows(W, Q, P), NEW u \in Update, u.off <= Len(P[u.shard])
    PROVE  Follows(W, Append(Q, u), PutAt(P, u))
<1> DEFINE R == Append(Q, u)
           L == Len(Q)
<1>1. PICK h : Reading(h, W, Q, P)
  BY DEF Follows
<1> DEFINE g == [n \in 0 .. L + 1 |-> IF n <= L THEN h[n] ELSE PutAt(P, u)]
<1>2. Q \in Seq(Update) /\ L \in Nat
  BY LenProperties DEF Follows
<1>3. R \in Seq(Update) /\ Len(R) = L + 1 /\ (\A n \in 1 .. L : R[n] = Q[n]) /\ R[L + 1] = u
  BY <1>2, AppendProperties
<1>4. /\ h \in [0 .. L -> ArraysType] /\ h[0] = W /\ h[L] = P
      /\ \A n \in 1 .. L : Q[n].off <= Len(h[n - 1][Q[n].shard]) /\ h[n] = PutAt(h[n - 1], Q[n])
  BY <1>1 DEF Reading
<1>5. PutAt(P, u) \in ArraysType
  BY FollowsTypes, PutAtFacts
<1> HIDE DEF R
<1>6. g \in [0 .. L + 1 -> ArraysType]
  <2> HIDE DEF L
  <2>1. ASSUME NEW n \in 0 .. L + 1 PROVE (IF n <= L THEN h[n] ELSE PutAt(P, u)) \in ArraysType
    <3>1. n <= L => n \in 0 .. L
      BY <1>2
    <3> QED BY <1>4, <1>5, <3>1
  <2> QED BY <2>1
<1>7. g[0] = W /\ g[L + 1] = PutAt(P, u)
  BY <1>2, <1>4
<1>8. ASSUME NEW n \in 1 .. L + 1
      PROVE  R[n].off <= Len(g[n - 1][R[n].shard]) /\ g[n] = PutAt(g[n - 1], R[n])
  <2>1. CASE n <= L
    <3>1. n \in 1 .. L /\ g[n] = h[n] /\ g[n - 1] = h[n - 1]
      BY <1>2, <2>1
    <3> HIDE DEF g, L
    <3> QED BY <1>3, <1>4, <3>1
  <2>2. CASE n = L + 1
    <3>1. g[n] = PutAt(P, u) /\ g[n - 1] = P
      BY <1>2, <1>4, <2>2
    <3> HIDE DEF g, L
    <3> QED BY <1>3, <2>2, <3>1
  <2> HIDE DEF g, L
  <2> QED BY <1>2, <2>1, <2>2
<1> HIDE DEF g
<1>9. Reading(g, W, R, PutAt(P, u))
  BY <1>3, <1>6, <1>7, <1>8 DEF Reading
<1> QED BY <1>3, <1>9 DEF Follows, R

(* The first update is read. *)
LEMMA FollowsNext ==
    ASSUME NEW W, NEW Q, NEW P, Follows(W, Q, P), Q # <<>>
    PROVE  /\ Head(Q) \in Update /\ Head(Q).off <= Len(W[Head(Q).shard])
           /\ Follows(PutAt(W, Head(Q)), Tail(Q), P)
<1> DEFINE R == Tail(Q)
           L == Len(Q)
<1>1. PICK h : Reading(h, W, Q, P)
  BY DEF Follows
<1> DEFINE g == [n \in 0 .. L - 1 |-> h[n + 1]]
<1>2. Q \in Seq(Update) /\ L \in Nat \ {0}
  BY EmptySeq DEF Follows
<1>3. R \in Seq(Update) /\ Len(R) = L - 1 /\ \A n \in 1 .. L - 1 : R[n] = Q[n + 1]
  BY <1>2, HeadTailProperties
<1>4. /\ h \in [0 .. L -> ArraysType] /\ h[0] = W /\ h[L] = P
      /\ \A n \in 1 .. L : Q[n].off <= Len(h[n - 1][Q[n].shard]) /\ h[n] = PutAt(h[n - 1], Q[n])
  BY <1>1 DEF Reading
<1>5. Head(Q) = Q[1] /\ Q[1] \in Update
  BY <1>2, HeadTailProperties
<1> HIDE DEF R
<1>6. g \in [0 .. L - 1 -> ArraysType]
  <2> HIDE DEF L
  <2>1. \A n \in 0 .. L - 1 : n + 1 \in 0 .. L
    BY <1>2
  <2> QED BY <1>4, <2>1
<1>7. g[0] = PutAt(W, Q[1]) /\ g[L - 1] = P /\ Q[1].off <= Len(W[Q[1].shard])
  <2> HIDE DEF L
  <2>1. 1 \in 1 .. L /\ 1 - 1 = 0 /\ 0 + 1 = 1 /\ 0 \in 0 .. L - 1 /\ L - 1 \in 0 .. L - 1 /\ (L - 1) + 1 = L
    BY <1>2
  <2>2. h[1] = PutAt(h[0], Q[1]) /\ Q[1].off <= Len(h[0][Q[1].shard])
    BY <1>4, <2>1
  <2>3. g[0] = h[1] /\ g[L - 1] = h[L]
    BY <2>1
  <2> QED BY <1>4, <2>2, <2>3
<1>8. ASSUME NEW n \in 1 .. L - 1
      PROVE  R[n].off <= Len(g[n - 1][R[n].shard]) /\ g[n] = PutAt(g[n - 1], R[n])
  <2> HIDE DEF L
  <2>1. n + 1 \in 1 .. L /\ (n + 1) - 1 = n /\ n - 1 \in 0 .. L - 1 /\ (n - 1) + 1 = n /\ n \in 0 .. L - 1
    BY <1>2
  <2>2. g[n] = h[n + 1] /\ g[n - 1] = h[n] /\ R[n] = Q[n + 1]
    BY <1>3, <2>1
  <2> HIDE DEF g
  <2>3. Q[n + 1].off <= Len(h[(n + 1) - 1][Q[n + 1].shard]) /\ h[n + 1] = PutAt(h[(n + 1) - 1], Q[n + 1])
    BY <1>4, <2>1
  <2> QED BY <2>1, <2>2, <2>3
<1> HIDE DEF g
<1>9. Reading(g, PutAt(W, Q[1]), R, P)
  BY <1>3, <1>6, <1>7, <1>8 DEF Reading
<1> QED BY <1>3, <1>5, <1>7, <1>9 DEF Follows, R

(* What comes before a working block in order is in order, and shorter.    *)
LEMMA FollowsOrder ==
    ASSUME NEW W, NEW Q, NEW P, Follows(W, Q, P), Orderly(P)
    PROVE  Orderly(W) /\ \A s \in Shards : Len(W[s]) <= Len(P[s])
<1> DEFINE L == Len(Q)
           Fine(x) == Orderly(x) /\ \A s \in Shards : Len(x[s]) <= Len(P[s])
<1>1. PICK h : Reading(h, W, Q, P)
  BY DEF Follows
<1> DEFINE S == {k \in 0 .. L : Fine(h[L - k])}
<1>2. Q \in Seq(Update) /\ L \in Nat
  BY LenProperties DEF Follows
<1>3. /\ h \in [0 .. L -> ArraysType] /\ h[0] = W /\ h[L] = P
      /\ \A n \in 1 .. L : Q[n].off <= Len(h[n - 1][Q[n].shard]) /\ h[n] = PutAt(h[n - 1], Q[n])
  BY <1>1 DEF Reading
<1>4. \A x \in ArraysType, s \in Shards : x[s] \in Seq(Entry) /\ Len(x[s]) \in Nat
  BY LenProperties DEF ArraysType
<1> HIDE DEF L
<1>5. 0 \in S
  <2>1. L - 0 = L /\ 0 \in 0 .. L
    BY <1>2
  <2>2. Fine(P)
    BY <1>4, FollowsTypes
  <2> QED BY <1>3, <2>1, <2>2
<1>6. ASSUME NEW k \in 0 .. L - 1, k \in S PROVE k + 1 \in S
  <2> DEFINE n == L - k
             a == h[n - 1]
             b == h[n]
             u == Q[n]
  <2>1. n \in 1 .. L /\ L - (k + 1) = n - 1 /\ n - 1 \in 0 .. L /\ n \in 0 .. L /\ k + 1 \in 0 .. L
    BY <1>2
  <2>2. Fine(b)
    BY <1>6
  <2> HIDE DEF n
  <2>3. a \in ArraysType /\ b \in ArraysType /\ u \in Update /\ u.off <= Len(a[u.shard]) /\ b = PutAt(a, u)
    <3>1. u \in Update
      BY <1>2, <2>1, ElementOfSeq DEF L
    <3> QED BY <1>3, <2>1, <3>1
  <2> HIDE DEF a, b, u, Fine
  <2>4. /\ IsInserted(b[u.shard], a[u.shard], u.off, u.entry)
        /\ \A s \in Shards : s # u.shard => b[s] = a[s]
    BY <2>3, PutAtFacts
  <2>5. u.shard \in Shards /\ u.off \in Nat
    BY <2>3 DEF Update
  <2>6. ASSUME NEW s \in Shards PROVE InTxOrder(a[s]) /\ Len(a[s]) <= Len(P[s])
    <3>1. InTxOrder(b[s]) /\ Len(b[s]) <= Len(P[s])
      BY <2>2 DEF Fine, Orderly
    <3>2. CASE s # u.shard
      BY <2>4, <3>1, <3>2
    <3>3. CASE s = u.shard
      <4>1. a[s] \in Seq(Entry) /\ Len(a[s]) \in Nat /\ Len(P[s]) \in Nat
        BY <1>4, <2>3, FollowsTypes
      <4>2. u.off \in 0 .. Len(a[s])
        BY <2>3, <2>5, <3>3, <4>1
      <4>3. InTxOrder(a[s])
        BY <2>4, <3>1, <3>3, <4>1, <4>2, OrderBefore
      <4>4. Len(b[s]) = Len(a[s]) + 1
        BY <2>4, <3>3 DEF IsInserted
      <4> QED BY <3>1, <4>1, <4>3, <4>4
    <3> QED BY <3>2, <3>3
  <2>7. Fine(a)
    BY <2>6 DEF Fine, Orderly
  <2> QED BY <2>1, <2>7 DEF a
<1>7. L \in S
  <2>1. \A k \in 0 .. L : k \in S
    <3> HIDE DEF S
    <3> QED BY <1>2, <1>5, <1>6, UpTo
  <2> QED BY <1>2, <2>1
<1>8. L - L = 0
  BY <1>2
<1> QED BY <1>3, <1>7, <1>8

(* The assertions of add_tx() hold for an update on a way that ends well.  *)
LEMMA NextFits ==
    ASSUME NEW W, NEW Q, NEW P, Follows(W, Q, P), Q # <<>>, Orderly(P), Roomy(P)
    PROVE  Len(W[Head(Q).shard]) < MaxPending /\ Head(Q).off <= Len(W[Head(Q).shard])
<1> DEFINE u == Head(Q)
           a == PutAt(W, u)
<1>1. u \in Update /\ u.off <= Len(W[u.shard]) /\ Follows(a, Tail(Q), P)
  BY FollowsNext
<1>2. W \in ArraysType /\ P \in ArraysType
  BY FollowsTypes
<1> HIDE DEF a, u
<1>3. \A s \in Shards : Len(a[s]) <= Len(P[s])
  BY <1>1, FollowsOrder
<1>4. u.shard \in Shards
  BY <1>1 DEF Update
<1>5. Len(a[u.shard]) = Len(W[u.shard]) + 1
  BY <1>1, <1>2, PutAtFacts DEF IsInserted, a
<1>6. Len(W[u.shard]) \in Nat /\ Len(P[u.shard]) \in Nat
  BY <1>2, <1>4, LenProperties DEF ArraysType
<1>7. Len(P[u.shard]) <= MaxPending /\ MaxPending \in Nat
  BY <1>4, GeneratorAssumption DEF Roomy
<1>8. Len(a[u.shard]) <= Len(P[u.shard])
  BY <1>3, <1>4
<1> QED BY <1>1, <1>5, <1>6, <1>7, <1>8 DEF u

(* What GeneratorInStep says the working block becomes. *)
IsWork(f, us) ==
    f = [n \in 0..Len(us) |-> IF n = 0 THEN trans_hashes ELSE PutAt(f[n - 1], us[n])]
Work(us) == CHOOSE f : IsWork(f, us)

LEMMA WorkIs == ASSUME NEW us PROVE WorkAfter(us) = Work(us)[Len(us)]
BY DEF WorkAfter, Work, IsWork

LEMMA FollowsWork ==
    ASSUME NEW Q, NEW P, Follows(trans_hashes, Q, P)
    PROVE  WorkAfter(Q) = P
<1> DEFINE L == Len(Q)
           f == Work(Q)
<1>1. PICK h : Reading(h, trans_hashes, Q, P)
  BY DEF Follows
<1>2. Q \in Seq(Update) /\ L \in Nat
  BY LenProperties DEF Follows
<1>3. /\ h \in [0 .. L -> ArraysType] /\ h[0] = trans_hashes /\ h[L] = P
      /\ \A n \in 1 .. L : h[n] = PutAt(h[n - 1], Q[n])
  BY <1>1 DEF Reading
<1>4. IsWork(h, Q)
  <2> HIDE DEF L
  <2>1. h = [n \in 0 .. L |-> h[n]]
    BY <1>3
  <2>2. ASSUME NEW n \in 0 .. L PROVE h[n] = IF n = 0 THEN trans_hashes ELSE PutAt(h[n - 1], Q[n])
    <3>1. n # 0 => n \in 1 .. L
      BY <1>2
    <3> QED BY <1>3, <3>1
  <2>3. h = [n \in 0 .. L |-> IF n = 0 THEN trans_hashes ELSE PutAt(h[n - 1], Q[n])]
    BY <2>1, <2>2
  <2> QED BY <2>3 DEF IsWork, L
<1>5. IsWork(f, Q)
  BY <1>4 DEF Work
<1> DEFINE T == {n \in 0 .. L : f[n] = h[n]}
<1>6. \A n \in 0 .. L : f[n] = IF n = 0 THEN trans_hashes ELSE PutAt(f[n - 1], Q[n])
  <2> HIDE DEF f
  <2> QED BY <1>5 DEF IsWork
<1> HIDE DEF f, L
<1>7. 0 \in T
  BY <1>2, <1>3, <1>6
<1>8. ASSUME NEW j \in 0 .. L - 1, j \in T PROVE j + 1 \in T
  <2>1. j + 1 \in 0 .. L /\ j + 1 \in 1 .. L /\ (j + 1) - 1 = j /\ j + 1 # 0
    BY <1>2
  <2>2. f[j + 1] = PutAt(f[j], Q[j + 1]) /\ h[j + 1] = PutAt(h[j], Q[j + 1])
    BY <1>3, <1>6, <2>1
  <2>3. f[j] = h[j]
    BY <1>8
  <2> QED BY <2>1, <2>2, <2>3
<1>9. L \in T
  <2>1. \A k \in 0 .. L : k \in T
    <3> HIDE DEF T
    <3> QED BY <1>2, <1>7, <1>8, UpTo
  <2> QED BY <1>2, <2>1
<1> QED BY <1>3, <1>9, WorkIs DEF f, L

-----------------------------------------------------------------------------
(* The updates a new generator starts with *)

(* A sequence is built up by appending its elements one after the other.   *)
LEMMA FirstElements ==
    ASSUME NEW S, NEW q \in Seq(S), NEW i \in 0 .. Len(q) - 1
    PROVE  /\ q[i + 1] \in S
           /\ SubSeq(q, 1, i) \in Seq(S) /\ Len(SubSeq(q, 1, i)) = i
           /\ SubSeq(q, 1, i + 1) = Append(SubSeq(q, 1, i), q[i + 1])
<1>0. Len(q) \in Nat /\ i \in Int /\ 1 \in Int /\ i + 1 \in 1 .. Len(q) /\ 1 \in 1 .. Len(q) /\ (i + 1) - 1 = i
  BY LenProperties
<1>1. q[i + 1] \in S
  BY <1>0, ElementOfSeq
<1>2. \A j \in 1 .. i : q[j] \in S
  <2>1. \A j \in 1 .. Len(q) : q[j] \in S
    BY ElementOfSeq
  <2> QED BY <1>0, <2>1
<1>3. SubSeq(q, 1, i) \in Seq(S) /\ Len(SubSeq(q, 1, i)) = IF 1 <= i THEN i - 1 + 1 ELSE 0
  BY <1>0, <1>2, SubSeqProperties
<1>4. Len(SubSeq(q, 1, i)) = i
  <2>1. (IF 1 <= i THEN i - 1 + 1 ELSE 0) = i
    BY <1>0
  <2> QED BY <1>3, <2>1
<1>5. SubSeq(q, 1, i + 1) = SubSeq(q, 1, (i + 1) - 1) \o <<q[i + 1]>>
  BY <1>0, SubSeqRecursiveSecond
<1>6. Append(SubSeq(q, 1, i), q[i + 1]) = SubSeq(q, 1, i) \o <<q[i + 1]>>
  BY <1>1, <1>3, AppendIsConcat
<1> QED BY <1>0, <1>1, <1>3, <1>4, <1>5, <1>6, Zenon

LEMMA InsertedAtEnd ==
    ASSUME NEW S, NEW q \in Seq(S), NEW e \in S
    PROVE  InsertAt(q, Len(q) + 1, e) = Append(q, e)
<1> DEFINE r == InsertAt(q, Len(q) + 1, e)
           t == Append(q, e)
<1>0. Len(q) \in Nat /\ Len(q) \in 0 .. Len(q)
  BY LenProperties
<1>1. r \in Seq(S) /\ IsInserted(r, q, Len(q), e)
  BY <1>0, Inserted
<1>2. t \in Seq(S) /\ Len(t) = Len(q) + 1 /\ (\A i \in 1 .. Len(q) : t[i] = q[i]) /\ t[Len(q) + 1] = e
  BY AppendProperties
<1> HIDE DEF r, t
<1>3. Len(r) = Len(t)
  BY <1>1, <1>2 DEF IsInserted
<1>4. ASSUME NEW i \in 1 .. Len(r) PROVE r[i] = t[i]
  <2>1. i \in 1 .. Len(q) \/ i = Len(q) + 1
    BY <1>0, <1>2, <1>3
  <2> QED BY <1>1, <1>2, <2>1 DEF IsInserted
<1>5. r = t
  BY <1>1, <1>2, <1>3, <1>4, SeqEqual
<1> QED BY <1>5 DEF r, t

Told(a, s) == [i \in DOMAIN a[s] |-> [shard |-> s, off |-> i - 1, entry |-> a[s][i]]]

LEMMA ToldType ==
    ASSUME NEW a \in ArraysType, NEW s \in Shards
    PROVE  /\ Told(a, s) \in Seq(Update) /\ Len(Told(a, s)) = Len(a[s])
           /\ \A i \in 1 .. Len(a[s]) :
                 Told(a, s)[i] = [shard |-> s, off |-> i - 1, entry |-> a[s][i]]
<1> DEFINE q == a[s]
           t == [i \in 1 .. Len(q) |-> [shard |-> s, off |-> i - 1, entry |-> q[i]]]
<1>1. q \in Seq(Entry) /\ Len(q) \in Nat /\ DOMAIN q = 1 .. Len(q)
  <2>1. q \in Seq(Entry)
    BY DEF ArraysType
  <2> QED BY <2>1, LenProperties
<1>2. Told(a, s) = t
  BY <1>1 DEF Told
<1>3. \A i \in 1 .. Len(q) : q[i] \in Entry
  BY <1>1, ElementOfSeq
<1> HIDE DEF q
<1>4. \A i \in 1 .. Len(q) : [shard |-> s, off |-> i - 1, entry |-> q[i]] \in Update
  BY <1>1, <1>3 DEF Update
<1>5. t \in [1 .. Len(q) -> Update]
  BY <1>4
<1>6. t \in Seq(Update) /\ Len(t) = Len(q)
  <2> HIDE DEF t
  <2> QED BY <1>1, <1>5
<1> QED BY <1>2, <1>6 DEF q

(* The updates about one shard fill it. *)
LEMMA ShardTold ==
    ASSUME NEW P \in ArraysType, NEW W, NEW Q, NEW A, Follows(W, Q, A),
           NEW s \in Shards, A[s] = <<>>
    PROVE  Follows(W, Q \o Told(P, s), [A EXCEPT ![s] = P[s]])
<1> DEFINE p == P[s]
           t == Told(P, s)
           L == Len(p)
           B(i) == [A EXCEPT ![s] = SubSeq(p, 1, i)]
           R(i) == Q \o SubSeq(t, 1, i)
           S == {i \in 0 .. L : Follows(W, R(i), B(i))}
<1>1. p \in Seq(Entry) /\ L \in Nat
  <2>1. p \in Seq(Entry)
    BY DEF ArraysType
  <2> QED BY <2>1, LenProperties
<1>2. t \in Seq(Update) /\ Len(t) = L /\ \A i \in 1 .. L : t[i] = [shard |-> s, off |-> i - 1, entry |-> p[i]]
  BY ToldType
<1>3. A \in ArraysType /\ Q \in Seq(Update)
  BY FollowsTypes
<1> HIDE DEF p, t, L
<1>4. 0 \in S
  <2>1. SubSeq(p, 1, 0) = <<>> /\ SubSeq(t, 1, 0) = <<>>
    BY SubSeqEmpty
  <2>2. Q \o <<>> = Q
    BY <1>3, ConcatEmptySeq
  <2>3. [A EXCEPT ![s] = <<>>] = A
    BY <1>3 DEF ArraysType
  <2>4. R(0) = Q /\ B(0) = A
    BY <2>1, <2>2, <2>3
  <2>5. 0 \in 0 .. L
    BY <1>1
  <2> HIDE DEF R, B
  <2> QED BY <2>4, <2>5
<1>5. ASSUME NEW i \in 0 .. L - 1, i \in S PROVE i + 1 \in S
  <2> DEFINE u == t[i + 1]
             b == SubSeq(p, 1, i)
             c == SubSeq(t, 1, i)
  <2>1. i + 1 \in 1 .. L /\ i + 1 \in 0 .. L /\ i \in Nat /\ (i + 1) - 1 = i
    BY <1>1
  <2>2. /\ b \in Seq(Entry) /\ Len(b) = i /\ p[i + 1] \in Entry
        /\ SubSeq(p, 1, i + 1) = Append(b, p[i + 1])
    <3>1. i \in 0 .. Len(p) - 1
      BY DEF L
    <3> QED BY <1>1, <3>1, FirstElements
  <2>3. /\ c \in Seq(Update) /\ u \in Update /\ SubSeq(t, 1, i + 1) = Append(c, u)
    <3>1. i \in 0 .. Len(t) - 1
      BY <1>2
    <3> QED BY <1>2, <3>1, FirstElements
  <2>4. u = [shard |-> s, off |-> i, entry |-> p[i + 1]]
    BY <1>2, <2>1
  <2>5. B(i)[s] = b /\ B(i) \in ArraysType
    BY <1>3, <2>2 DEF ArraysType
  <2>6. B(i + 1) = PutAt(B(i), u)
    <3>1. InsertAt(b, i + 1, p[i + 1]) = Append(b, p[i + 1])
      BY <2>2, InsertedAtEnd
    <3>2. PutAt(B(i), u) = [B(i) EXCEPT ![s] = InsertAt(b, i + 1, p[i + 1])]
      <4>1. u.shard = s /\ u.off = i /\ u.entry = p[i + 1]
        BY <2>4
      <4> HIDE DEF u, B, b
      <4> QED BY <2>5, <4>1 DEF PutAt
    <3>3. B(i + 1) = [A EXCEPT ![s] = Append(b, p[i + 1])]
      BY <2>2
    <3>4. [B(i) EXCEPT ![s] = Append(b, p[i + 1])] = [A EXCEPT ![s] = Append(b, p[i + 1])]
      <4> DEFINE x == Append(b, p[i + 1])
      <4> HIDE DEF x, b
      <4> QED BY <1>3 DEF ArraysType
    <3> HIDE DEF B, b, u
    <3> QED BY <3>1, <3>2, <3>3, <3>4
  <2>7. R(i + 1) = Append(R(i), u)
    <3>1. Append(R(i), u) = R(i) \o <<u>>
      <4>1. R(i) \in Seq(Update)
        BY <1>3, <2>3, ConcatProperties
      <4> HIDE DEF R, u
      <4> QED BY <2>3, <4>1, AppendIsConcat
    <3>2. <<u>> \in Seq(Update)
      <4> HIDE DEF u
      <4> QED BY <2>3
    <3>3. R(i) \o <<u>> = Q \o (c \o <<u>>)
      <4> HIDE DEF c, u
      <4>1. (Q \o c) \o <<u>> = Q \o (c \o <<u>>)
        BY <1>3, <2>3, <3>2, ConcatAssociative
      <4> QED BY <4>1 DEF c
    <3>4. c \o <<u>> = SubSeq(t, 1, i + 1)
      <4> HIDE DEF c, u
      <4> QED BY <2>3, AppendIsConcat
    <3> QED BY <3>1, <3>3, <3>4, Zenon
  <2>8. Follows(W, R(i), B(i))
    BY <1>5
  <2>9. u.off <= Len(B(i)[u.shard])
    <3>1. u.shard = s /\ u.off = i
      BY <2>4
    <3> HIDE DEF u, B, b
    <3> QED BY <2>1, <2>2, <2>5, <3>1
  <2>10. Follows(W, Append(R(i), u), PutAt(B(i), u))
    <3> HIDE DEF R, B, u
    <3> QED BY <2>3, <2>8, <2>9, FollowsMore
  <2> HIDE DEF R, B, u
  <2> QED BY <2>1, <2>6, <2>7, <2>10
<1>6. Follows(W, R(L), B(L))
  <2>1. \A i \in 0 .. L : i \in S
    <3> HIDE DEF S
    <3> QED BY <1>1, <1>4, <1>5, UpTo
  <2> HIDE DEF R, B
  <2> QED BY <1>1, <2>1
<1>7. SubSeq(p, 1, L) = p /\ SubSeq(t, 1, L) = t
  BY <1>1, <1>2, SubSeqFull DEF L
<1>8. R(L) = Q \o t /\ B(L) = [A EXCEPT ![s] = p]
  BY <1>7, Zenon
<1> HIDE DEF R, B
<1>9. Follows(W, Q \o t, [A EXCEPT ![s] = p])
  BY <1>6, <1>8, Zenon
<1> QED BY <1>9, Zenon DEF t, p

IsTold(f, a) == f = [s \in 0..NumShards |-> IF s = 0 THEN <<>> ELSE f[s - 1] \o Told(a, s)]
AllTold(a) == CHOOSE f : IsTold(f, a)

LEMMA InitIsTold == ASSUME NEW a PROVE init_updates(a) = AllTold(a)[NumShards]
BY DEF init_updates, AllTold, IsTold, Told

LEMMA ToldExists == ASSUME NEW a \in ArraysType PROVE IsTold(AllTold(a), a)
<1> DEFINE N == NumShards
           V == Seq(Update)
           G == [k \in 1 .. N |-> [q \in V |-> q \o Told(a, k)]]
<1>0. N \in Nat /\ Shards = 1 .. N
  BY GeneratorAssumption DEF Shards
<1>1. StepsIn(G, N, V)
  <2>1. ASSUME NEW k \in 1 .. N, NEW q \in V PROVE q \o Told(a, k) \in V
    <3>1. Told(a, k) \in V
      BY <1>0, ToldType
    <3> QED BY <3>1, ConcatProperties
  <2>2. G \in [1 .. N -> [V -> V]]
    <3> HIDE DEF V, N
    <3> QED BY <2>1
  <2> HIDE DEF G, N, V
  <2> QED BY <2>2 DEF StepsIn
<1>2. <<>> \in V
  OBVIOUS
<1>3. PICK f : FollowsFrom(f, <<>>, G, N, V)
  <2> HIDE DEF G, N, V
  <2> QED BY <1>0, <1>1, <1>2, RecursionWorks
<1>4. f \in [0 .. N -> V] /\ f[0] = <<>> /\ \A k \in 1 .. N : f[k] = G[k][f[k - 1]]
  BY <1>3 DEF FollowsFrom
<1>5. ASSUME NEW s \in 0 .. N PROVE f[s] = IF s = 0 THEN <<>> ELSE f[s - 1] \o Told(a, s)
  <2>1. CASE s = 0
    BY <1>4, <2>1
  <2>2. CASE s # 0
    <3>1. s \in 1 .. N /\ s - 1 \in 0 .. N
      BY <1>0, <2>2
    <3>2. f[s] = G[s][f[s - 1]] /\ f[s - 1] \in V
      <4> HIDE DEF G, N, V
      <4> QED BY <1>4, <3>1
    <3>3. G[s][f[s - 1]] = f[s - 1] \o Told(a, s)
      <4> HIDE DEF N, V
      <4> QED BY <3>1, <3>2
    <3> HIDE DEF G, N, V
    <3> QED BY <2>2, <3>2, <3>3
  <2> QED BY <2>1, <2>2
<1>6. IsTold(f, a)
  <2>1. f = [s \in 0 .. N |-> f[s]]
    <3> HIDE DEF G, V
    <3> QED BY <1>4
  <2> HIDE DEF G, V
  <2> QED BY <1>5, <2>1 DEF IsTold
<1> QED BY <1>6 DEF AllTold

(* A new generator that reads what was pending when it was started works   *)
(* on all of it.                                                           *)
LEMMA InitFollows ==
    ASSUME NEW P \in ArraysType PROVE Follows(NoTxs, init_updates(P), P)
<1> DEFINE N == NumShards
           f == AllTold(P)
           A(s) == [r \in Shards |-> IF r <= s THEN P[r] ELSE <<>>]
           S == {s \in 0 .. N : Follows(NoTxs, f[s], A(s))}
<1>0. N \in Nat /\ Shards = 1 .. N
  BY GeneratorAssumption DEF Shards
<1>1. \A s \in 0 .. N : f[s] = IF s = 0 THEN <<>> ELSE f[s - 1] \o Told(P, s)
  <2>1. IsTold(f, P)
    BY ToldExists
  <2> HIDE DEF f
  <2> QED BY <2>1 DEF IsTold
<1> HIDE DEF f, N
<1>2. 0 \in S
  <2>1. 0 \in 0 .. N /\ f[0] = <<>>
    BY <1>0, <1>1
  <2>2. A(0) = NoTxs
    <3>1. \A r \in Shards : ~(r <= 0)
      BY <1>0
    <3> QED BY <3>1 DEF NoTxs
  <2>3. NoTxs \in ArraysType
    BY DEF NoTxs, ArraysType
  <2>4. Follows(NoTxs, <<>>, NoTxs)
    BY <2>3, FollowsNothing
  <2> HIDE DEF A
  <2> QED BY <2>1, <2>2, <2>4
<1>3. ASSUME NEW s \in 0 .. N - 1, s \in S PROVE s + 1 \in S
  <2>1. s + 1 \in 0 .. N /\ s + 1 \in Shards /\ (s + 1) - 1 = s /\ s + 1 # 0
    BY <1>0
  <2>2. f[s + 1] = f[s] \o Told(P, s + 1)
    BY <1>1, <2>1
  <2>3. A(s)[s + 1] = <<>>
    BY <1>0, <2>1
  <2>4. A(s + 1) = [A(s) EXCEPT ![s + 1] = P[s + 1]]
    <3>1. \A r \in Shards : A(s + 1)[r] = IF r = s + 1 THEN P[s + 1] ELSE A(s)[r]
      BY <1>0, <2>1
    <3>2. A(s + 1) = [r \in Shards |-> A(s + 1)[r]] /\ DOMAIN A(s) = Shards
      OBVIOUS
    <3>3. [A(s) EXCEPT ![s + 1] = P[s + 1]] = [r \in Shards |-> IF r = s + 1 THEN P[s + 1] ELSE A(s)[r]]
      <4> HIDE DEF A
      <4> QED BY <3>2
    <3> HIDE DEF A
    <3> QED BY <3>1, <3>2, <3>3
  <2>5. Follows(NoTxs, f[s], A(s))
    BY <1>3
  <2> HIDE DEF A
  <2>6. Follows(NoTxs, f[s] \o Told(P, s + 1), [A(s) EXCEPT ![s + 1] = P[s + 1]])
    BY <2>1, <2>3, <2>5, ShardTold
  <2> QED BY <2>1, <2>2, <2>4, <2>6
<1>4. Follows(NoTxs, f[N], A(N))
  <2>1. \A s \in 0 .. N : s \in S
    <3> HIDE DEF S
    <3> QED BY <1>0, <1>2, <1>3, UpTo
  <2> HIDE DEF A
  <2> QED BY <1>0, <2>1
<1>5. A(N) = P
  <2>1. P = [r \in Shards |-> P[r]]
    BY DEF ArraysType
  <2>2. \A r \in Shards : r <= N
    BY <1>0
  <2> QED BY <2>1, <2>2
<1> HIDE DEF A
<1> QED BY <1>4, <1>5, InitIsTold DEF f, N

-----------------------------------------------------------------------------
(* The daemon's handlers *)

DaemonType ==
    [head : Heads, needs_recheck : BOOLEAN, pend : ArraysType, unknown : SUBSET Txs,
     gen : BOOLEAN, updates : Seq(Update), woken : BOOLEAN]

(* What a handler makes of the daemon: the generator it believes in, if it *)
(* still runs, gets from its working block to d.pend by what is in the     *)
(* pipe and what is queued; a writer that is awake has something to write. *)
Keeps(d) ==
    /\ d \in DaemonType
    /\ Orderly(d.pend) /\ Roomy(d.pend)
    /\ d.gen => gen
    /\ d.gen /\ child \in Alive => Follows(trans_hashes, pipe \o d.updates, d.pend)
    /\ d.gen /\ (d.woken \/ writer = "ready") => d.updates # <<>>

(* What is not about the pending transactions or the queue. *)
LEMMA KeepsSame ==
    ASSUME NEW d, Keeps(d), NEW e \in DaemonType,
           e.pend = d.pend, e.updates = d.updates, e.gen = d.gen, e.woken = d.woken
    PROVE  Keeps(e)
BY DEF Keeps

(* A generator that was given up. *)
LEMMA KeepsGone ==
    ASSUME NEW e \in DaemonType, ~e.gen, Orderly(e.pend), Roomy(e.pend) PROVE Keeps(e)
BY DEF Keeps

LEMMA PendingAre ==
    ASSUME NEW a \in ArraysType
    PROVE  /\ PendingIn(a) \in SUBSET Txs
           /\ \A t \in Txs, s \in Shards : t \notin PendingIn(a) => Absent(a[s], t)
           /\ PendingIn(a) = {} => a = NoTxs
<1>1. ASSUME NEW s \in Shards
      PROVE a[s] \in Seq(Entry) /\ Len(a[s]) \in Nat /\ Range(a[s]) = {a[s][i] : i \in 1 .. Len(a[s])}
  <2>1. a[s] \in Seq(Entry)
    BY DEF ArraysType
  <2> QED BY <2>1, LenProperties, RangeEquality
<1>2. \A s \in Shards : \A i \in 1 .. Len(a[s]) : a[s][i] \in Entry /\ a[s][i].tx \in PendingIn(a)
  <2> SUFFICES ASSUME NEW s \in Shards, NEW i \in 1 .. Len(a[s])
               PROVE  a[s][i] \in Entry /\ a[s][i].tx \in PendingIn(a)
    OBVIOUS
  <2>1. a[s][i] \in Entry
    BY <1>1, ElementOfSeq
  <2>2. a[s][i] \in UNION {Range(a[r]) : r \in Shards}
    BY <1>1
  <2> QED BY <2>1, <2>2 DEF PendingIn
<1>3. PendingIn(a) \in SUBSET Txs
  <2>1. ASSUME NEW e \in UNION {Range(a[s]) : s \in Shards} PROVE e.tx \in Txs
    <3>1. PICK s \in Shards : e \in Range(a[s])
      OBVIOUS
    <3>2. PICK i \in 1 .. Len(a[s]) : e = a[s][i]
      BY <1>1, <3>1
    <3> QED BY <1>2, <3>2 DEF Entry
  <2> QED BY <2>1 DEF PendingIn
<1>4. \A t \in Txs, s \in Shards : t \notin PendingIn(a) => Absent(a[s], t)
  BY <1>2 DEF Absent
<1>5. ASSUME PendingIn(a) = {} PROVE a = NoTxs
  <2>1. ASSUME NEW s \in Shards PROVE a[s] = <<>>
    <3>1. 1 .. Len(a[s]) = {}
      BY <1>2, <1>5
    <3>2. Len(a[s]) = 0
      BY <1>1, <3>1
    <3> QED BY <1>1, <3>2, EmptySeq
  <2>2. a = [s \in Shards |-> a[s]]
    BY DEF ArraysType
  <2> QED BY <2>1, <2>2 DEF NoTxs
<1> QED BY <1>3, <1>4, <1>5

LEMMA EmptyFine == NoTxs \in ArraysType /\ Orderly(NoTxs) /\ Roomy(NoTxs)
<1>1. MaxPending \in Nat
  BY GeneratorAssumption
<1>2. Len(<<>>) = 0 /\ 1 .. 0 = {}
  OBVIOUS
<1> QED BY <1>1, <1>2 DEF NoTxs, ArraysType, Orderly, Roomy, InTxOrder

(* A transaction is put in its place, and the generator told where. *)
LEMMA InsertKeeps ==
    ASSUME pipe \in Seq(Update), NEW d, Keeps(d), NEW t \in Txs, t \notin PendingIn(d.pend)
    PROVE  Keeps(insert_pending_tx(d, t))
<1> DEFINE s == ShardOf[t]
           pos == find_pending_in_arr(d.pend[s], t)
           e == [tx |-> t, refs |-> d.head]
           r == InsertAt(d.pend[s], pos + 1, e)
           b == [d EXCEPT !.pend[s] = r]
           u == [shard |-> s, off |-> pos, entry |-> b.pend[s][pos + 1]]
           c == [b EXCEPT !.updates = Append(@, u), !.woken = TRUE]
<1>1. /\ d \in DaemonType /\ Orderly(d.pend) /\ Roomy(d.pend) /\ (d.gen => gen)
      /\ d.gen /\ child \in Alive => Follows(trans_hashes, pipe \o d.updates, d.pend)
  BY DEF Keeps
<1>2. s \in Shards
  BY GeneratorAssumption
<1>3. /\ d.pend \in ArraysType /\ d.pend[s] \in Seq(Entry) /\ Len(d.pend[s]) \in Nat
      /\ d.head \in Heads /\ d.updates \in Seq(Update) /\ d.unknown \in SUBSET Txs /\ d.gen \in BOOLEAN
  <2> HIDE DEF s
  <2> QED BY <1>1, <1>2, LenProperties DEF DaemonType, ArraysType
<1>4. e \in Entry /\ e.tx = t
  BY <1>3 DEF Entry
<1>5. insert_pending_tx(d, t) = IF Len(d.pend[s]) = MaxPending
                                THEN [d EXCEPT !.unknown = @ \cup {t}]
                                ELSE IF b.gen THEN c ELSE b
  BY DEF insert_pending_tx, tell_generator_new_pending
<1>6. CASE Len(d.pend[s]) = MaxPending
  <2> DEFINE x == [d EXCEPT !.unknown = @ \cup {t}]
  <2>1. x \in DaemonType /\ x.pend = d.pend /\ x.updates = d.updates /\ x.gen = d.gen /\ x.woken = d.woken
    BY <1>1 DEF DaemonType
  <2>2. Keeps(x)
    <3> HIDE DEF x
    <3> QED BY <2>1, KeepsSame
  <2>3. insert_pending_tx(d, t) = x
    BY <1>5, <1>6
  <2> HIDE DEF x
  <2> QED BY <2>2, <2>3
<1>7. CASE Len(d.pend[s]) # MaxPending
  <2>1. /\ pos \in 0 .. Len(d.pend[s]) /\ r \in Seq(Entry)
        /\ IsInserted(r, d.pend[s], pos, e) /\ InTxOrder(r)
    <3>1. InTxOrder(d.pend[s]) /\ Absent(d.pend[s], t)
      <4> HIDE DEF s
      <4> QED BY <1>1, <1>2, <1>3, PendingAre DEF Orderly
    <3> HIDE DEF s, e
    <3>2. /\ find_pending_in_arr(d.pend[s], e.tx) \in 0 .. Len(d.pend[s])
          /\ InsertAt(d.pend[s], find_pending_in_arr(d.pend[s], e.tx) + 1, e) \in Seq(Entry)
          /\ IsInserted(InsertAt(d.pend[s], find_pending_in_arr(d.pend[s], e.tx) + 1, e),
                        d.pend[s], find_pending_in_arr(d.pend[s], e.tx), e)
          /\ InTxOrder(InsertAt(d.pend[s], find_pending_in_arr(d.pend[s], e.tx) + 1, e))
      BY <1>3, <1>4, <3>1, OrderKept
    <3> QED BY <1>4, <3>2, Zenon
  <2> HIDE DEF s, pos, e, r
  <2>2. Len(r) = Len(d.pend[s]) + 1 /\ r[pos + 1] = e
    BY <2>1 DEF IsInserted
  <2>3. Len(r) <= MaxPending
    <3>1. Len(d.pend[s]) <= MaxPending
      BY <1>1, <1>2 DEF Roomy
    <3>2. MaxPending \in Nat
      BY GeneratorAssumption
    <3> QED BY <1>3, <1>7, <2>2, <3>1, <3>2
  <2>4. /\ b \in DaemonType /\ b.pend = [d.pend EXCEPT ![s] = r] /\ b.pend \in ArraysType
        /\ b.pend[s] = r /\ (\A x \in Shards : x # s => b.pend[x] = d.pend[x])
        /\ b.gen = d.gen /\ b.updates = d.updates
    <3> DEFINE p == [d.pend EXCEPT ![s] = r]
    <3>1. p \in ArraysType /\ p[s] = r /\ \A x \in Shards : x # s => p[x] = d.pend[x]
      BY <1>2, <1>3, <2>1 DEF ArraysType
    <3>2. b = [d EXCEPT !.pend = p]
      BY <1>1 DEF DaemonType
    <3> HIDE DEF p
    <3>3. /\ [d EXCEPT !.pend = p] \in DaemonType
          /\ [d EXCEPT !.pend = p].pend = p
          /\ [d EXCEPT !.pend = p].gen = d.gen
          /\ [d EXCEPT !.pend = p].updates = d.updates
      BY <1>1, <3>1 DEF DaemonType
    <3> HIDE DEF b
    <3> QED BY <3>1, <3>2, <3>3 DEF p
  <2> HIDE DEF b
  <2>5. Orderly(b.pend) /\ Roomy(b.pend)
    BY <1>1, <2>1, <2>3, <2>4 DEF Orderly, Roomy
  <2>6. u \in Update /\ u = [shard |-> s, off |-> pos, entry |-> e]
    BY <1>2, <1>3, <1>4, <2>1, <2>2, <2>4 DEF Update
  <2>7. /\ c \in DaemonType /\ c.pend = b.pend /\ c.gen = b.gen /\ c.updates = Append(b.updates, u)
        /\ c.updates # <<>>
    <3> HIDE DEF u
    <3> DEFINE q == b.updates
    <3>5. q \in Seq(Update)
      BY <1>3, <2>4
    <3> HIDE DEF q
    <3>6. Append(q, u) \in Seq(Update) /\ Append(q, u) # <<>>
      BY <2>6, <3>5, AppendProperties
    <3>1. Append(b.updates, u) \in Seq(Update)
      BY <3>6 DEF q
    <3>0. Append(b.updates, u) # <<>>
      BY <3>6 DEF q
    <3> DEFINE v == Append(b.updates, u)
    <3> HIDE DEF v
    <3>2. c = [b EXCEPT !.updates = v, !.woken = TRUE]
      BY DEF v
    <3> HIDE DEF c
    <3>3. v \in Seq(Update)
      BY <3>1 DEF v
    <3>4. c \in DaemonType /\ c.pend = b.pend /\ c.gen = b.gen /\ c.updates = v
      BY <2>4, <3>2, <3>3 DEF DaemonType
    <3> QED BY <3>0, <3>4 DEF v
  <2>8. CASE ~b.gen
    <3>1. insert_pending_tx(d, t) = b
      BY <1>5, <1>7, <2>8
    <3> QED BY <2>4, <2>5, <2>8, <3>1, KeepsGone
  <2>9. CASE b.gen
    <3>1. insert_pending_tx(d, t) = c
      BY <1>5, <1>7, <2>9
    <3> HIDE DEF c, u
    <3>2. ASSUME child \in Alive PROVE Follows(trans_hashes, pipe \o c.updates, c.pend)
      <4>1. Follows(trans_hashes, pipe \o d.updates, d.pend)
        BY <1>1, <2>4, <2>9, <3>2
      <4>2. u.shard = s /\ u.off = pos /\ u.entry = e
        BY <2>6
      <4>3. u.off <= Len(d.pend[u.shard])
        BY <2>1, <1>3, <4>2
      <4>4. Follows(trans_hashes, Append(pipe \o d.updates, u), PutAt(d.pend, u))
        BY <2>6, <4>1, <4>3, FollowsMore
      <4>5. Append(pipe \o d.updates, u) = pipe \o Append(d.updates, u)
        <5> DEFINE q == d.updates
        <5>1. q \in Seq(Update)
          BY <1>3
        <5> HIDE DEF q
        <5>2. <<u>> \in Seq(Update) /\ pipe \o q \in Seq(Update)
          BY <2>6, <5>1, ConcatProperties
        <5>3. Append(pipe \o q, u) = (pipe \o q) \o <<u>>
          BY <2>6, <5>2, AppendIsConcat
        <5>4. Append(q, u) = q \o <<u>>
          BY <2>6, <5>1, AppendIsConcat
        <5>5. (pipe \o q) \o <<u>> = pipe \o (q \o <<u>>)
          BY <5>1, <5>2, ConcatAssociative
        <5>6. Append(pipe \o q, u) = pipe \o Append(q, u)
          BY <5>3, <5>4, <5>5, Zenon
        <5> QED BY <5>6 DEF q
      <4>6. PutAt(d.pend, u) = [d.pend EXCEPT ![s] = r]
        <5>1. PutAt(d.pend, u) = [d.pend EXCEPT ![u.shard] = InsertAt(d.pend[u.shard], u.off + 1, u.entry)]
          BY DEF PutAt
        <5>2. InsertAt(d.pend[s], pos + 1, e) = r
          BY DEF r
        <5> QED BY <4>2, <5>1, <5>2, Zenon
      <4>7. c.updates = Append(d.updates, u) /\ c.pend = [d.pend EXCEPT ![s] = r]
        BY <2>4, <2>7
      <4> QED BY <4>4, <4>5, <4>6, <4>7, Zenon
    <3>3. Keeps(c)
      BY <1>1, <2>4, <2>5, <2>7, <3>2 DEF Keeps
    <3> QED BY <3>1, <3>3
  <2> QED BY <2>8, <2>9
<1> QED BY <1>6, <1>7

LEMMA AddKeeps ==
    ASSUME pipe \in Seq(Update), NEW d, Keeps(d), NEW t \in Txs, NEW v \in Verdicts
    PROVE  Keeps(add_pending_tx(d, t, v))
<1>1. CASE t \in PendingIn(d.pend) \cup d.unknown
  BY <1>1 DEF add_pending_tx
<1>2. CASE t \notin PendingIn(d.pend) \cup d.unknown
  <2>1. v = "ok" \/ v = "unknown" \/ v = "refused"
    BY DEF Verdicts
  <2>2. CASE v = "ok"
    <3>1. add_pending_tx(d, t, v) = insert_pending_tx(d, t)
      BY <1>2, <2>2 DEF add_pending_tx
    <3> QED BY <1>2, <3>1, InsertKeeps
  <2>3. CASE v = "unknown"
    <3> DEFINE x == [d EXCEPT !.unknown = @ \cup {t}]
    <3>1. add_pending_tx(d, t, v) = x
      BY <1>2, <2>3 DEF add_pending_tx
    <3>2. x \in DaemonType /\ x.pend = d.pend /\ x.updates = d.updates /\ x.gen = d.gen /\ x.woken = d.woken
      BY DEF Keeps, DaemonType
    <3> HIDE DEF x
    <3> QED BY <3>1, <3>2, KeepsSame
  <2>4. CASE v = "refused"
    BY <1>2, <2>4 DEF add_pending_tx
  <2> QED BY <2>1, <2>2, <2>3, <2>4
<1> QED BY <1>1, <1>2

LEMMA RemoveKeeps ==
    ASSUME NEW d, Keeps(d), NEW t \in Txs
    PROVE  Keeps(remove_pending_tx(d, t))
<1> DEFINE s == ShardOf[t]
           pos == find_pending_in_arr(d.pend[s], t)
           r == RemoveAt(d.pend[s], pos + 1)
           p == [d.pend EXCEPT ![s] = r]
           x == [d EXCEPT !.pend = p, !.gen = FALSE]
<1>1. d \in DaemonType /\ Orderly(d.pend) /\ Roomy(d.pend)
  BY DEF Keeps
<1>2. s \in Shards
  BY GeneratorAssumption
<1>3. d.pend \in ArraysType /\ d.pend[s] \in Seq(Entry) /\ Len(d.pend[s]) \in Nat
  <2> HIDE DEF s
  <2> QED BY <1>1, <1>2, LenProperties DEF DaemonType, ArraysType
<1> HIDE DEF s
<1>4. pos \in 0 .. Len(d.pend[s])
  BY <1>3, Found
<1> HIDE DEF pos
<1>5. r \in Seq(Entry) /\ Len(r) <= Len(d.pend[s])
  BY <1>3, <1>4, Removed
<1>6. InTxOrder(r)
  BY <1>1, <1>2, <1>3, <1>4, OrderRemoved DEF Orderly
<1>7. remove_pending_tx(d, t) = x
  <2>1. remove_pending_tx(d, t) = [[d EXCEPT !.pend[s] = r] EXCEPT !.gen = FALSE]
    BY Zenon DEF remove_pending_tx, restart_generating, s, pos
  <2> HIDE DEF r
  <2> QED BY <1>1, <2>1 DEF DaemonType
<1>8. Len(r) <= MaxPending
  <2>1. Len(d.pend[s]) <= MaxPending /\ MaxPending \in Nat
    BY <1>1, <1>2, GeneratorAssumption DEF Roomy
  <2>2. Len(r) \in Nat
    BY <1>5, LenProperties
  <2> QED BY <1>3, <1>5, <2>1, <2>2
<1> HIDE DEF r
<1>9. p \in ArraysType /\ Orderly(p) /\ Roomy(p)
  BY <1>1, <1>2, <1>3, <1>5, <1>6, <1>8 DEF ArraysType, Orderly, Roomy
<1> HIDE DEF p
<1>10. x \in DaemonType /\ ~x.gen /\ x.pend = p
  BY <1>1, <1>9 DEF DaemonType
<1> HIDE DEF x
<1> QED BY <1>7, <1>9, <1>10, KeepsGone

(* The outcomes of a recheck. *)
LEMMA RecheckOutcomes ==
    ASSUME NEW d, d.needs_recheck \in BOOLEAN, NEW e \in recheck_pending_txs(d)
    PROVE  LET txs == PendingIn(d.pend) \cup d.unknown IN
           \/ ~d.needs_recheck /\ e = d
           \/ d.needs_recheck /\ txs = {} /\ e = [d EXCEPT !.needs_recheck = FALSE]
           \/ /\ d.needs_recheck /\ txs # {}
              /\ \E K \in Fitting \cap SUBSET txs, U \in SUBSET txs : e = AddedAgain(d, K, U)
BY DEF recheck_pending_txs

LEMMA RecheckKeeps ==
    ASSUME NEW d, Keeps(d), NEW e \in recheck_pending_txs(d)
    PROVE  Keeps(e)
<1> DEFINE txs == PendingIn(d.pend) \cup d.unknown
<1>0. d \in DaemonType /\ txs \in SUBSET Txs
  <2>1. d \in DaemonType /\ d.pend \in ArraysType /\ d.unknown \in SUBSET Txs
    BY DEF Keeps, DaemonType
  <2> QED BY <2>1, PendingAre
<1>4. d.needs_recheck \in BOOLEAN
  BY <1>0 DEF DaemonType
<1>5. \/ ~d.needs_recheck /\ e = d
      \/ d.needs_recheck /\ txs = {} /\ e = [d EXCEPT !.needs_recheck = FALSE]
      \/ /\ d.needs_recheck /\ txs # {}
         /\ \E K \in Fitting \cap SUBSET txs, U \in SUBSET txs : e = AddedAgain(d, K, U)
  BY <1>4, RecheckOutcomes
<1>1. CASE ~d.needs_recheck
  BY <1>1, <1>5
<1>2. CASE d.needs_recheck /\ txs = {}
  <2> DEFINE x == [d EXCEPT !.needs_recheck = FALSE]
  <2>1. e = x
    BY <1>2, <1>5
  <2>2. x \in DaemonType /\ x.pend = d.pend /\ x.updates = d.updates /\ x.gen = d.gen /\ x.woken = d.woken
    BY <1>0 DEF DaemonType
  <2> HIDE DEF x
  <2> QED BY <2>1, <2>2, KeepsSame
<1>3. CASE d.needs_recheck /\ txs # {}
  <2>1. PICK K \in Fitting \cap SUBSET txs, U \in SUBSET txs : e = AddedAgain(d, K, U)
    <3> HIDE DEF txs
    <3> QED BY <1>3, <1>5
  <2> DEFINE a == Arrays[K][d.head]
             w == U \ K
             m == d.woken \/ (d.gen /\ K # {})
  <2>2. d.head \in Heads /\ d.gen \in BOOLEAN /\ d.woken \in BOOLEAN
    BY <1>0 DEF DaemonType
  <2>3. a \in ArraysType /\ Orderly(a) /\ Roomy(a)
    BY <2>1, <2>2, ArraysRight
  <2>4. w \in SUBSET Txs /\ m \in BOOLEAN
    BY <1>0, <2>1, <2>2
  <2>5. e = [[d EXCEPT !.needs_recheck = FALSE, !.pend = a, !.unknown = w, !.woken = m] EXCEPT !.gen = FALSE]
    BY <2>1, Zenon DEF AddedAgain, restart_generating
  <2> HIDE DEF a, w, m
  <2>6. e \in DaemonType /\ ~e.gen /\ e.pend = a
    BY <1>0, <2>3, <2>4, <2>5 DEF DaemonType
  <2> QED BY <2>3, <2>6, KeepsGone
<1> QED BY <1>1, <1>2, <1>3

LEMMA BlockKeeps ==
    ASSUME NEW d, Keeps(d), NEW T \in SUBSET Txs PROVE Keeps(block_to_pending(d, T))
<1> DEFINE x == [d EXCEPT !.unknown = @ \cup T, !.needs_recheck = @ \/ T # {}]
<1>1. x \in DaemonType /\ x.pend = d.pend /\ x.updates = d.updates /\ x.gen = d.gen /\ x.woken = d.woken
  BY DEF Keeps, DaemonType
<1>2. block_to_pending(d, T) = x
  BY DEF block_to_pending
<1> HIDE DEF x
<1> QED BY <1>1, <1>2, KeepsSame

Known(d, h, T) ==
    [block_to_pending(d, IF h = d.head THEN {} ELSE T) EXCEPT !.needs_recheck = TRUE, !.head = h]

LEMMA ChainKeeps ==
    ASSUME NEW d, Keeps(d), NEW e \in ChainEffects(d) PROVE Keeps(e)
<1>0. d \in DaemonType
  BY DEF Keeps
<1>1. CASE e = d
  BY <1>1
<1>2. CASE e \in put_tx_in_shard(d)
  <2>1. /\ e \in DaemonType /\ e.pend = d.pend /\ e.updates = d.updates /\ e.gen = d.gen /\ e.woken = d.woken
    BY <1>0, <1>2 DEF put_tx_in_shard, DaemonType
  <2> QED BY <2>1, KeepsSame
<1>3. CASE e \in new_longest(d)
  <2>1. /\ e \in DaemonType /\ e.pend = d.pend /\ e.updates = d.updates /\ e.gen = d.gen /\ e.woken = d.woken
    BY <1>0, <1>3 DEF new_longest, DaemonType
  <2> QED BY <2>1, KeepsSame
<1>4. CASE e \in update_known(d)
  <2>0. update_known(d) = {Known(d, h, T) : h \in Heads, T \in SUBSET Txs}
    BY DEF update_known, Known
  <2>1. PICK h \in Heads, T \in SUBSET Txs : e = Known(d, h, T)
    BY <1>4, <2>0
  <2> DEFINE b == block_to_pending(d, IF h = d.head THEN {} ELSE T)
  <2>2. Keeps(b)
    BY BlockKeeps
  <2>3. e = [b EXCEPT !.needs_recheck = TRUE, !.head = h]
    BY <2>1 DEF Known
  <2> HIDE DEF b
  <2>4. /\ e \in DaemonType /\ e.pend = b.pend /\ e.updates = b.updates /\ e.gen = b.gen
        /\ e.woken = b.woken
    BY <2>2, <2>3 DEF Keeps, DaemonType
  <2> QED BY <2>2, <2>4, KeepsSame
<1> QED BY <1>1, <1>2, <1>3, <1>4 DEF ChainEffects

(* A complaint pools all that is pending; if that is anything, the recheck *)
(* at the end of the handler gives the generator up.                       *)
LEMMA ComplaintKeeps ==
    ASSUME NEW d, Keeps(d), NEW c \in publish_complaint(d), NEW e \in recheck_pending_txs(c)
    PROVE  Keeps(e)
<1> DEFINE rechecked == UNION {recheck_pending_txs(block_to_pending(d, T)) : T \in SUBSET Txs}
<1>1. PICK r \in rechecked, h \in Heads : c = Pooled(r, h)
  BY DEF publish_complaint
<1>2. Keeps(r)
  <2>1. PICK T \in SUBSET Txs : r \in recheck_pending_txs(block_to_pending(d, T))
    OBVIOUS
  <2> HIDE DEF rechecked
  <2> QED BY <2>1, BlockKeeps, RecheckKeeps
<1> HIDE DEF rechecked
<1>3. /\ r \in DaemonType /\ r.pend \in ArraysType /\ PendingIn(r.pend) \in SUBSET Txs
      /\ r.unknown \in SUBSET Txs
      /\ (PendingIn(r.pend) = {} => r.pend = NoTxs)
  <2>1. r \in DaemonType /\ r.pend \in ArraysType /\ r.unknown \in SUBSET Txs
    BY <1>2 DEF Keeps, DaemonType
  <2> QED BY <2>1, PendingAre
<1> DEFINE w == r.unknown \cup PendingIn(r.pend)
<1>4. w \in SUBSET Txs
  BY <1>3
<1>5. c = [r EXCEPT !.pend = NoTxs, !.unknown = w, !.needs_recheck = TRUE, !.head = h]
  BY <1>1, Zenon DEF Pooled
<1> HIDE DEF w
<1>6. /\ c \in DaemonType /\ c.pend = NoTxs /\ c.unknown = w /\ c.needs_recheck = TRUE
      /\ c.gen = r.gen /\ c.updates = r.updates /\ c.woken = r.woken
  BY <1>3, <1>4, <1>5, EmptyFine DEF DaemonType
<1>7. CASE w = {}
  <2>1. c.pend = r.pend
    BY <1>3, <1>6, <1>7 DEF w
  <2>2. Keeps(c)
    BY <1>2, <1>6, <2>1, KeepsSame
  <2> QED BY <2>2, RecheckKeeps
<1>8. CASE w # {}
  <2> DEFINE g == [c EXCEPT !.gen = FALSE]
  <2>1. PendingIn(c.pend) \cup c.unknown # {}
    BY <1>6, <1>8
  <2> DEFINE txs == PendingIn(c.pend) \cup c.unknown
  <2>2. txs \in SUBSET Txs
    <3>1. PendingIn(c.pend) \in SUBSET Txs
      BY <1>6, EmptyFine, PendingAre
    <3> QED BY <1>4, <1>6, <3>1
  <2>3. PICK K \in Fitting \cap SUBSET txs, U \in SUBSET txs : e = AddedAgain(c, K, U)
    <3>1. c.needs_recheck
      BY <1>6
    <3>3. c.needs_recheck \in BOOLEAN
      BY <1>6
    <3>2. \/ ~c.needs_recheck /\ e = c
          \/ c.needs_recheck /\ txs = {} /\ e = [c EXCEPT !.needs_recheck = FALSE]
          \/ /\ c.needs_recheck /\ txs # {}
             /\ \E K \in Fitting \cap SUBSET txs, U \in SUBSET txs : e = AddedAgain(c, K, U)
      BY <3>3, RecheckOutcomes
    <3> HIDE DEF txs
    <3> QED BY <2>1, <3>1, <3>2 DEF txs
  <2> DEFINE a == Arrays[K][c.head]
             v == U \ K
             m == c.woken \/ (c.gen /\ K # {})
  <2>4. c.head \in Heads /\ c.gen \in BOOLEAN /\ c.woken \in BOOLEAN
    BY <1>6 DEF DaemonType
  <2>5. a \in ArraysType /\ Orderly(a) /\ Roomy(a)
    BY <2>3, <2>4, ArraysRight
  <2>6. v \in SUBSET Txs /\ m \in BOOLEAN
    BY <2>2, <2>3, <2>4
  <2>7. e = [[c EXCEPT !.needs_recheck = FALSE, !.pend = a, !.unknown = v, !.woken = m] EXCEPT !.gen = FALSE]
    BY <2>3, Zenon DEF AddedAgain, restart_generating
  <2> HIDE DEF a, v, m
  <2>8. e \in DaemonType /\ ~e.gen /\ e.pend = a
    BY <1>6, <2>5, <2>6, <2>7 DEF DaemonType
  <2> QED BY <2>5, <2>8, KeepsGone
<1> QED BY <1>7, <1>8

-----------------------------------------------------------------------------
(* The pipe, the queue and the working block: the generator the daemon     *)
(* believes in gets from its working block to the daemon's pending         *)
(* transactions by what is in the pipe and what is queued, each update at  *)
(* a place the working block then has.                                     *)
PipeInv ==
    /\ head \in Heads /\ needs_recheck \in BOOLEAN /\ unknown \in SUBSET Txs
    /\ pend \in ArraysType /\ Orderly(pend) /\ Roomy(pend)
    /\ gen \in BOOLEAN
    /\ updates \in Seq(Update) /\ pipe \in Seq(Update)
    /\ trans_hashes \in ArraysType
    /\ child # "aborted"
    /\ ~gen => child \notin Alive
    /\ child \notin Alive => trans_hashes = NoTxs
    /\ gen /\ writer = "ready" => updates # <<>>
    /\ gen /\ child \in Alive => Follows(trans_hashes, pipe \o updates, pend)

LEMMA DaemonKeeps == ASSUME PipeInv PROVE Keeps(Daemon)
<1>1. Daemon \in DaemonType
  BY DEF PipeInv, Daemon, DaemonType
<1>2. /\ Daemon.pend = pend /\ Daemon.gen = gen /\ Daemon.updates = updates
      /\ ~Daemon.woken /\ Daemon.unknown = unknown
  BY DEF Daemon
<1> HIDE DEF Daemon
<1> QED BY <1>1, <1>2 DEF PipeInv, Keeps

LEMMA NothingIsSeq == <<>> \in Seq(Update)
OBVIOUS

LEMMA BecomePipe ==
    ASSUME PipeInv, NEW d, Keeps(d), Become(d) PROVE PipeInv'
<1>1. /\ d \in DaemonType /\ Orderly(d.pend) /\ Roomy(d.pend)
      /\ (d.gen => gen)
      /\ d.gen /\ child \in Alive => Follows(trans_hashes, pipe \o d.updates, d.pend)
      /\ d.gen /\ (d.woken \/ writer = "ready") => d.updates # <<>>
  BY DEF Keeps
<1>2. /\ d.head \in Heads /\ d.needs_recheck \in BOOLEAN /\ d.unknown \in SUBSET Txs
      /\ d.pend \in ArraysType /\ d.gen \in BOOLEAN /\ d.updates \in Seq(Update)
  BY <1>1 DEF DaemonType
<1>3. /\ head' = d.head /\ needs_recheck' = d.needs_recheck /\ unknown' = d.unknown
      /\ pend' = d.pend /\ gen' = d.gen
  BY DEF Become
<1>4. CASE d.gen
  <2>1. UNCHANGED <<child, pipe, trans_hashes>> /\ updates' = d.updates
    BY <1>4 DEF Become, Killed
  <2>2. gen /\ (writer' = "ready" => d.woken \/ writer = "ready")
    BY <1>1, <1>4 DEF Become
  <2> QED BY <1>1, <1>2, <1>3, <1>4, <2>1, <2>2 DEF PipeInv
<1>5. CASE ~d.gen
  <2>1. updates' = <<>>
    BY <1>5 DEF Become
  <2>2. CASE gen /\ child \in Alive
    <3>1. child' = "killed" /\ pipe' = <<>> /\ trans_hashes' = NoTxs
      BY <1>5, <2>2 DEF Become, Killed, Ends
    <3>2. child' \notin Alive /\ child' # "aborted"
      BY <3>1 DEF Alive
    <3> QED BY <1>1, <1>2, <1>3, <1>5, <2>1, <3>1, <3>2, EmptyFine, NothingIsSeq DEF PipeInv
  <2>3. CASE ~(gen /\ child \in Alive)
    <3>1. UNCHANGED <<child, pipe, trans_hashes>>
      BY <2>3 DEF Become, Killed
    <3>2. child \notin Alive
      BY <2>3 DEF PipeInv
    <3> QED BY <1>1, <1>2, <1>3, <1>5, <2>1, <3>1, <3>2, NothingIsSeq DEF PipeInv
  <2> QED BY <2>2, <2>3
<1> QED BY <1>2, <1>4, <1>5

(* A handler that ends with recheck_pending_txs(). *)
LEMMA RecheckedKeeps ==
    ASSUME NEW D, \A d \in D : Keeps(d), NEW e \in Rechecked(D) PROVE Keeps(e)
<1>1. PICK d \in D : e \in recheck_pending_txs(d)
  BY DEF Rechecked
<1> QED BY <1>1, RecheckKeeps

LEMMA PacketPipe == ASSUME PipeInv, pkt_in PROVE PipeInv'
<1>1. PICK d \in Rechecked(ChainEffects(Daemon) \cup publish_complaint(Daemon)) : Become(d)
  BY DEF pkt_in
<1>2. Keeps(Daemon)
  BY DaemonKeeps
<1>3. PICK c \in ChainEffects(Daemon) \cup publish_complaint(Daemon) : d \in recheck_pending_txs(c)
  BY DEF Rechecked
<1> HIDE DEF Daemon
<1>4. Keeps(d)
  <2>1. CASE c \in ChainEffects(Daemon)
    <3>1. Keeps(c)
      BY <1>2, <2>1, ChainKeeps
    <3> QED BY <1>3, <3>1, RecheckKeeps
  <2>2. CASE c \in publish_complaint(Daemon)
    BY <1>2, <1>3, <2>2, ComplaintKeeps
  <2> QED BY <2>1, <2>2
<1> QED BY <1>1, <1>4, BecomePipe

LEMMA TxPipe ==
    ASSUME PipeInv, NEW t \in Txs, recv_tx(t) \/ sendrawtransaction(t) \/ drop_pending_tx(t)
    PROVE  PipeInv'
<1>1. Keeps(Daemon) /\ pipe \in Seq(Update)
  BY DaemonKeeps DEF PipeInv
<1>2. CASE recv_tx(t)
  <2> DEFINE added == {add_pending_tx(Daemon, t, v) : v \in Verdicts}
  <2>1. PICK d \in Rechecked(added \cup UNION {put_tx_in_shard(a) : a \in added}) : Become(d)
    BY <1>2 DEF recv_tx
  <2>2. \A a \in added : Keeps(a)
    BY <1>1, AddKeeps
  <2> HIDE DEF added
  <2>3. PICK c \in added \cup UNION {put_tx_in_shard(a) : a \in added} : d \in recheck_pending_txs(c)
    BY DEF Rechecked
  <2>4. Keeps(c)
    <3>1. CASE c \in added
      BY <2>2, <3>1
    <3>2. ASSUME NEW a \in added, c \in put_tx_in_shard(a) PROVE Keeps(c)
      <4>1. c \in ChainEffects(a)
        BY <3>2 DEF ChainEffects
      <4> QED BY <2>2, <4>1, ChainKeeps
    <3> QED BY <3>1, <3>2
  <2>5. Keeps(d)
    BY <2>3, <2>4, RecheckKeeps
  <2> QED BY <2>1, <2>5, BecomePipe
<1>3. CASE sendrawtransaction(t)
  <2>1. PICK v \in Verdicts : Become(add_pending_tx(Daemon, t, v))
    BY <1>3 DEF sendrawtransaction
  <2>2. Keeps(add_pending_tx(Daemon, t, v))
    BY <1>1, AddKeeps
  <2> QED BY <2>1, <2>2, BecomePipe
<1>4. CASE drop_pending_tx(t)
  <2> DEFINE x == [Daemon EXCEPT !.unknown = @ \ {t}]
             c == IF t \in PendingIn(pend) THEN remove_pending_tx(Daemon, t) ELSE x
  <2>1. PICK d \in recheck_pending_txs(c) : Become(d)
    BY <1>4 DEF drop_pending_tx
  <2>2. Keeps(remove_pending_tx(Daemon, t))
    BY <1>1, RemoveKeeps
  <2>3. Keeps(x)
    <3>1. /\ x \in DaemonType /\ x.pend = Daemon.pend /\ x.updates = Daemon.updates
          /\ x.gen = Daemon.gen /\ x.woken = Daemon.woken
      <4> HIDE DEF Daemon
      <4> QED BY <1>1 DEF Keeps, DaemonType
    <3> HIDE DEF x, Daemon
    <3> QED BY <1>1, <3>1, KeepsSame
  <2> HIDE DEF x
  <2>4. Keeps(c)
    BY <2>2, <2>3
  <2> HIDE DEF c
  <2>5. Keeps(d)
    BY <2>4, RecheckKeeps
  <2> QED BY <2>1, <2>5, BecomePipe
<1> QED BY <1>2, <1>3, <1>4

LEMMA FirstThenRest ==
    ASSUME NEW S, NEW q \in Seq(S), q # <<>>
    PROVE  Head(q) \in S /\ Tail(q) \in Seq(S) /\ q = <<Head(q)>> \o Tail(q)
<1> DEFINE u == Head(q)
           r == Tail(q)
<1>1. u \in S /\ r \in Seq(S) /\ u = q[1] /\ <<u>> \in Seq(S)
  BY HeadTailProperties
<1>2. /\ Len(q) \in Nat /\ Len(q) > 0 /\ Len(r) = Len(q) - 1
      /\ \A i \in 1 .. Len(r) : r[i] = q[i + 1]
  BY HeadTailProperties, EmptySeq, LenProperties
<1> HIDE DEF u, r
<1>3. <<u>> \o r \in Seq(S) /\ Len(<<u>> \o r) = Len(q)
  BY <1>1, <1>2, ConcatProperties
<1>4. ASSUME NEW i \in 1 .. Len(q) PROVE q[i] = (<<u>> \o r)[i]
  <2>1. (<<u>> \o r)[i] = IF i <= 1 THEN <<u>>[i] ELSE r[i - 1]
    BY <1>1, <1>3, ConcatProperties
  <2>2. CASE i = 1
    BY <1>1, <2>1, <2>2
  <2>3. CASE i # 1
    <3>1. i - 1 \in 1 .. Len(r) /\ (i - 1) + 1 = i
      BY <1>2, <2>3
    <3> QED BY <1>2, <2>1, <2>3, <3>1
  <2> QED BY <2>2, <2>3
<1>5. q = <<u>> \o r
  BY <1>3, <1>4, SeqEqual
<1> QED BY <1>1, <1>5 DEF u, r

LEMMA FirstOfMore ==
    ASSUME NEW S, NEW u \in S, NEW r \in Seq(S)
    PROVE  /\ <<u>> \o r \in Seq(S) /\ <<u>> \o r # <<>>
           /\ Head(<<u>> \o r) = u /\ Tail(<<u>> \o r) = r
<1> DEFINE q == <<u>> \o r
<1>1. <<u>> \in Seq(S) /\ Len(r) \in Nat
  BY LenProperties
<1>2. /\ q \in Seq(S) /\ Len(q) = Len(r) + 1
      /\ \A i \in 1 .. Len(q) : q[i] = IF i <= 1 THEN <<u>>[i] ELSE r[i - 1]
  BY <1>1, ConcatProperties
<1> HIDE DEF q
<1>3. q # <<>>
  BY <1>1, <1>2, EmptySeq
<1>4. q[1] = u
  BY <1>1, <1>2
<1>5. Tail(q) \in Seq(S) /\ Len(Tail(q)) = Len(r) /\ Head(q) = q[1]
  BY <1>1, <1>2, <1>3, HeadTailProperties
<1>6. ASSUME NEW i \in 1 .. Len(Tail(q)) PROVE Tail(q)[i] = r[i]
  <2>1. Tail(q)[i] = q[i + 1]
    BY <1>2, <1>3, HeadTailProperties
  <2>2. i + 1 \in 1 .. Len(q) /\ ~(i + 1 <= 1) /\ (i + 1) - 1 = i
    BY <1>1, <1>2, <1>5
  <2> QED BY <1>2, <2>1, <2>2
<1>7. Tail(q) = r
  BY <1>5, <1>6, SeqEqual
<1> QED BY <1>2, <1>3, <1>4, <1>5, <1>7 DEF q

(* An update that goes from the queue to the pipe stays on its way. *)
LEMMA StillOnItsWay ==
    ASSUME NEW p \in Seq(Update), NEW q \in Seq(Update), q # <<>>
    PROVE  /\ Append(p, Head(q)) \in Seq(Update) /\ Tail(q) \in Seq(Update)
           /\ Append(p, Head(q)) \o Tail(q) = p \o q
<1> DEFINE u == Head(q)
           r == Tail(q)
<1>1. u \in Update /\ r \in Seq(Update) /\ q = <<u>> \o r
  BY FirstThenRest
<1> HIDE DEF u, r
<1>2. <<u>> \in Seq(Update)
  BY <1>1
<1>4. Append(p, u) \in Seq(Update) /\ Append(p, u) = p \o <<u>>
  BY <1>1, AppendProperties, AppendIsConcat
<1>5. (p \o <<u>>) \o r = p \o (<<u>> \o r)
  BY <1>1, <1>2, ConcatAssociative
<1>6. Append(p, u) \o r = p \o q
  BY <1>1, <1>4, <1>5, Zenon
<1> QED BY <1>1, <1>4, <1>6 DEF u, r

LEMMA SendPipe == ASSUME PipeInv, send_go_byte \/ do_send_tx PROVE PipeInv'
<1>1. CASE send_go_byte
  <2>1. UNCHANGED <<head, needs_recheck, pend, unknown, gen, updates, child, pipe, trans_hashes>>
    BY <1>1 DEF send_go_byte, child_vars
  <2>2. writer' = "ready" => updates # <<>>
    BY <1>1 DEF send_go_byte, AfterWrite
  <2> QED BY <2>1, <2>2 DEF PipeInv
<1>2. CASE do_send_tx
  <2>1. /\ UNCHANGED <<head, needs_recheck, pend, unknown, gen, child, trans_hashes>>
        /\ pipe' = Append(pipe, Head(updates)) /\ updates' = Tail(updates)
        /\ writer = "ready" /\ child \in Alive
        /\ (writer' = "ready" => updates' # <<>>)
    BY <1>2 DEF do_send_tx, AfterWrite
  <2>2. gen /\ updates # <<>> /\ Follows(trans_hashes, pipe \o updates, pend)
    BY <2>1 DEF PipeInv
  <2>3. pipe' \in Seq(Update) /\ updates' \in Seq(Update) /\ pipe' \o updates' = pipe \o updates
    BY <2>1, <2>2, StillOnItsWay DEF PipeInv
  <2>4. Follows(trans_hashes', pipe' \o updates', pend')
    <3>1. trans_hashes' = trans_hashes /\ pend' = pend
      BY <2>1
    <3> QED BY <2>2, <2>3, <3>1
  <2> QED BY <2>1, <2>2, <2>3, <2>4 DEF PipeInv
<1> QED BY <1>1, <1>2

LEMMA AnswerPipe == ASSUME PipeInv, got_shard PROVE PipeInv'
<1>1. CASE AllRead(shards_read')
  <2>1. PICK d \in recv_block_from_generator(Daemon) : Become(d)
    BY <1>1 DEF got_shard
  <2>2. Keeps(Daemon)
    BY DaemonKeeps
  <2> HIDE DEF Daemon
  <2>3. Keeps(d)
    <3>1. CASE d = Daemon
      BY <2>2, <3>1
    <3>2. CASE d \in Rechecked(ChainEffects(Daemon))
      <4>1. \A c \in ChainEffects(Daemon) : Keeps(c)
        BY <2>2, ChainKeeps
      <4> QED BY <3>2, <4>1, RecheckedKeeps
    <3> QED BY <3>1, <3>2 DEF recv_block_from_generator
  <2> QED BY <2>1, <2>3, BecomePipe
<1>2. CASE ~AllRead(shards_read')
  <2>1. UNCHANGED <<daemon_vars, child, pipe, trans_hashes>>
    BY <1>2 DEF got_shard
  <2> QED BY <2>1 DEF PipeInv, daemon_vars
<1> QED BY <1>1, <1>2

(* A new generator is told of everything that is pending. *)
LEMMA ReapPipe == ASSUME PipeInv, reap_generator PROVE PipeInv'
<1>1. CASE EndedWell(child)
  <2>1. start_generating
    BY <1>1 DEF reap_generator
  <2>2. /\ UNCHANGED <<head, needs_recheck, pend, unknown>>
        /\ gen' = TRUE /\ updates' = init_updates(pend) /\ writer' = "setup"
        /\ child' = "starting" /\ pipe' = <<>> /\ trans_hashes' = NoTxs
    BY <2>1 DEF start_generating
  <2>3. Follows(NoTxs, init_updates(pend), pend)
    BY InitFollows DEF PipeInv
  <2>4. init_updates(pend) \in Seq(Update)
    BY <2>3 DEF Follows
  <2>5. pipe' \o updates' = init_updates(pend)
    BY <2>2, <2>4, ConcatEmptySeq
  <2>6. Follows(trans_hashes', pipe' \o updates', pend')
    BY <2>2, <2>3, <2>5, Zenon
  <2>7. child' # "aborted" /\ child' \in Alive
    BY <2>2 DEF Alive
  <2> QED BY <2>2, <2>4, <2>6, <2>7, EmptyFine, NothingIsSeq DEF PipeInv
<1>2. CASE ~EndedWell(child)
  <2>1. /\ UNCHANGED <<head, needs_recheck, pend, unknown, updates, pipe, trans_hashes>>
        /\ gen' = FALSE /\ child' = "none" /\ child \in Dead
    BY <1>2 DEF reap_generator
  <2>2. child \notin Alive /\ child' \notin Alive /\ child' # "aborted"
    BY <2>1 DEF Alive, Dead
  <2> QED BY <2>1, <2>2 DEF PipeInv
<1> QED BY <1>1, <1>2

(* A generator that ends, but for one of add_tx()'s assertions. *)
LEMMA EndsPipe ==
    ASSUME PipeInv, NEW how \in {"exited", "killed", "failed"}, Ends(how), UNCHANGED daemon_vars
    PROVE  PipeInv'
<1>1. child' = how /\ pipe' = <<>> /\ trans_hashes' = NoTxs
  BY DEF Ends
<1>2. child' \notin Alive /\ child' # "aborted"
  BY <1>1 DEF Alive
<1> QED BY <1>1, <1>2, EmptyFine, NothingIsSeq DEF PipeInv, daemon_vars

(* Both assertions of add_tx() hold: the next update fits. *)
LEMMA AddTxPipe == ASSUME PipeInv, add_tx PROVE PipeInv'
<1> DEFINE u == Head(pipe)
<1>1. child = "reading" /\ pipe # <<>> /\ UNCHANGED <<daemon_vars>>
  BY DEF add_tx, DaemonUnchanged
<1>2. gen /\ child \in Alive /\ Follows(trans_hashes, pipe \o updates, pend)
  BY <1>1 DEF PipeInv, Alive
<1>3. pipe \in Seq(Update) /\ updates \in Seq(Update) /\ Orderly(pend) /\ Roomy(pend)
  BY DEF PipeInv
<1> DEFINE q == pipe \o updates
           r == Tail(pipe)
<1>4. /\ q # <<>> /\ Head(q) = u /\ Tail(q) = r \o updates
      /\ u \in Update /\ r \in Seq(Update)
  <2>1. u \in Update /\ r \in Seq(Update) /\ pipe = <<u>> \o r
    BY <1>1, <1>3, FirstThenRest
  <2> HIDE DEF u, r
  <2>2. <<u>> \in Seq(Update) /\ r \o updates \in Seq(Update)
    BY <1>3, <2>1, ConcatProperties
  <2>3. (<<u>> \o r) \o updates = <<u>> \o (r \o updates)
    BY <1>3, <2>1, <2>2, ConcatAssociative
  <2>4. q = <<u>> \o (r \o updates)
    BY <2>1, <2>3, Zenon
  <2> QED BY <2>1, <2>2, <2>4, FirstOfMore
<1> HIDE DEF q, u, r
<1>5. Len(trans_hashes[u.shard]) < MaxPending /\ u.off <= Len(trans_hashes[u.shard])
  <2>1. Follows(trans_hashes, q, pend)
    BY <1>2 DEF q
  <2> QED BY <1>3, <1>4, <2>1, NextFits
<1>6. trans_hashes' = PutAt(trans_hashes, u) /\ pipe' = r /\ UNCHANGED child
  BY <1>5 DEF add_tx, u, r
<1>7. Follows(PutAt(trans_hashes, u), r \o updates, pend)
  <2>1. Follows(trans_hashes, q, pend)
    BY <1>2 DEF q
  <2> QED BY <1>4, <2>1, FollowsNext
<1>8. updates' = updates /\ pend' = pend
  BY <1>1 DEF daemon_vars
<1>9. Follows(trans_hashes', pipe' \o updates', pend')
  BY <1>6, <1>7, <1>8, Zenon
<1>10. trans_hashes' \in ArraysType
  BY <1>6, <1>7, FollowsTypes
<1> QED BY <1>1, <1>2, <1>4, <1>6, <1>9, <1>10 DEF PipeInv, daemon_vars

LEMMA InitPipe == ASSUME Init PROVE PipeInv
<1>1. Follows(NoTxs, <<>>, NoTxs)
  BY EmptyFine, FollowsNothing
<1>2. <<>> \o <<>> = <<>>
  OBVIOUS
<1>3. Follows(trans_hashes, pipe \o updates, pend)
  <2>1. trans_hashes = NoTxs /\ pipe = <<>> /\ updates = <<>> /\ pend = NoTxs
    BY DEF Init
  <2> QED BY <1>1, <1>2, <2>1, Zenon
<1> QED BY <1>3, EmptyFine, NothingIsSeq DEF Init, PipeInv, Alive

LEMMA NextPipe == PipeInv /\ [Next]_vars => PipeInv'
<1> SUFFICES ASSUME PipeInv, [Next]_vars PROVE PipeInv'
  OBVIOUS
<1>1. CASE pkt_in
  BY <1>1, PacketPipe
<1>2. CASE \E t \in Txs : recv_tx(t) \/ sendrawtransaction(t) \/ drop_pending_tx(t)
  BY <1>2, TxPipe
<1>3. CASE send_go_byte \/ do_send_tx
  BY <1>3, SendPipe
<1>4. CASE finish_update \/ finish_answer \/ UNCHANGED vars
  <2>1. UNCHANGED <<daemon_vars, child_vars>>
    BY <1>4 DEF finish_update, finish_answer, vars
  <2> QED BY <2>1 DEF daemon_vars, child_vars, PipeInv
<1>5. CASE got_shard
  BY <1>5, AnswerPipe
<1>6. CASE reap_generator
  BY <1>6, ReapPipe
<1>7. CASE exec_fails
  BY <1>7, EndsPipe DEF exec_fails, DaemonUnchanged
<1>8. CASE main \/ check_input \/ read_txs_done \/ solve_block
  <2>1. /\ child \in Alive /\ child' \in Alive
        /\ UNCHANGED <<daemon_vars, pipe, trans_hashes>>
    BY <1>8 DEF main, check_input, read_txs_done, solve_block, DaemonUnchanged, Alive
  <2>2. child' # "aborted"
    BY <2>1 DEF Alive
  <2> QED BY <2>1, <2>2 DEF daemon_vars, PipeInv
<1>9. CASE add_tx
  BY <1>9, AddTxPipe
<1>10. CASE write_block
  <2>1. UNCHANGED daemon_vars
    BY <1>10 DEF write_block, DaemonUnchanged
  <2>2. CASE reaping
    BY <1>10, <2>1, <2>2, EndsPipe DEF write_block
  <2>3. CASE ~reaping
    BY <1>10, <2>1, <2>3 DEF write_block, daemon_vars, PipeInv
  <2> QED BY <2>2, <2>3
<1>11. CASE exit
  BY <1>11, EndsPipe DEF exit, DaemonUnchanged
<1> QED
  BY <1>1, <1>2, <1>3, <1>4, <1>5, <1>6, <1>7, <1>8, <1>9, <1>10, <1>11 DEF Next

LEMMA PipeHolds == Spec => []PipeInv
<1>1. Init => PipeInv
  BY InitPipe
<1> QED BY <1>1, NextPipe, PTL DEF Spec

(* The generator the daemon believes in works on the daemon's pending      *)
(* transactions, and never on a block out of order, whatever is in the     *)
(* pipe, in the queue, or given up in between.                             *)
THEOREM InStep == Spec => []GeneratorInStep
<1>1. PipeInv => GeneratorInStep
  <2> SUFFICES ASSUME PipeInv PROVE GeneratorInStep
    OBVIOUS
  <2>1. ASSUME gen, child \in Alive PROVE WorkAfter(pipe \o updates) = pend
    <3>1. Follows(trans_hashes, pipe \o updates, pend)
      BY <2>1 DEF PipeInv
    <3> QED BY <3>1, FollowsWork
  <2>2. Orderly(trans_hashes)
    <3>1. CASE child \in Alive
      BY <3>1, FollowsOrder DEF PipeInv
    <3>2. CASE child \notin Alive
      BY <3>2, EmptyFine DEF PipeInv
    <3> QED BY <3>1, <3>2
  <2>3. ASSUME NEW s \in Shards, NEW i \in DOMAIN trans_hashes[s], NEW j \in DOMAIN trans_hashes[s], i < j
        PROVE  trans_hashes[s][i].tx < trans_hashes[s][j].tx
    <3> DEFINE w == trans_hashes[s]
    <3>1. w \in Seq(Entry) /\ InTxOrder(w)
      BY <2>2 DEF PipeInv, ArraysType, Orderly
    <3>2. i \in DOMAIN w /\ j \in DOMAIN w
      BY <2>3
    <3> HIDE DEF w
    <3>3. DOMAIN w = 1 .. Len(w)
      BY <3>1, LenProperties
    <3>4. w[i].tx < w[j].tx
      BY <2>3, <3>1, <3>2, <3>3 DEF InTxOrder
    <3> QED BY <3>4 DEF w
  <2> QED BY <2>1, <2>3 DEF GeneratorInStep, WorkSorted
<1> QED BY <1>1, PipeHolds, PTL

(* No assertion of the generator fails, and none of its writes finds the   *)
(* pipe closed: the daemon never gives up mining for such an end.          *)
THEOREM Survives == Spec => []GeneratorSurvives
<1>1. PipeInv /\ WaitInv => GeneratorSurvives
  BY DEF PipeInv, WaitInv, GeneratorSurvives
<1> QED BY <1>1, PipeHolds, WaitHolds, PTL

-----------------------------------------------------------------------------
(* What the type invariant says of the control state. *)
ControlInv ==
    /\ base \in Heads /\ reaping \in BOOLEAN /\ input \in BOOLEAN
    /\ writer \in {"setup", "ready", "idle"}
    /\ child \in Alive \cup Dead \cup {"none"}
    /\ Len(pipe) <= PipeSize

LEMMA PipeLengths ==
    ASSUME NEW p \in Seq(Update)
    PROVE  /\ Len(p) \in Nat /\ Len(<<>>) = 0
           /\ \A u \in Update : Len(Append(p, u)) = Len(p) + 1
           /\ p # <<>> => Len(Tail(p)) <= Len(p)
<1>1. p # <<>> => Len(Tail(p)) = Len(p) - 1
  BY HeadTailProperties
<1> QED BY <1>1, LenProperties, AppendProperties

LEMMA EmptyPipeFits == Len(<<>>) <= PipeSize
<1>1. PipeSize \in Nat \ {0}
  BY GeneratorAssumption
<1>2. Len(<<>>) = 0
  OBVIOUS
<1> QED BY <1>1, <1>2

LEMMA EndsControl ==
    ASSUME ControlInv, NEW how \in Dead, Ends(how), UNCHANGED <<base, reaping, writer>>
    PROVE  ControlInv'
<1>1. child' = how /\ input' = FALSE /\ Len(pipe') <= PipeSize
  BY EmptyPipeFits DEF Ends
<1> QED BY <1>1 DEF ControlInv

LEMMA BecomeControl ==
    ASSUME ControlInv, NEW d, Become(d), UNCHANGED base, reaping' \in BOOLEAN
    PROVE  ControlInv'
<1>1. writer' \in {"setup", "ready", "idle"}
  BY DEF Become, ControlInv
<1>2. CASE Killed(d)
  <2>1. child' = "killed" /\ input' = FALSE /\ Len(pipe') <= PipeSize
    BY <1>2, EmptyPipeFits DEF Become, Ends
  <2> QED BY <1>1, <2>1 DEF ControlInv, Dead
<1>3. CASE ~Killed(d)
  <2>1. UNCHANGED <<child, input, pipe>>
    BY <1>3 DEF Become
  <2> QED BY <1>1, <2>1 DEF ControlInv
<1> QED BY <1>2, <1>3

LEMMA NextControl == PipeInv /\ ControlInv /\ [Next]_vars => ControlInv'
<1> SUFFICES ASSUME PipeInv, ControlInv, [Next]_vars PROVE ControlInv'
  OBVIOUS
<1>1. CASE pkt_in
  BY <1>1, BecomeControl DEF pkt_in, OthersUnchanged, ControlInv
<1>2. CASE \E t \in Txs : recv_tx(t) \/ sendrawtransaction(t) \/ drop_pending_tx(t)
  <2>1. (\E d : Become(d)) /\ UNCHANGED <<base, reaping>>
    BY <1>2 DEF recv_tx, sendrawtransaction, drop_pending_tx, OthersUnchanged
  <2> QED BY <2>1, BecomeControl DEF ControlInv
<1>3. CASE send_go_byte
  BY <1>3 DEF send_go_byte, AfterWrite, child_vars, ControlInv
<1>4. CASE do_send_tx
  <2>1. updates # <<>> /\ updates \in Seq(Update) /\ pipe \in Seq(Update)
    BY <1>4 DEF do_send_tx, PipeInv, Alive
  <2>2. Head(updates) \in Update
    BY <2>1, HeadTailProperties
  <2>3. pipe' = Append(pipe, Head(updates)) /\ Len(pipe) < PipeSize
    BY <1>4 DEF do_send_tx
  <2>4. Len(pipe') <= PipeSize
    <3>1. Len(pipe) \in Nat /\ Len(pipe') = Len(pipe) + 1 /\ PipeSize \in Nat
      BY <2>1, <2>2, <2>3, PipeLengths, GeneratorAssumption
    <3> QED BY <2>3, <3>1
  <2> QED BY <1>4, <2>4 DEF do_send_tx, AfterWrite, ControlInv
<1>5. CASE finish_update \/ finish_answer \/ UNCHANGED vars
  <2>1. UNCHANGED <<base, input, writer, child, pipe>> /\ reaping' \in BOOLEAN
    BY <1>5 DEF finish_update, finish_answer, vars, daemon_vars, child_vars, ControlInv
  <2> QED BY <2>1 DEF ControlInv
<1>6. CASE got_shard
  <2>1. CASE AllRead(shards_read')
    <3>1. (\E d : Become(d)) /\ UNCHANGED base /\ reaping' = TRUE
      BY <1>6, <2>1 DEF got_shard
    <3> QED BY <3>1, BecomeControl
  <2>2. CASE ~AllRead(shards_read')
    <3>1. UNCHANGED <<base, input, writer, child, pipe, reaping>>
      BY <1>6, <2>2 DEF got_shard, daemon_vars
    <3> QED BY <3>1 DEF ControlInv
  <2> QED BY <2>1, <2>2
<1>7. CASE reap_generator
  <2>1. CASE EndedWell(child)
    <3>1. /\ base' = head /\ writer' = "setup" /\ reaping' = FALSE
          /\ child' = "starting" /\ input' = TRUE /\ Len(pipe') <= PipeSize
      BY <1>7, <2>1, EmptyPipeFits DEF reap_generator, start_generating
    <3>2. head \in Heads
      BY DEF PipeInv
    <3> QED BY <3>1, <3>2 DEF ControlInv, Alive
  <2>2. CASE ~EndedWell(child)
    <3>1. UNCHANGED <<base, input, writer, pipe>> /\ reaping' = FALSE /\ child' = "none"
      BY <1>7, <2>2 DEF reap_generator
    <3> QED BY <3>1 DEF ControlInv
  <2> QED BY <2>1, <2>2
<1>8. CASE exec_fails
  BY <1>8, EndsControl DEF exec_fails, DaemonUnchanged, daemon_vars, Dead
<1>9. CASE main \/ check_input \/ read_txs_done \/ solve_block
  <2>1. /\ UNCHANGED <<base, writer, pipe, reaping>> /\ child' \in Alive
        /\ input' \in {input, FALSE}
    BY <1>9 DEF main, check_input, read_txs_done, solve_block, DaemonUnchanged, daemon_vars, Alive
  <2> QED BY <2>1 DEF ControlInv
<1>10. CASE add_tx
  <2>1. UNCHANGED <<base, writer, reaping>>
    BY <1>10 DEF add_tx, DaemonUnchanged, daemon_vars
  <2>2. CASE Ends("aborted")
    BY <2>1, <2>2, EndsControl DEF Dead
  <2>3. CASE ~Ends("aborted")
    <3>1. UNCHANGED <<child, input>> /\ pipe' = Tail(pipe) /\ pipe # <<>> /\ pipe \in Seq(Update)
      BY <1>10, <2>3 DEF add_tx, PipeInv
    <3>2. Len(pipe') <= PipeSize
      <4>1. Len(pipe) \in Nat /\ Len(pipe') <= Len(pipe)
        BY <3>1, PipeLengths
      <4>2. Len(pipe') \in Nat /\ PipeSize \in Nat
        <5>1. Tail(pipe) \in Seq(Update)
          BY <3>1, HeadTailProperties
        <5> QED BY <3>1, <5>1, LenProperties, GeneratorAssumption
      <4> QED BY <4>1, <4>2 DEF ControlInv
    <3> QED BY <2>1, <3>1, <3>2 DEF ControlInv
  <2> QED BY <2>2, <2>3
<1>11. CASE write_block
  <2>1. UNCHANGED <<base, writer, reaping>>
    BY <1>11 DEF write_block, DaemonUnchanged, daemon_vars
  <2>2. CASE reaping
    <3>1. Ends("failed")
      BY <1>11, <2>2 DEF write_block
    <3> QED BY <2>1, <3>1, EndsControl DEF Dead
  <2>3. CASE ~reaping
    BY <1>11, <2>1, <2>3 DEF write_block, ControlInv
  <2> QED BY <2>2, <2>3
<1>12. CASE exit
  BY <1>12, EndsControl DEF exit, DaemonUnchanged, daemon_vars, Dead
<1> QED
  BY <1>1, <1>2, <1>3, <1>4, <1>5, <1>6, <1>7, <1>8, <1>9, <1>10, <1>11, <1>12 DEF Next

(* Every variable has its type; neither the daemon's arrays nor the        *)
(* generator's block exceed the 255 transactions of a shard, nor the pipe  *)
(* its size.                                                               *)
THEOREM TypeCorrect == Spec => []TypeOK
<1>1. Init => ControlInv
  BY EmptyPipeFits DEF Init, ControlInv, Alive
<1>2. PipeInv /\ WaitInv /\ ControlInv => TypeOK
  <2> SUFFICES ASSUME PipeInv, WaitInv, ControlInv PROVE TypeOK
    OBVIOUS
  <2>1. {needs_recheck, gen, reaping, input} \subseteq BOOLEAN
    BY DEF PipeInv, ControlInv
  <2>2. ASSUME NEW s \in Shards
        PROVE  /\ pend[s] \in Seq(Entry) /\ Len(pend[s]) <= MaxPending
               /\ trans_hashes[s] \in Seq(Entry) /\ Len(trans_hashes[s]) <= MaxPending
    <3>1. pend[s] \in Seq(Entry) /\ trans_hashes[s] \in Seq(Entry)
      BY DEF PipeInv, ArraysType
    <3>2. Len(pend[s]) <= MaxPending
      BY DEF PipeInv, Roomy
    <3>3. CASE child \in Alive
      <4>1. Len(trans_hashes[s]) <= Len(pend[s])
        BY <3>3, FollowsOrder DEF PipeInv
      <4>2. Len(trans_hashes[s]) \in Nat /\ Len(pend[s]) \in Nat /\ MaxPending \in Nat
        BY <3>1, LenProperties, GeneratorAssumption
      <4> QED BY <3>1, <3>2, <4>1, <4>2
    <3>4. CASE child \notin Alive
      <4>1. trans_hashes = NoTxs
        BY <3>4 DEF PipeInv
      <4> QED BY <3>1, <3>2, <4>1, EmptyFine DEF Roomy
    <3> QED BY <3>3, <3>4
  <2>3. shards_read \in 0..written /\ written \in 0..AnswerLen
    <3>1. AnswerLen \in Nat
      BY GeneratorAssumption DEF AnswerLen
    <3> QED BY <3>1 DEF WaitInv
  <2> QED BY <2>1, <2>2, <2>3 DEF TypeOK, PipeInv, ControlInv
<1> QED BY <1>1, <1>2, NextControl, PipeHolds, WaitHolds, PTL DEF Spec
=============================================================================
