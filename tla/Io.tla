--------------------------------- MODULE Io ---------------------------------
(***************************************************************************)
(* The event loop, ccan/io: the table of file descriptors with their       *)
(* connections, the counts it decides by, and do_io_loop(), one callback   *)
(* per step.  A connection is <<fd, side>>; the sides of a descriptor are  *)
(* the halves of a duplex.  Callbacks belong to the program: they may wake *)
(* whoever waits on an object (one per descriptor), open a connection, end *)
(* the loop, and they return the next plan; a finish callback may close    *)
(* another connection, as those of peers and generators do.                *)
(*                                                                         *)
(* One listener is always there.  The program sets no timeouts, memory     *)
(* does not run out, and DEBUG is off.                                     *)
(***************************************************************************)
EXTENDS Integers, Sequences, FiniteSets, SequencesExt

CONSTANT Fds  \* descriptors connections may have

(* There are finitely many, and 0 is the listener's. *)
IoAssumption == IsFiniteSet(Fds) /\ 0 \notin Fds

VARIABLE io

Conns == Fds \X {1, 2}
None == <<0, 0>>
Listener == <<0, 1>>
Gone == [plan |-> "close", duplex |-> None, slot |-> 0]
NewFd == [who |-> Listener, events |-> {"in"}, revents |-> {}]

Other(c) == <<c[1], 3 - c[2]>>
Live(s) == {c \in Conns : s.conn[c].slot > 0}
Plan(s, c) == s.conn[c].plan
Duplex(s, c) == s.conn[c].duplex
Closing(s, c) == Plan(s, c) = "close"  \* plan.next == NULL

(* plan.pollflag & (POLLIN|POLLOUT).  io_always(), io_wait() and io_close() *)
(* have none.                                                               *)
pollflag(p) == CASE p = "read" -> {"in"} [] p = "write" -> {"out"} [] OTHER -> {}

Count(b) == IF b THEN 1 ELSE 0

(* The plans the program gives a side: with a duplex, one side reads and   *)
(* the other writes.                                                       *)
Plans(s, c) ==
    {"wait", "always", "close"} \cup
    (IF Duplex(s, c) = None THEN {"read", "write"}
     ELSE IF c[2] = 1 THEN {"write"} ELSE {"read"})

(* Mutant: the other half's flags are left out. *)
MutPlanChanged(s, c) ==
    LET n == s.conn[c].slot
        events == pollflag(Plan(s, c))
    IN [s EXCEPT
           !.num_waiting = @ - Count(s.fds[n].events # {}) + Count(events # {}),
           !.fds[n].events = events,
           !.num_closing = @ + Count(Closing(s, c)),
           !.some_always = @ \/ Plan(s, c) = "always"]

backend_plan_changed(s, c) ==
    LET n == s.conn[c].slot
        events == pollflag(Plan(s, c)) \cup
                  (IF Duplex(s, c) = None THEN {} ELSE pollflag(Plan(s, Duplex(s, c))))
    IN [s EXCEPT
           !.num_waiting = @ - Count(s.fds[n].events # {}) + Count(events # {}),
           !.fds[n].events = events,
           !.num_closing = @ + Count(Closing(s, c)),
           !.some_always = @ \/ Plan(s, c) = "always"]

set_plan(s, c, p) == backend_plan_changed([s EXCEPT !.conn[c].plan = p], c)

(* io_wake(), backend_wait_changed(): both halves may wait on the object. *)
Wake(s, c) == IF Plan(s, c) = "wait" THEN set_plan(s, c, "always") ELSE s
io_wake(s, k) == Wake(Wake(s, <<k, 1>>), <<k, 2>>)

(* "Don't close if already closing!" *)
io_close_other(s, c) == IF Closing(s, c) THEN s ELSE set_plan(s, c, "close")

(* add_fd(): revents is 0 "in case we're iterating now". *)
io_new_conn(s, k, p) ==
    LET c == <<k, 1>> IN
    [s EXCEPT
        !.conn[c] = [Gone EXCEPT !.plan = p, !.slot = Len(s.fds) + 1],
        !.fds = Append(s.fds, [NewFd EXCEPT !.who = c, !.events = pollflag(p)]),
        !.num_waiting = @ + Count(pollflag(p) # {}),
        !.num_closing = @ + Count(p = "close"),
        !.some_always = @ \/ p = "always"]

(* add_duplex() sets the mask before the old half knows of the new one. *)
io_duplex(s, old, p) ==
    LET c == Other(old)
        t == backend_plan_changed(
               [s EXCEPT !.conn[c] = [s.conn[old] EXCEPT !.plan = p, !.duplex = old]], c)
    IN [t EXCEPT !.conn[old].duplex = c]

Free(s) == {k \in Fds : <<k, 1>> \notin Live(s) /\ <<k, 2>> \notin Live(s)}

(* What a callback may do on the way.  io_connect() gives io_close() when  *)
(* it fails.                                                               *)
Spawned(s, P) == {io_new_conn(s, k, p) : k \in Free(s), p \in P}
Woken(s) == {io_wake(s, k) : k \in Fds \ Free(s)}
Effects(s) ==
    {s} \cup Woken(s) \cup Spawned(s, {"read", "write", "close"})
        \cup {io_duplex(io_new_conn(s, k, "write"), <<k, 1>>, "wait") : k \in Free(s)}

At_slot(f, c, n) == IF c \in Conns THEN [f EXCEPT ![c].slot = n] ELSE f
Moved(s, w, n) ==
    LET f == At_slot(s.conn, w, n)
    IN IF w \in Conns THEN At_slot(f, s.conn[w].duplex, n) ELSE f

(* "Move last one over us." and its duplex too. *)
del_fd(s, n) ==
    LET last == s.fds[Len(s.fds)]
        t == [s EXCEPT !.num_waiting = @ - Count(s.fds[n].events # {})]
    IN IF n = Len(s.fds) THEN [t EXCEPT !.fds = Front(s.fds)]
       ELSE [t EXCEPT !.fds = Front([s.fds EXCEPT ![n] = last]),
                      !.conn = Moved(s, last.who, n)]

(* backend_del_conn() up to the finish callback. *)
backend_del_conn(s, c) ==
    LET d == Duplex(s, c)
        n == s.conn[c].slot
        t == IF d # None
             THEN [s EXCEPT !.fds[n].who = d, !.conn[d].duplex = None]
             ELSE del_fd(s, n)
    IN [t EXCEPT !.conn[c] = Gone, !.num_closing = @ - 1]

(* The callback: it wakes or closes another connection, or opens one (to a *)
(* new generator, or to the process that looks up addresses).              *)
Finished(s, c) ==
    LET t == backend_del_conn(s, c) IN
    {t} \cup Woken(t) \cup Spawned(t, {"read"}) \cup {io_close_other(t, d) : d \in Live(t)}

At(s) == s.fds[s.at]
InLoop(s, where) == s.pc = where /\ s.at <= Len(s.fds)
Leave(s) == [s EXCEPT !.pc = "top", !.at = 0, !.half = 0]
\* revents is not read again before the next poll() sets it
Advance(s) == [s EXCEPT !.at = @ + 1, !.half = 0, !.fds[s.at].revents = {}]

(* One turn of finish_conns().  The index is taken back for each half that *)
(* is gone; below zero it wraps and the loop ends.                         *)
finish_conns ==
    /\ io.num_closing > 0
    /\ InLoop(io, "finish")
    /\ LET c == At(io).who
           d == IF c = Listener THEN None ELSE Duplex(io, c)
           First == IF c # Listener /\ Closing(io, c) THEN Finished(io, c) ELSE {io}
       IN \E s \in First :
            \E t \in IF d # None /\ Closing(s, d) THEN Finished(s, d) ELSE {s} :
                LET gone == Count(c # Listener /\ Closing(io, c))
                            + Count(d # None /\ Closing(s, d))
                    i == io.at - gone + 1
                IN io' = IF i < 1 THEN Leave(t) ELSE [t EXCEPT !.at = i]

finish_conns_end ==
    /\ io.pc = "finish"
    /\ io.num_closing > 0 => io.at > Len(io.fds)
    /\ io' = Leave(io)

(* io_ready(): plan.io fails, has more to do, or is done and the callback  *)
(* gives the next plan.  The flags are cleared before the callback, which  *)
(* may make a duplex.                                                      *)
Ready(s, c) ==
    IF Closing(s, c) THEN {s}
    ELSE LET clear == [s EXCEPT !.conn[c].plan = "none"]
             Done(t) == {set_plan(t, c, p) : p \in Plans(t, c)}
             Duplexed == IF Duplex(s, c) = None /\ c[2] = 1
                         THEN {io_duplex(clear, c, p) : p \in {"read", "wait"}} ELSE {}
         IN (UNION {Done(t) : t \in Effects(clear) \cup Duplexed})
            \cup (IF Plan(s, c) = "always" THEN {} ELSE {s, set_plan(s, c, "close")})
            \cup {[set_plan(clear, c, "close") EXCEPT !.pc = "end"]}  \* io_break()

(* io_loop_return was set. *)
Ended(s) == s.pc = "end"
Then(s, t) == IF Ended(s) THEN s ELSE t

(* One connection of handle_always(): the descriptor's own, then the half  *)
(* it has by then.                                                         *)
handle_always ==
    /\ InLoop(io, "always")
    /\ LET c == At(io).who
           d == IF c = Listener THEN None ELSE Duplex(io, c)
       IN \/ /\ io.half = 0 /\ c # Listener
             /\ IF Plan(io, c) = "always"
                THEN \E s \in Ready(io, c) : io' = Then(s, [s EXCEPT !.half = 1])
                ELSE io' = [io EXCEPT !.half = 1]
          \/ /\ io.half = 1
             /\ IF d # None /\ Plan(io, d) = "always"
                THEN \E s \in Ready(io, d) : io' = Then(s, Advance(s))
                ELSE io' = Advance(io)
          \/ c = Listener /\ io' = Advance(io)

handle_always_end == io.pc = "always" /\ io.at > Len(io.fds) /\ io' = Leave(io)

(* The loop: what is closing first, then what is always ready, then poll(). *)
loop_top ==
    /\ io.pc = "top"
    /\ IF io.num_closing > 0 THEN io' = [io EXCEPT !.pc = "finish", !.at = 1]
       ELSE /\ io.some_always
            /\ io' = [io EXCEPT !.pc = "always", !.at = 1, !.some_always = FALSE]

(* What poll() may report for a descriptor. *)
Reports(f) == (SUBSET f.events) \cup (IF f.events = {} THEN {} ELSE {{"hup"}})

poll ==
    /\ io.pc = "top" /\ io.num_closing = 0 /\ ~io.some_always
    /\ io.num_waiting > 0  \* assert(num_waiting)
    /\ \E rev \in [DOMAIN io.fds -> {{}, {"in"}, {"out"}, {"in", "out"}, {"hup"}}] :
         /\ \A n \in DOMAIN io.fds : rev[n] \in Reports(io.fds[n])
         /\ \E n \in DOMAIN io.fds : rev[n] # {}
         /\ io' = [io EXCEPT !.pc = "poll", !.at = 1,
                     !.fds = [n \in DOMAIN @ |-> [io.fds[n] EXCEPT !.revents = rev[n]]]]

(* poll() fails: the loop ends. *)
poll_error ==
    /\ io.pc = "top" /\ io.num_closing = 0 /\ ~io.some_always
    /\ io' = [io EXCEPT !.pc = "end"]

(* accept_conn(): the listener's init, for peers and for JSON-RPC. *)
accept_conn ==
    /\ InLoop(io, "poll") /\ At(io).who = Listener
    /\ \E s \in IF At(io).revents = {"in"} THEN Effects(io) ELSE {io} :
         io' = Advance(s)

Rest(s, d) == At(s).revents \ pollflag(Plan(s, d))

(* A descriptor that is ready: first the half c->duplex if the event is    *)
(* for it, then, if there is more and it is not closing, c.                *)
poll_ready ==
    /\ InLoop(io, "poll") /\ At(io).who # Listener
    /\ LET c == At(io).who
           d == Duplex(io, c)
           ev == At(io).revents
       IN /\ ev \cap {"in", "out"} # {}
          /\ IF io.half = 0 /\ d # None /\ Rest(io, d) # ev
             THEN \E s \in Ready(io, d) :
                    io' = Then(s, IF Rest(io, d) = {} \/ Closing(s, c) THEN Advance(s)
                                  ELSE [s EXCEPT !.half = 1, !.fds[s.at].revents = Rest(io, d)])
             ELSE \E s \in Ready(io, c) : io' = Then(s, Advance(s))

poll_hup ==
    /\ InLoop(io, "poll") /\ At(io).who # Listener
    /\ At(io).revents = {"hup"}
    /\ LET c == At(io).who
           d == Duplex(io, c)
           s == set_plan(io, c, "close")
       IN io' = Advance(IF d = None THEN s ELSE set_plan(s, d, "close"))

poll_nothing ==
    /\ InLoop(io, "poll") /\ At(io).who # Listener
    /\ At(io).revents = {}
    /\ io' = Advance(io)

poll_end == io.pc = "poll" /\ io.at > Len(io.fds) /\ io' = Leave(io)

IoInit ==
    io = [conn |-> [c \in Conns |-> Gone],
          fds |-> <<NewFd>>,
          num_closing |-> 0, num_waiting |-> 1, some_always |-> FALSE,
          pc |-> "top", at |-> 0, half |-> 0]

IoNext ==
    \/ finish_conns \/ finish_conns_end \/ handle_always \/ handle_always_end
    \/ loop_top \/ accept_conn \/ poll_ready \/ poll_hup \/ poll_nothing \/ poll_end
    \/ poll \/ poll_error
IoSpec == IoInit /\ [][IoNext]_io

-----------------------------------------------------------------------------
(* Properties *)

(* io_ready() is only called for a connection with plan.io: what poll()    *)
(* reported is still wanted when its turn comes, whatever the callbacks    *)
(* before it did.  And the loop does not sleep in poll() while a woken     *)
(* connection waits for its turn.                                          *)
ReadyHasIo ==
    /\ io.pc = "poll" =>
        \A n \in DOMAIN io.fds : n >= io.at =>
            io.fds[n].revents \ {"hup"} \subseteq io.fds[n].events
    /\ io.pc \in {"top", "poll", "finish"} /\ ~io.some_always =>
        \A c \in Live(io) : Plan(io, c) # "always"

(* The counts by which the loop decides to finish connections or to sleep  *)
(* are those of the table; each connection is found by its descriptor, and *)
(* what is polled is what its halves want, however descriptors were moved; *)
(* and who is ready has something to do.                                   *)
TableExact ==
    /\ io.num_closing = Cardinality({c \in Live(io) : Closing(io, c)})
    /\ io.num_waiting = Cardinality({n \in DOMAIN io.fds : io.fds[n].events # {}})
    /\ \A c \in Live(io) :
        LET f == io.fds[io.conn[c].slot]
            halves == {c, Duplex(io, c)} \ {None}
        IN /\ io.conn[c].slot \in DOMAIN io.fds
           /\ f.who \in halves
           /\ \A d \in halves : io.conn[d].slot = io.conn[c].slot
           /\ f.events = UNION {pollflag(Plan(io, d)) : d \in halves}
    /\ ReadyHasIo
=============================================================================
