------------------------------- MODULE Timer -------------------------------
(***************************************************************************)
(* The timer wheel of ccan/timer/timer.c, on which the poll loop of        *)
(* ccan/io keeps its timeouts.                                             *)
(*                                                                         *)
(* Times are unsigned and wrap at 2^TimeBits.  The wheel has a level of    *)
(* PER_LEVEL buckets for every TIMER_LEVEL_BITS bits of the distance from  *)
(* `base'; a level is only allocated when it is needed, and until then its *)
(* timers are on the list `far'.  A bucket is a set of timers: the order   *)
(* in a list decides nothing but which of two equal times is found first.  *)
(***************************************************************************)
EXTENDS Naturals, FiniteSets, FiniteSetsExt

CONSTANTS
    LevelBits,   \* TIMER_LEVEL_BITS
    TimeBits,       \* bits of a time (64)
    TimerIds,    \* the timers of the program
    MaxTime      \* bound: no timer is set later, and the clock goes no further

TimerAssumption == /\ LevelBits \in Nat \ {0} /\ TimeBits \in Nat
                   /\ MaxTime \in Nat /\ MaxTime < 2^TimeBits - 1

VARIABLES
    timers,      \* base, first, levels: the allocated ones
    place,       \* where each timer is: "off", "far" or <<level, bucket>>
    time,        \* t->time of each timer
    expiring,    \* the time that timers_expire() was called with, or Never
    early        \* timers that fired before their time

timerVars == <<timers, place, time, expiring, early>>

PER_LEVEL == 2^LevelBits
WheelLevels == 0 .. (TimeBits + LevelBits - 1) \div LevelBits - 1
Never == 2^TimeBits - 1                             \* -1ULL
Minus(a, b) == (a + 2^TimeBits - b) % 2^TimeBits

(* ilog64(): how many bits it takes to write n. *)
ilog(n) == CHOOSE k \in 0 .. TimeBits : n < 2^k /\ (k > 0 => n >= 2^(k - 1))

(* Mutant: the buckets of a level are thought to be wider than they are. *)
MutLevelOf(base, t) == ilog(Minus(t, base) \div 4) \div LevelBits

level_of(base, t) == ilog(Minus(t, base) \div 2) \div LevelBits
Bucket(level, t) == <<level, (t \div 2^(level * LevelBits)) % PER_LEVEL>>

(* timer_add_raw() *)
timer_add_raw(w, t) ==
    LET level == level_of(w.base, t)
    IN  IF level \in w.levels THEN Bucket(level, t) ELSE <<"far">>

On(at, where) == {t \in TimerIds : at[t] = where}
Earlier(S) == IF S = {} THEN Never ELSE Min({time[t] : t \in S})

-----------------------------------------------------------------------------
(* find_first() and get_first(): from the bucket that `first' is in, then  *)
(* upwards; a level that wraps around looks into the bucket above as well. *)
(* Level 0 is exact.                                                       *)
get_first(w, at) ==
    LET search[level \in WheelLevels \cup {Max(WheelLevels) + 1}, base \in 0 .. Never] ==
            LET off == base % PER_LEVEL
                Slot(i) == On(at, <<level, (i + off) % PER_LEVEL>>)
                full == {i \in 0 .. PER_LEVEL - 1 : Slot(i) # {}}
                i == Min(full)
                need_next == i + off > PER_LEVEL
                above == base \div PER_LEVEL
            IN  IF level \notin w.levels THEN Earlier(On(at, <<"far">>))
                ELSE IF full = {} THEN search[level + 1, above]
                ELSE Earlier(Slot(i)
                       \cup IF ~need_next THEN {}
                            ELSE IF level + 1 \notin w.levels THEN On(at, <<"far">>)
                            ELSE On(at, <<level + 1, above % PER_LEVEL>>))
        start == level_of(w.base, w.first)
    IN  IF w.first < w.base THEN search[0, w.base]
        ELSE search[start, w.first \div 2^(LevelBits * start)]

-----------------------------------------------------------------------------
(* timers_far_get(): those on the far list up to that time. *)
timers_far_get(at, when) == {t \in On(at, <<"far">>) : time[t] <= when}

Reach(w, level) == w.base + 2^((level + 1) * LevelBits) - 1

(* add_level(): the level, and from the far list the timers that may       *)
(* belong on it.                                                           *)
add_level(w, at, level) ==
    LET grown == [w EXCEPT !.levels = w.levels \cup {level}]
        from_far == timers_far_get(at, Reach(w, level))
    IN  [wheel |-> grown,
         at |-> [t \in TimerIds |-> IF t \in from_far THEN timer_add_raw(grown, time[t])
                                    ELSE at[t]]]

(* timer_fast_forward(): the buckets of the new time on every level that   *)
(* changed are emptied, base moves, and their timers are added again.      *)
BitsChanged(a, b) ==
    CHOOSE k \in 1 .. TimeBits : /\ a \div 2^k = b \div 2^k
                              /\ a \div 2^(k - 1) # b \div 2^(k - 1)

timer_fast_forward(w, at, to) ==
    IF to = w.base THEN [wheel |-> w, at |-> at] ELSE
    LET top == (BitsChanged(to, w.base) - 1) \div LevelBits
        missing == {l \in 0 .. top : l \notin w.levels}
        list == UNION {IF l \in w.levels THEN On(at, Bucket(l, to))
                       ELSE timers_far_get(at, Reach(w, l)) : l \in 0 .. top}
        out == [t \in TimerIds |-> IF t \in list THEN <<"list">> ELSE at[t]]
        s == IF missing = {} THEN [wheel |-> w, at |-> out]
             ELSE add_level(w, out, Min(missing))   \* need_level: the last one seen
        moved == [s.wheel EXCEPT !.base = to]
    IN  [wheel |-> moved,
         at |-> [t \in TimerIds |-> IF t \in list THEN timer_add_raw(moved, time[t])
                                    ELSE s.at[t]]]

-----------------------------------------------------------------------------
(* timers_expire(): forward to the first, take its bucket of level 0, look *)
(* for the next first, until it is later than now: one round of the loop   *)
(* is a step.                                                              *)
timers_expire ==
    /\ expiring = Never
    /\ 0 \in timers.levels \/ On(place, <<"far">>) # {}
    /\ \E now \in timers.base .. MaxTime : expiring' = now
    /\ LET s == IF 0 \in timers.levels THEN [wheel |-> timers, at |-> place]
                ELSE add_level(timers, place, 0)
       IN  timers' = s.wheel /\ place' = s.at
    /\ UNCHANGED <<time, early>>

expire_rest ==                   \* no more to expire
    /\ expiring # Never /\ timers.first > expiring
    /\ LET s == timer_fast_forward(timers, place, expiring)
       IN  timers' = s.wheel /\ place' = s.at
    /\ expiring' = Never
    /\ UNCHANGED <<time, early>>

expire_first ==
    /\ expiring # Never /\ timers.first <= expiring
    /\ LET s == timer_fast_forward(timers, place, timers.first)
           due == On(s.at, <<0, s.wheel.base % PER_LEVEL>>)
           at == [t \in TimerIds |-> IF t \in due THEN <<"off">> ELSE s.at[t]]
           found == get_first(s.wheel, at)
           last == s.wheel.base = expiring
       IN  /\ timers' = IF last THEN s.wheel ELSE [s.wheel EXCEPT !.first = found]
           /\ place' = at
           /\ time' = [t \in TimerIds |-> IF t \in due THEN 0 ELSE time[t]]
           /\ early' = early \cup {t \in due : time[t] > expiring}
           /\ expiring' = IF last \/ found = Never THEN Never ELSE expiring

timer_add ==
    /\ expiring = Never
    /\ \E t \in On(place, <<"off">>), when \in 0 .. MaxTime :
         LET at == IF when < timers.base THEN timers.base ELSE when
             w == [timers EXCEPT !.first = IF at < timers.first THEN at ELSE timers.first]
         IN  /\ time' = [time EXCEPT ![t] = at]
             /\ timers' = w
             /\ place' = [place EXCEPT ![t] = timer_add_raw(w, at)]
    /\ UNCHANGED <<expiring, early>>

timer_del ==
    /\ expiring = Never
    /\ \E t \in TimerIds \ On(place, <<"off">>) :
         /\ place' = [place EXCEPT ![t] = <<"off">>]
         /\ time' = [time EXCEPT ![t] = 0]
    /\ UNCHANGED <<timers, expiring, early>>

timer_earliest ==
    /\ expiring = Never
    /\ timers' = [timers EXCEPT !.first = get_first(timers, place)]
    /\ UNCHANGED <<place, time, expiring, early>>

TimerInit ==
    /\ timers = [base |-> 0, first |-> Never, levels |-> {}]
    /\ place = [t \in TimerIds |-> <<"off">>] /\ time = [t \in TimerIds |-> 0]
    /\ expiring = Never /\ early = {}

TimerNext == timers_expire \/ expire_rest \/ expire_first \/ timer_add \/ timer_del \/ timer_earliest
TimerSpec == TimerInit /\ [][TimerNext]_timerVars

-----------------------------------------------------------------------------
(* A timer never fires before its time, although timers are kept in        *)
(* buckets that hold many times, move down as `base' moves on, and are     *)
(* looked for by a cached `first' that timer_del() leaves stale.           *)
NeverEarly == early = {}
=============================================================================
