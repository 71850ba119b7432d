-------------------------------- MODULE Log --------------------------------
(***************************************************************************)
(* The memory log of the node, of each peer and of the generator (log.c).  *)
(* When an entry takes the log over its limit, prune_log() throws entries  *)
(* away at random and reports that with log_debug(), which may prune       *)
(* again: the recursion is a sequence of steps here.  Of an entry only its *)
(* size as add_entry() counts it, with strlen(), and how many were skipped *)
(* before it are kept.                                                     *)
(***************************************************************************)
EXTENDS Integers, Sequences, FiniteSets, SequencesExt

CONSTANTS
    Sizes,    \* what an entry or an addition takes
    Report,   \* what the entry "Log pruned %zu entries" takes
    MaxMem,   \* log->max_mem
    MaxLogs   \* bound: entries ever logged

LogAssumption == Sizes \subseteq Nat /\ Report \in Nat /\ Report < MaxMem

VARIABLES
    log,       \* the list, oldest first
    mem_used,
    pruning,   \* mem_used > max_mem in add_entry()
    logged     \* entries so far

logVars == <<log, mem_used, pruning, logged>>

Entry(size) == [size |-> size, skipped |-> 0]
Total(s) == FoldLeft(LAMBDA sum, e : sum + e.size, 0, s)

add_entry(s, mem, e) ==
    /\ log' = Append(s, e)
    /\ mem_used' = mem + e.size
    /\ pruning' = (mem + e.size > MaxMem)

(* logv(), and log_io() for data with a zero byte in it. *)
logv ==
    /\ ~pruning /\ logged < MaxLogs
    /\ \E size \in Sizes : add_entry(log, mem_used, Entry(size))
    /\ logged' = logged + 1

(* Mutant: the old length of the entry is not taken off. *)
MutLogAdd ==
    /\ ~pruning /\ log # <<>>
    /\ \E more \in Sizes :
         add_entry(Front(log), mem_used, [Last(log) EXCEPT !.size = @ + more])
    /\ UNCHANGED logged

(* log_add(), do_log_add(): "Remove from list, so it doesn't get pruned." *)
log_add ==
    /\ ~pruning /\ log # <<>>
    /\ \E more \in Sizes :
         add_entry(Front(log), mem_used - Last(log).size,
                   [Last(log) EXCEPT !.size = @ + more])
    /\ UNCHANGED logged

(* Those kept of a list, with the number deleted before each; a deleted    *)
(* entry counts one.                                                       *)
Kept(s, K) ==
    LET Before(k) == {j \in 1 .. k - 1 : j \notin K /\ \A i \in j .. k - 1 : i \notin K}
    IN [k \in 1 .. Cardinality(K) |->
          LET i == CHOOSE i \in K : Cardinality({j \in K : j <= i}) = k
          IN [s[i] EXCEPT !.skipped = @ + Cardinality(Before(i))]]

Freed(s, K) == Total(s) - Total(Kept(s, K))

(* prune_log(): "Never delete the last one."  Whether another goes is a    *)
(* matter of chance and of its level.                                      *)
prune_log ==
    /\ pruning
    /\ \E K \in SUBSET (DOMAIN log) :
         /\ Len(log) \in K
         /\ add_entry(Kept(log, K), mem_used - Freed(log, K), Entry(Report))
    /\ logged' = logged + 1

LogInit == log = <<>> /\ mem_used = 0 /\ pruning = FALSE /\ logged = 0
LogNext == logv \/ log_add \/ (logged < MaxLogs + 2 /\ prune_log)
LogSpec == LogInit /\ [][LogNext]_logVars

-----------------------------------------------------------------------------
(* Properties *)

(* A log that is not being pruned is within its limit, by the size of what *)
(* is in it: mem_used neither drifts nor wraps.  The entries and the       *)
(* numbers skipped are never more than what was logged.                    *)
LogBounded ==
    /\ mem_used = Total(log)
    /\ ~pruning => mem_used <= MaxMem
    /\ FoldLeft(LAMBDA sum, e : sum + 1 + e.skipped, 0, log) <= logged
=============================================================================
