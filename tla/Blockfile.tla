------------------------------ MODULE Blockfile ------------------------------
(***************************************************************************)
(* The file in which a node keeps its blocks and transactions              *)
(* (blockfile.c), through crashes, starts and repairs.                     *)
(*                                                                         *)
(* A record is a packet: a length and a body.  The file is a sequence of   *)
(* cells, one for the length, the others for the body, so that a write can *)
(* stop in the middle.  A hole reads as zeros: a length too small for a    *)
(* packet.                                                                 *)
(***************************************************************************)
EXTENDS Naturals, Sequences, FiniteSets

CONSTANTS
    Items,      \* blocks and transactions
    Needs,      \* Needs[x]: a block's predecessor, if it is not genesis
    Cells,      \* Cells[x]: how many cells the record of x takes
    MaxFile     \* bound: cells of the file

BlockfileAssumption ==
    /\ Needs \in [Items -> SUBSET Items]
    /\ Cells \in [Items -> Nat \ {0, 1}]
    /\ MaxFile \in Nat

VARIABLES
    file,      \* the cells
    off,       \* where the next record starts, while loading
    pos,       \* the position of blockfd
    inMemory,  \* what the node knows
    saved,     \* what was written completely since the file was made
    loading,   \* load_blocks() is running: blockfd is -1
    repaired   \* the file has been truncated at some start

fileVars == <<file, off, pos, inMemory, saved, loading, repaired>>

Hole == <<"hole", 0>>
Record(x) == [k \in 1 .. Cells[x] |-> <<x, k>>]

BlockfileInit ==
    /\ file = <<>> /\ off = 0 /\ pos = 0
    /\ inMemory = {} /\ saved = {}
    /\ loading = TRUE /\ repaired = FALSE

(* write() of the cells s at the position of blockfd. *)
Written(s) ==
    [i \in 1 .. (IF pos + Len(s) > Len(file) THEN pos + Len(s) ELSE Len(file)) |->
        IF i > pos /\ i <= pos + Len(s) THEN s[i - pos]
        ELSE IF i <= Len(file) THEN file[i] ELSE Hole]

-----------------------------------------------------------------------------
(* read_packet_part() at the offset: a whole record, nothing at all, or    *)
(* something that is not a record.                                         *)
RecordAt(x) ==
    /\ off + Cells[x] <= Len(file)
    /\ SubSeq(file, off + 1, off + Cells[x]) = Record(x)
AtEnd == off = Len(file)

(* How far a failed read gets: over a zero length, or to the end of file. *)
ReadUpTo == IF file[off + 1] = Hole THEN off + 1 ELSE Len(file)

(* load_block() or load_tx_in_block(): what is loaded is not saved again,  *)
(* as blockfd is still -1.                                                 *)
load_record(x) ==
    /\ loading /\ RecordAt(x) /\ Needs[x] \subseteq inMemory
    /\ inMemory' = inMemory \cup {x}
    /\ off' = off + Cells[x]
    /\ pos' = off'
    /\ UNCHANGED <<file, saved, loading, repaired>>

(* The label out: from here on blockfd is set. *)
loaded ==
    /\ loading /\ AtEnd
    /\ loading' = FALSE
    /\ UNCHANGED <<file, off, pos, inMemory, saved, repaired>>

(* Mutant: the last good record is cut into. *)
MutTruncate ==
    /\ loading /\ ~AtEnd
    /\ \A x \in Items : ~(RecordAt(x) /\ Needs[x] \subseteq inMemory)
    /\ file' = SubSeq(file, 1, IF off = 0 THEN 0 ELSE off - 1)
    /\ pos' = IF off = 0 THEN 0 ELSE ReadUpTo
    /\ loading' = FALSE /\ repaired' = TRUE
    /\ UNCHANGED <<off, inMemory, saved>>

(* The label truncate: the file is cut at the offset.  The arguments of    *)
(* lseek() are in the wrong order, "lseek(fd, SEEK_SET, off)": an offset   *)
(* of 0 goes to the start; any other is an invalid `whence' and the        *)
(* position stays where reading stopped.                                   *)
truncate ==
    /\ loading /\ ~AtEnd
    /\ \A x \in Items : ~(RecordAt(x) /\ Needs[x] \subseteq inMemory)
    /\ file' = SubSeq(file, 1, off)
    /\ pos' = IF off = 0 THEN 0 ELSE ReadUpTo
    /\ loading' = FALSE /\ repaired' = TRUE
    /\ UNCHANGED <<off, inMemory, saved>>

(* save_block() from block_add(), save_tx() from put_tx_in_shard(): a      *)
(* block is only added after its predecessor.                              *)
save(x) ==
    /\ ~loading
    /\ x \notin inMemory /\ Needs[x] \subseteq inMemory
    /\ Len(Written(Record(x))) <= MaxFile
    /\ inMemory' = inMemory \cup {x}
    /\ file' = Written(Record(x))
    /\ pos' = pos + Cells[x]
    /\ saved' = saved \cup {x}
    /\ UNCHANGED <<off, loading, repaired>>

(* The node ends and starts again, at any time: in the middle of a write   *)
(* (a crash, or write_all() failed and err() ended it) or while loading.   *)
StartAgain ==
    /\ off' = 0 /\ pos' = 0 /\ inMemory' = {} /\ loading' = TRUE
    /\ UNCHANGED <<saved, repaired>>

stop == StartAgain /\ UNCHANGED file

crash_in_save(x, k) ==
    /\ ~loading
    /\ x \notin inMemory /\ Needs[x] \subseteq inMemory
    /\ Len(Written(SubSeq(Record(x), 1, k))) <= MaxFile
    /\ file' = Written(SubSeq(Record(x), 1, k))
    /\ StartAgain

BlockfileNext ==
    \/ \E x \in Items : load_record(x) \/ save(x)
    \/ \E x \in Items : \E k \in 1 .. Cells[x] - 1 : crash_in_save(x, k)
    \/ loaded \/ truncate \/ stop

BlockfileSpec == BlockfileInit /\ [][BlockfileNext]_fileVars

-----------------------------------------------------------------------------
(* Properties *)

(* As long as no start had to repair the file, all that was saved is       *)
(* loaded: a crash costs at most the record that was being written.        *)
SavedUntilRepair == ~loading /\ ~repaired => inMemory = saved

(* Whatever the file went through, torn records, holes and repairs, a node *)
(* that runs knows only what was once saved completely, with everything    *)
(* that rests on, and its file holds no less than that: the next start     *)
(* finds the records before the first hole, which is all as long as there  *)
(* was no repair.                                                          *)
LoadedSound ==
    /\ inMemory \subseteq saved
    /\ \A x \in inMemory : Needs[x] \subseteq inMemory
    /\ ~loading => \A x \in inMemory : \E i \in 0 .. Len(file) - Cells[x] :
            SubSeq(file, i + 1, i + Cells[x]) = Record(x)
    /\ SavedUntilRepair
=============================================================================
