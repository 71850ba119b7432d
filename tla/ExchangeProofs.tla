---------------------------- MODULE ExchangeProofs ----------------------------
(***************************************************************************)
(* Proofs about what a node takes over from elsewhere: the blocks and      *)
(* transactions it finds in its block file (Blockfile), the complaints it  *)
(* is sent about them (Complaints), and the contents of a block it asks a  *)
(* peer for (Contents).                                                    *)
(***************************************************************************)
EXTENDS Blockfile, Complaints, Contents, FiniteSetTheorems, TLAPS

-----------------------------------------------------------------------------
(* The block file. *)

(* Where the node has got to while loading, and the whole file after it.   *)
Seen == IF loading THEN off ELSE Len(file)

(* The record of x is in the file after its first i cells. *)
StoredAt(x, i) == \A k \in 1 .. Cells[x] : file[i + k] = <<x, k>>

(* The last cell of x is the cell i of the file. *)
EndsAt(x, i) == file[i] = <<x, Cells[x]>>

FileType ==
    /\ file \in Seq((Items \X Nat) \cup {Hole})
    /\ off \in Nat /\ pos \in Nat
    /\ inMemory \subseteq Items /\ saved \subseteq Items
    /\ loading \in BOOLEAN /\ repaired \in BOOLEAN

(* While loading the node reads where it has got to; after that it never   *)
(* writes over what is there, wherever lseek() left it.                    *)
Position == IF loading THEN pos = off /\ off <= Len(file) ELSE Len(file) <= pos

(* Only what was saved completely has its last cell in the file. *)
EndsAreSaved == \A i \in 1 .. Len(file), x \in Items : EndsAt(x, i) => x \in saved

Closed == \A x \in inMemory : Needs[x] \subseteq inMemory

(* A repair does not cut off what was loaded. *)
InFile == \A x \in inMemory : \E i \in Nat : i + Cells[x] <= Seen /\ StoredAt(x, i)

(* The file that was never cut: every saved item ends in it, and what ends *)
(* in the part that was read was loaded.                                   *)
Unrepaired ==
    ~repaired =>
        /\ \A x \in saved : \E i \in 1 .. Len(file) : EndsAt(x, i)
        /\ loading => \A i \in 1 .. off, x \in Items : EndsAt(x, i) => x \in inMemory
        /\ ~loading => pos = Len(file) /\ inMemory = saved

FileInv ==
    FileType /\ Position /\ EndsAreSaved /\ inMemory \subseteq saved /\ Closed
      /\ InFile /\ Unrepaired

(* A record is its cells in order, and so is what a crash leaves of one. *)
LEMMA RecordCells ==
    ASSUME BlockfileAssumption, NEW x \in Items, NEW k \in 1 .. Cells[x]
    PROVE  /\ Record(x) \in Seq(Items \X Nat) /\ Len(Record(x)) = Cells[x]
           /\ SubSeq(Record(x), 1, k) \in Seq(Items \X Nat) /\ Len(SubSeq(Record(x), 1, k)) = k
           /\ \A j \in 1 .. Cells[x] : Record(x)[j] = <<x, j>>
           /\ \A j \in 1 .. k : SubSeq(Record(x), 1, k)[j] = <<x, j>>
  <1>1. Cells[x] \in Nat  BY DEF BlockfileAssumption
  <1>2. Record(x) \in [1 .. Cells[x] -> Items \X Nat]  BY <1>1 DEF Record
  <1>3. Record(x) \in Seq(Items \X Nat) /\ Len(Record(x)) = Cells[x]  BY <1>1, <1>2
  <1>4. \A j \in 1 .. Cells[x] : Record(x)[j] = <<x, j>>  BY DEF Record
  <1>. HIDE DEF Record
  <1> QED  BY <1>1, <1>3, <1>4

(* What write() leaves when it does not start inside the file: the old     *)
(* cells, a hole if it started after the end, and the new ones.            *)
LEMMA WriteAfter ==
    ASSUME FileType, Len(file) <= pos, NEW s \in Seq(Items \X Nat), s # <<>>
    PROVE  /\ Written(s) \in Seq((Items \X Nat) \cup {Hole})
           /\ Len(Written(s)) = pos + Len(s)
           /\ \A i \in 1 .. Len(file) : Written(s)[i] = file[i]
           /\ \A i \in Len(file) + 1 .. pos : Written(s)[i] = Hole
           /\ \A j \in 1 .. Len(s) : Written(s)[pos + j] = s[j]
  <1>. DEFINE n == pos + Len(s)
              w == [i \in 1 .. n |-> IF i > pos /\ i <= n THEN s[i - pos]
                                     ELSE IF i <= Len(file) THEN file[i] ELSE Hole]
  <1>1. pos \in Nat /\ Len(file) \in Nat /\ Len(s) \in Nat /\ Len(s) > 0 /\ n \in Nat
    BY DEF FileType
  <1>2. Written(s) = w
    <2>1. (IF pos + Len(s) > Len(file) THEN pos + Len(s) ELSE Len(file)) = n  BY <1>1
    <2> QED  BY <2>1 DEF Written
  <1>3. w \in [1 .. n -> (Items \X Nat) \cup {Hole}]
    BY <1>1 DEF FileType
  <1>4. w \in Seq((Items \X Nat) \cup {Hole}) /\ Len(w) = n
    BY <1>1, <1>3
  <1> QED  BY <1>1, <1>2, <1>4

(* An empty file, nothing loaded. *)
LEMMA FileInvInit == ASSUME BlockfileAssumption, BlockfileInit PROVE FileInv
  <1>1. Len(file) = 0 /\ file \in Seq((Items \X Nat) \cup {Hole})  BY DEF BlockfileInit
  <1>2. FileType  BY <1>1 DEF BlockfileInit, FileType
  <1>6. Position
    <2>1. loading /\ pos = 0 /\ off = 0  BY DEF BlockfileInit
    <2> QED  BY <1>1, <2>1 DEF Position
  <1>5. Unrepaired
    <2>1. saved = {} /\ loading = TRUE /\ off = 0  BY DEF BlockfileInit
    <2>2. 1 .. off = {}  BY <2>1
    <2> QED  BY <2>1, <2>2 DEF Unrepaired
  <1>3. EndsAreSaved  BY <1>1 DEF EndsAreSaved
  <1>4. inMemory \subseteq saved /\ Closed /\ InFile  BY DEF BlockfileInit, Closed, InFile
  <1> QED  BY <1>2, <1>3, <1>4, <1>5, <1>6 DEF FileInv

(* The next record is read: it ends where the node now is, and the cells   *)
(* before its last end nothing.                                            *)
LEMMA LoadStep ==
    ASSUME BlockfileAssumption, FileInv, NEW x \in Items, load_record(x)
    PROVE  FileInv'
  <1>. USE DEF FileInv, FileType, Position
  <1>1. /\ Cells[x] \in Nat /\ Cells[x] > 1 /\ off \in Nat /\ Len(file) \in Nat /\ loading
        /\ off' = off + Cells[x] /\ off' <= Len(file) /\ pos' = off'
        /\ UNCHANGED <<file, saved, loading, repaired>>
        /\ inMemory' = inMemory \cup {x} /\ Needs[x] \subseteq inMemory
    BY DEF load_record, RecordAt, BlockfileAssumption
  <1>2. StoredAt(x, off)
    <2>1. SubSeq(file, off + 1, off + Cells[x]) = Record(x)  BY DEF load_record, RecordAt
    <2>2. \A k \in 1 .. Cells[x] : SubSeq(file, off + 1, off + Cells[x])[k] = file[off + k]
      BY <1>1
    <2>3. \A k \in 1 .. Cells[x] : Record(x)[k] = <<x, k>>  BY DEF Record
    <2> QED  BY <2>1, <2>2, <2>3 DEF StoredAt
  <1>3. FileType'  BY <1>1
  <1>4. Position'  BY <1>1
  <1>5. EndsAreSaved'  BY <1>1 DEF EndsAreSaved, EndsAt
  <1>6. x \in saved
    BY <1>1, <1>2, off + Cells[x] \in 1 .. Len(file), Cells[x] \in 1 .. Cells[x]
       DEF EndsAreSaved, EndsAt, StoredAt
  <1>7. Closed'  BY <1>1 DEF Closed
  <1>8. InFile'
    <2>. SUFFICES ASSUME NEW y \in inMemory'
                  PROVE  \E i \in Nat : i + Cells[y] <= Seen' /\ StoredAt(y, i)'
      BY DEF InFile
    <2>1. Seen = off /\ Seen' = off'  BY <1>1 DEF Seen
    <2>2. \A i \in Nat : StoredAt(y, i)' = StoredAt(y, i)  BY <1>1 DEF StoredAt
    <2>3. CASE y = x  BY <1>1, <1>2, <2>1, <2>2, <2>3
    <2>4. CASE y \in inMemory
      <3>1. PICK i \in Nat : i + Cells[y] <= Seen /\ StoredAt(y, i)  BY <2>4 DEF InFile
      <3>2. Cells[y] \in Nat  BY <2>4 DEF BlockfileAssumption
      <3> QED  BY <1>1, <2>1, <2>2, <3>1, <3>2
    <2> QED  BY <1>1, <2>3, <2>4
  <1>9. Unrepaired'
    <2>. SUFFICES ASSUME ~repaired'
                  PROVE  /\ \A y \in saved : \E i \in 1 .. Len(file) : EndsAt(y, i)
                         /\ \A i \in 1 .. off', y \in Items : EndsAt(y, i) => y \in inMemory'
      BY <1>1 DEF Unrepaired, EndsAt
    <2>1. ASSUME NEW i \in 1 .. off', NEW y \in Items, EndsAt(y, i)  PROVE y \in inMemory'
      <3>1. CASE i <= off  BY <1>1, <2>1, <3>1 DEF Unrepaired
      <3>2. CASE i > off
        <4>1. i - off \in 1 .. Cells[x] /\ off + (i - off) = i  BY <1>1, <3>2
        <4>2. file[i] = <<x, i - off>>  BY <1>2, <4>1 DEF StoredAt
        <4> QED  BY <1>1, <2>1, <4>2 DEF EndsAt
      <3> QED  BY <1>1, <3>1, <3>2
    <2> QED  BY <1>1, <2>1 DEF Unrepaired
  <1> QED  BY <1>1, <1>3, <1>4, <1>5, <1>6, <1>7, <1>8, <1>9

(* A record, or the first k of its cells, is written at the position.  The *)
(* old cells stay; only a whole record has a last cell.                    *)
LEMMA WriteStep ==
    ASSUME BlockfileAssumption, FileInv, ~loading, NEW x \in Items, NEW k \in 1 .. Cells[x],
           file' = Written(SubSeq(Record(x), 1, k))
    PROVE  /\ file' \in Seq((Items \X Nat) \cup {Hole}) /\ Len(file') = pos + k
           /\ Len(file) <= Len(file')
           /\ \A i \in 1 .. Len(file) : file'[i] = file[i]
           /\ \A i \in 1 .. Len(file'), y \in Items :
                EndsAt(y, i)' => y \in saved \/ (y = x /\ k = Cells[x])
           /\ \A j \in 1 .. k : file'[pos + j] = <<x, j>>
  <1>. DEFINE s == SubSeq(Record(x), 1, k)
  <1>1. /\ s \in Seq(Items \X Nat) /\ Len(s) = k /\ s # <<>>
        /\ \A j \in 1 .. k : s[j] = <<x, j>>
    <2>1. Cells[x] \in Nat /\ k \in Nat /\ k > 0  BY DEF BlockfileAssumption
    <2>2. s \in Seq(Items \X Nat) /\ Len(s) = k /\ \A j \in 1 .. k : s[j] = <<x, j>>
      BY RecordCells
    <2>. HIDE DEF s
    <2> QED  BY <2>1, <2>2
  <1>2. file' = Written(s)  OBVIOUS
  <1>. HIDE DEF s
  <1>3. FileType /\ Len(file) <= pos /\ Len(file) \in Nat /\ pos \in Nat
    BY DEF FileInv, Position, FileType
  <1>4. /\ Written(s) \in Seq((Items \X Nat) \cup {Hole})
        /\ Len(Written(s)) = pos + Len(s)
        /\ \A i \in 1 .. Len(file) : Written(s)[i] = file[i]
        /\ \A i \in Len(file) + 1 .. pos : Written(s)[i] = Hole
        /\ \A j \in 1 .. Len(s) : Written(s)[pos + j] = s[j]
    BY <1>1, <1>3, WriteAfter
  <1>5. ASSUME NEW i \in 1 .. Len(file'), NEW y \in Items, file'[i] = <<y, Cells[y]>>
        PROVE  y \in saved \/ (y = x /\ k = Cells[x])
    <2>1. Cells[y] \in Nat /\ Cells[y] > 1  BY DEF BlockfileAssumption
    <2>2. CASE i <= Len(file)
      <3>1. i \in 1 .. Len(file)  BY <2>2
      <3>2. file[i] = <<y, Cells[y]>>  BY <1>2, <1>4, <1>5, <3>1
      <3> QED  BY <3>1, <3>2 DEF FileInv, EndsAreSaved, EndsAt
    <2>3. CASE i > Len(file) /\ i <= pos
      <3>1. file'[i] = Hole  BY <1>2, <1>3, <1>4, <2>3
      <3> QED  BY <1>5, <2>1, <3>1 DEF Hole
    <2>4. CASE i > pos
      <3>1. i - pos \in 1 .. k /\ pos + (i - pos) = i  BY <1>1, <1>2, <1>3, <1>4, <2>4
      <3>2. file'[i] = <<x, i - pos>>  BY <1>1, <1>2, <1>4, <3>1
      <3>3. y = x /\ Cells[x] = i - pos  BY <1>5, <3>2
      <3>4. Cells[x] \in Nat /\ k <= Cells[x] /\ k \in Nat  BY DEF BlockfileAssumption
      <3>5. i - pos <= k  BY <3>1
      <3> QED  BY <3>3, <3>4, <3>5
    <2> QED  BY <1>3, <2>2, <2>3, <2>4
  <1>6. file' \in Seq((Items \X Nat) \cup {Hole}) /\ Len(file') = pos + k
    BY <1>1, <1>2, <1>4
  <1>7. Len(file) <= Len(file')  BY <1>3, <1>6
  <1>8. \A i \in 1 .. Len(file) : file'[i] = file[i]  BY <1>2, <1>4
  <1>9. \A j \in 1 .. k : file'[pos + j] = <<x, j>>  BY <1>1, <1>2, <1>4
  <1>10. \A i \in 1 .. Len(file'), y \in Items :
           EndsAt(y, i)' => y \in saved \/ (y = x /\ k = Cells[x])
    BY <1>5 DEF EndsAt
  <1> QED  BY <1>6, <1>7, <1>8, <1>9, <1>10

(* What is saved ends in the file, where the next start will find it. *)
LEMMA SaveStep ==
    ASSUME BlockfileAssumption, FileInv, NEW x \in Items, save(x)
    PROVE  FileInv'
  <1>. DEFINE n == Cells[x]
  <1>1. /\ ~loading /\ x \notin inMemory /\ Needs[x] \subseteq inMemory
        /\ inMemory' = inMemory \cup {x} /\ saved' = saved \cup {x}
        /\ file' = Written(Record(x)) /\ pos' = pos + Cells[x]
        /\ UNCHANGED <<off, loading, repaired>>
    BY DEF save
  <1>2. n \in Nat /\ n > 1 /\ n \in 1 .. Cells[x] /\ 1 \in 1 .. n  BY DEF BlockfileAssumption
  <1>3. SubSeq(Record(x), 1, n) = Record(x)
    <2>1. Record(x) \in Seq(Items \X Nat) /\ Len(Record(x)) = Cells[x]  BY <1>2, RecordCells
    <2>. HIDE DEF Record
    <2> QED  BY <1>2, <2>1
  <1>4. /\ file' \in Seq((Items \X Nat) \cup {Hole}) /\ Len(file') = pos + n
        /\ Len(file) <= Len(file')
        /\ \A i \in 1 .. Len(file) : file'[i] = file[i]
        /\ \A i \in 1 .. Len(file'), y \in Items :
             EndsAt(y, i)' => y \in saved \/ (y = x /\ n = Cells[x])
        /\ \A j \in 1 .. n : file'[pos + j] = <<x, j>>
    BY <1>1, <1>2, <1>3, WriteStep
  <1>5. FileType /\ Len(file) <= pos /\ pos \in Nat /\ Len(file) \in Nat
    BY <1>1 DEF FileInv, FileType, Position
  <1>6. FileType'  BY <1>1, <1>2, <1>4, <1>5 DEF FileType
  <1>7. Position'  BY <1>1, <1>2, <1>4, <1>5 DEF Position
  <1>8. EndsAreSaved'  BY <1>1, <1>4 DEF EndsAreSaved
  <1>9. (inMemory \subseteq saved)' /\ Closed'  BY <1>1 DEF FileInv, Closed
  <1>10. InFile'
    <2>. SUFFICES ASSUME NEW y \in inMemory'
                  PROVE  \E i \in Nat : i + Cells[y] <= Seen' /\ StoredAt(y, i)'
      BY DEF InFile
    <2>1. Seen = Len(file) /\ Seen' = Len(file')  BY <1>1 DEF Seen
    <2>2. CASE y = x
      <3>1. PICK p \in Nat : p = pos  BY <1>5
      <3>2. StoredAt(x, p)'  BY <1>4, <3>1 DEF StoredAt
      <3> QED  BY <1>2, <1>4, <1>5, <2>1, <2>2, <3>1, <3>2
    <2>3. CASE y \in inMemory
      <3>1. PICK i \in Nat : i + Cells[y] <= Len(file) /\ StoredAt(y, i)
        BY <2>1, <2>3 DEF FileInv, InFile
      <3>2. Cells[y] \in Nat  BY <1>5, <2>3 DEF FileType, BlockfileAssumption
      <3>3. \A k \in 1 .. Cells[y] : i + k \in 1 .. Len(file)  BY <1>5, <3>1, <3>2
      <3>4. StoredAt(y, i)'  BY <1>4, <3>1, <3>3 DEF StoredAt
      <3>5. i + Cells[y] <= Len(file')  BY <1>2, <1>4, <1>5, <3>1, <3>2
      <3> QED  BY <2>1, <3>4, <3>5
    <2> QED  BY <1>1, <2>2, <2>3
  <1>11. Unrepaired'
    <2>. SUFFICES ASSUME ~repaired'
                  PROVE  /\ \A y \in saved' : \E i \in 1 .. Len(file') : EndsAt(y, i)'
                         /\ pos' = Len(file') /\ inMemory' = saved'
      BY <1>1 DEF Unrepaired
    <2>1. pos = Len(file) /\ inMemory = saved  BY <1>1 DEF FileInv, Unrepaired
    <2>2. \A y \in saved : \E i \in 1 .. Len(file) : file[i] = <<y, Cells[y]>>
      BY <1>1 DEF FileInv, Unrepaired, EndsAt
    <2>3. ASSUME NEW y \in saved'
          PROVE  \E i \in 1 .. Len(file') : file'[i] = <<y, Cells[y]>>
      <3>1. CASE y = x
        <4>1. pos + n \in 1 .. Len(file') /\ file'[pos + n] = <<x, n>>
          BY <1>2, <1>4, <1>5
        <4> QED  BY <3>1, <4>1
      <3>2. CASE y \in saved
        <4>1. PICK i \in 1 .. Len(file) : file[i] = <<y, Cells[y]>>  BY <2>2, <3>2
        <4>2. i \in 1 .. Len(file')  BY <1>2, <1>4, <1>5
        <4> QED  BY <1>4, <4>1, <4>2
      <3> QED  BY <1>1, <3>1, <3>2
    <2> QED  BY <1>1, <1>4, <2>1, <2>3 DEF EndsAt
  <1> QED  BY <1>6, <1>7, <1>8, <1>9, <1>10, <1>11 DEF FileInv

(* A start: nothing is loaded yet.  The file holds no record that was not  *)
(* saved; if it was never cut, it holds all that was.                      *)
LEMMA StartStep ==
    ASSUME BlockfileAssumption, FileInv, StartAgain,
           file' \in Seq((Items \X Nat) \cup {Hole}),
           EndsAreSaved',
           \A y \in saved : (\E i \in 1 .. Len(file) : EndsAt(y, i))
                              => \E i \in 1 .. Len(file') : EndsAt(y, i)'
    PROVE  FileInv'
  <1>1. off' = 0 /\ pos' = 0 /\ inMemory' = {} /\ loading' /\ UNCHANGED <<saved, repaired>>
    BY DEF StartAgain
  <1>2. FileType'  BY <1>1 DEF FileInv, FileType, StartAgain
  <1>3. Position'  BY <1>1, <1>2 DEF Position, FileType
  <1>4. (inMemory \subseteq saved)' /\ Closed' /\ InFile'  BY <1>1 DEF Closed, InFile
  <1>5. Unrepaired'
    <2>1. 1 .. off' = {}  BY <1>1
    <2>2. ASSUME ~repaired' PROVE \A y \in saved' : \E i \in 1 .. Len(file') : EndsAt(y, i)'
      BY <1>1, <2>2 DEF FileInv, Unrepaired
    <2> QED  BY <1>1, <2>1, <2>2 DEF Unrepaired
  <1> QED  BY <1>2, <1>3, <1>4, <1>5 DEF FileInv

(* A crash in the middle of a write leaves no last cell behind. *)
LEMMA CrashStep ==
    ASSUME BlockfileAssumption, FileInv, NEW x \in Items, NEW k \in 1 .. Cells[x] - 1,
           crash_in_save(x, k)
    PROVE  FileInv'
  <1>1. Cells[x] \in Nat /\ k \in 1 .. Cells[x] /\ k # Cells[x]  BY DEF BlockfileAssumption
  <1>2. ~loading /\ file' = Written(SubSeq(Record(x), 1, k)) /\ StartAgain
    BY DEF crash_in_save
  <1>3. /\ file' \in Seq((Items \X Nat) \cup {Hole}) /\ Len(file) <= Len(file')
        /\ \A i \in 1 .. Len(file) : file'[i] = file[i]
        /\ \A i \in 1 .. Len(file'), y \in Items :
             EndsAt(y, i)' => y \in saved \/ (y = x /\ k = Cells[x])
    BY <1>1, <1>2, WriteStep
  <1>4. EndsAreSaved'  BY <1>1, <1>2, <1>3 DEF EndsAreSaved, StartAgain
  <1>5. ASSUME NEW y \in saved, NEW i \in 1 .. Len(file), EndsAt(y, i)
        PROVE  \E j \in 1 .. Len(file') : EndsAt(y, j)'
    <2>1. Len(file) \in Nat /\ Len(file') \in Nat  BY <1>3 DEF FileInv, FileType
    <2>2. i \in 1 .. Len(file')  BY <1>3, <2>1
    <2> QED  BY <1>3, <1>5, <2>2 DEF EndsAt
  <1> QED  BY <1>2, <1>3, <1>4, <1>5, StartStep

(* Loading stops at what is not a record; what was loaded lies before.     *)
LEMMA RepairStep ==
    ASSUME BlockfileAssumption, FileInv, truncate
    PROVE  FileInv'
  <1>1. /\ loading /\ off # Len(file) /\ file' = SubSeq(file, 1, off)
        /\ pos' = (IF off = 0 THEN 0 ELSE ReadUpTo)
        /\ ~loading' /\ loading' \in BOOLEAN /\ repaired' /\ repaired' \in BOOLEAN
        /\ UNCHANGED <<off, inMemory, saved>>
    BY DEF truncate, AtEnd
  <1>2. /\ off \in Nat /\ Len(file) \in Nat /\ off <= Len(file)
        /\ file \in Seq((Items \X Nat) \cup {Hole})
        /\ inMemory \subseteq Items /\ saved \subseteq Items
    BY <1>1 DEF FileInv, FileType, Position
  <1>3. /\ file' \in Seq((Items \X Nat) \cup {Hole}) /\ Len(file') = off
        /\ \A i \in 1 .. off : file'[i] = file[i]
    BY <1>1, <1>2
  <1>4. pos' \in Nat /\ off <= pos'  BY <1>1, <1>2 DEF ReadUpTo
  <1>5. FileType'  BY <1>1, <1>2, <1>3, <1>4 DEF FileType
  <1>6. Position'  BY <1>1, <1>3, <1>4 DEF Position
  <1>7. EndsAreSaved'
    <2>1. ASSUME NEW i \in 1 .. Len(file'), NEW y \in Items, file'[i] = <<y, Cells[y]>>
          PROVE  y \in saved
      <3>1. i \in 1 .. Len(file) /\ i \in 1 .. off  BY <1>2, <1>3
      <3>2. file[i] = <<y, Cells[y]>>  BY <1>3, <2>1, <3>1
      <3> QED  BY <3>1, <3>2 DEF FileInv, EndsAreSaved, EndsAt
    <2> QED  BY <1>1, <2>1 DEF EndsAreSaved, EndsAt
  <1>8. (inMemory \subseteq saved)' /\ Closed'  BY <1>1 DEF FileInv, Closed
  <1>9. InFile'
    <2>. SUFFICES ASSUME NEW y \in inMemory
                  PROVE  \E i \in Nat : i + Cells[y] <= Seen' /\ StoredAt(y, i)'
      BY <1>1 DEF InFile
    <2>1. Seen = off /\ Seen' = off  BY <1>1, <1>3 DEF Seen
    <2>2. PICK i \in Nat : i + Cells[y] <= off /\ StoredAt(y, i)
      BY <2>1 DEF FileInv, InFile
    <2>3. Cells[y] \in Nat  BY <1>2 DEF BlockfileAssumption
    <2>4. \A k \in 1 .. Cells[y] : i + k \in 1 .. off  BY <1>2, <2>2, <2>3
    <2> QED  BY <1>3, <2>1, <2>2, <2>4 DEF StoredAt
  <1>10. Unrepaired'  BY <1>1 DEF Unrepaired
  <1> QED  BY <1>5, <1>6, <1>7, <1>8, <1>9, <1>10 DEF FileInv

(* Every step of the node keeps FileInv: reading, ending the reading,      *)
(* writing, stopping, crashing and repairing.                              *)
LEMMA FileInvStep == ASSUME BlockfileAssumption, FileInv, [BlockfileNext]_fileVars PROVE FileInv'
  <1>1. ASSUME NEW x \in Items, load_record(x)  PROVE FileInv'  BY <1>1, LoadStep
  <1>2. ASSUME NEW x \in Items, save(x)  PROVE FileInv'  BY <1>2, SaveStep
  <1>3. ASSUME NEW x \in Items, NEW k \in 1 .. Cells[x] - 1, crash_in_save(x, k)
        PROVE  FileInv'
    BY <1>3, CrashStep
  <1>4. CASE loaded
    <2>1. /\ loading /\ off = Len(file) /\ ~loading' /\ loading' \in BOOLEAN
          /\ UNCHANGED <<file, off, pos, inMemory, saved, repaired>>
      BY <1>4 DEF loaded, AtEnd
    <2>2. FileType' /\ Position' /\ EndsAreSaved' /\ (inMemory \subseteq saved)' /\ Closed'
      BY <2>1 DEF FileInv, FileType, Position, EndsAreSaved, EndsAt, Closed
    <2>3. Seen' = Seen  BY <2>1 DEF Seen
    <2>4. InFile'  BY <2>1, <2>3 DEF FileInv, InFile, StoredAt
    <2>5. ASSUME ~repaired  PROVE saved \subseteq inMemory
      <3>1. ASSUME NEW y \in saved  PROVE y \in inMemory
        <4>1. y \in Items  BY DEF FileInv, FileType
        <4>2. PICK i \in 1 .. off : EndsAt(y, i)  BY <2>1, <2>5 DEF FileInv, Unrepaired
        <4> QED  BY <2>1, <2>5, <4>1, <4>2 DEF FileInv, Unrepaired
      <3> QED  BY <3>1
    <2>6. Unrepaired'
      <3>. SUFFICES ASSUME ~repaired
                    PROVE  /\ \A y \in saved : \E i \in 1 .. Len(file) : EndsAt(y, i)
                           /\ pos = Len(file) /\ inMemory = saved
        BY <2>1 DEF Unrepaired, EndsAt
      <3> QED  BY <2>1, <2>5 DEF FileInv, Unrepaired, Position
    <2> QED  BY <2>2, <2>4, <2>6 DEF FileInv
  <1>5. CASE truncate  BY <1>5, RepairStep
  <1>6. CASE stop
    <2>1. StartAgain /\ file' = file /\ saved' = saved  BY <1>6 DEF stop, StartAgain
    <2>2. EndsAreSaved'  BY <2>1 DEF FileInv, EndsAreSaved, EndsAt
    <2>3. \A y \in saved : (\E i \in 1 .. Len(file) : EndsAt(y, i))
                             => \E i \in 1 .. Len(file') : EndsAt(y, i)'
      BY <2>1 DEF EndsAt
    <2>4. file' \in Seq((Items \X Nat) \cup {Hole})  BY <2>1 DEF FileInv, FileType
    <2> QED  BY <2>1, <2>2, <2>3, <2>4, StartStep
  <1>7. CASE UNCHANGED fileVars
    BY <1>7 DEF fileVars, FileInv, FileType, Position, EndsAreSaved, EndsAt, Closed,
                InFile, Seen, StoredAt, Unrepaired
  <1> QED  BY <1>1, <1>2, <1>3, <1>4, <1>5, <1>6, <1>7 DEF BlockfileNext

(* What FileInv says of a record in cells is what LoadedSound says of it   *)
(* as a part of the file.                                                  *)
LEMMA InvGivesLoadedSound == ASSUME BlockfileAssumption, FileInv PROVE LoadedSound
  <1>1. inMemory \subseteq saved /\ \A x \in inMemory : Needs[x] \subseteq inMemory
    BY DEF FileInv, Closed
  <1>2. SavedUntilRepair  BY DEF FileInv, Unrepaired, SavedUntilRepair
  <1>3. ASSUME ~loading, NEW x \in inMemory
        PROVE  \E i \in 0 .. Len(file) - Cells[x] :
                  SubSeq(file, i + 1, i + Cells[x]) = Record(x)
    <2>1. PICK i \in Nat : i + Cells[x] <= Len(file) /\ StoredAt(x, i)
      BY <1>3 DEF FileInv, InFile, Seen
    <2>2. /\ x \in Items /\ Cells[x] \in Nat /\ Len(file) \in Nat
          /\ file \in Seq((Items \X Nat) \cup {Hole})
      BY <1>3 DEF FileInv, FileType, BlockfileAssumption
    <2>. DEFINE s == SubSeq(file, i + 1, i + Cells[x])
    <2>3. s = [k \in 1 .. Cells[x] |-> file[i + k]]
      BY <2>1, <2>2
    <2>4. [k \in 1 .. Cells[x] |-> file[i + k]] = Record(x)  BY <2>1 DEF StoredAt, Record
    <2>5. i \in 0 .. Len(file) - Cells[x]  BY <2>1, <2>2
    <2>6. s = Record(x)  BY <2>3, <2>4
    <2> QED  BY <2>5, <2>6
  <1> QED  BY <1>1, <1>2, <1>3 DEF LoadedSound

(* What a node that runs knows was saved completely, with everything it    *)
(* rests on, and is in its file; and it is all that was saved as long as   *)
(* no start had to repair: whatever was torn by a crash, cut, or written   *)
(* after a hole (load_blocks(), save_block(), save_tx()).                  *)
THEOREM LoadedIsSound == ASSUME BlockfileAssumption PROVE BlockfileSpec => []LoadedSound
  <1>1. BlockfileInit => FileInv  BY FileInvInit
  <1>2. FileInv /\ [BlockfileNext]_fileVars => FileInv'  BY FileInvStep
  <1>3. FileInv => LoadedSound  BY InvGivesLoadedSound
  <1> QED  BY <1>1, <1>2, <1>3, PTL DEF BlockfileSpec

-----------------------------------------------------------------------------
(* Complaints. *)

(* Only what shares an output with another transaction is reported as a    *)
(* double spend.                                                           *)
ReportRight ==
    report # NoReport =>
        \E t, u \in CTxs, i, j \in 1 .. 2 :
            /\ report = <<t, i, u, j>>
            /\ i <= num_inputs(t) /\ j <= num_inputs(u) /\ Inputs[t][i] = Inputs[u][j]

BlameInv ==
    /\ blockKnown \subseteq CBlocks /\ txIndex \subseteq Slots
    /\ ReportRight /\ OnlyFaultyBlamed

(* A block that has a fault makes what descends from it faulty. *)
LEMMA FaultInherited ==
    ASSUME ComplaintAssumption, NEW d \in CBlocks, NEW a \in CAnc[d], Wrong(a)
    PROVE  Wrong(d)
  BY DEF ComplaintAssumption, Wrong

(* What is wrong with a slot is wrong with its block. *)
LEMMA BadInputWrong ==
    ASSUME NEW s \in Slots, NEW i \in 1 .. 2, <<TxAt(s), i>> \in NotMine,
           NEW d, s[1] \in CAnc[d]
    PROVE  Wrong(d)
  <1>. DEFINE c == Complaint("bad_input", s, i, <<Inputs[TxAt(s)][i]>>)
              x == <<s, i>>
  <1>1. x \in {y \in Slots \X (1 .. 2) : <<TxAt(y[1]), y[2]>> \in NotMine}
    BY x[1] = s, x[2] = i
  <1>2. c = Complaint("bad_input", x[1], x[2], <<Inputs[TxAt(x[1])][x[2]]>>)  OBVIOUS
  <1>3. c \in Complaints
    <2>. HIDE DEF x, c
    <2> QED  BY <1>1, <1>2 DEF Complaints
  <1>4. About(c) = s[1]  BY DEF About, Complaint
  <1>. HIDE DEF c
  <1> QED  BY <1>3, <1>4 DEF Wrong

(* A transaction whose amounts do not add up makes every block after it    *)
(* wrong.                                                                  *)
LEMMA BadAmountWrong ==
    ASSUME NEW s \in Slots, Kind[TxAt(s)] = "normal", Fine(TxAt(s)), ~correct_amount(TxAt(s)),
           NEW d, s[1] \in CAnc[d]
    PROVE  Wrong(d)
  <1>. DEFINE c == Complaint("bad_amount", s, 0, Inputs[TxAt(s)])
  <1>1. c \in Complaints  BY DEF Complaints
  <1>2. About(c) = s[1]  BY DEF About, Complaint
  <1>. HIDE DEF c
  <1> QED  BY <1>1, <1>2 DEF Wrong

(* The later of two conflicting slots is wrong. *)
LEMMA ConflictWrong ==
    ASSUME NEW s \in Slots, NEW r \in Slots, NEW i \in 1 .. 2, NEW j \in 1 .. 2,
           Conflict(s, i, r, j), NEW d, r[1] \in CAnc[d]
    PROVE  Wrong(d)
  <1>. DEFINE c == Complaint("doublespend", s, <<i, j>>, r)
              x == <<s, i, r, j>>
  <1>1. x \in {y \in Slots \X (1 .. 2) \X Slots \X (1 .. 2) : Conflict(y[1], y[2], y[3], y[4])}
    BY x[1] = s, x[2] = i, x[3] = r, x[4] = j
  <1>2. c = Complaint("doublespend", x[1], <<x[2], x[4]>>, x[3])  OBVIOUS
  <1>3. c \in Complaints
    <2>. HIDE DEF x, c
    <2> QED  BY <1>1, <1>2 DEF Complaints
  <1>4. About(c) = r[1]  BY DEF About, Complaint
  <1>. HIDE DEF c
  <1> QED  BY <1>3, <1>4 DEF Wrong

(* Nothing is known or marked at first. *)
LEMMA BlameInvInit == ASSUME ComplaintInit PROVE BlameInv
  BY DEF ComplaintInit, BlameInv, ReportRight, OnlyFaultyBlamed

(* complaint_on_all() marks a faulty block and what descends from it. *)
LEMMA PublishStep ==
    ASSUME BlameInv, NEW b, publish_complaint(b), \A d \in CBlocks : b \in CAnc[d] => Wrong(d)
    PROVE  txIndex' \subseteq Slots /\ OnlyFaultyBlamed'
  <1>1. \A d \in blockKnown : Precedes(b, d) => Wrong(d)  BY DEF BlameInv, Precedes
  <1>2. \A d : Wrong(d)' <=> Wrong(d)  BY DEF Wrong
  <1> QED  BY <1>1, <1>2 DEF publish_complaint, BlameInv, OnlyFaultyBlamed

(* Marking the blocks of some of the copies of a transaction is right if   *)
(* every copy makes its block faulty.                                      *)
LEMMA BlameAllStep ==
    ASSUME BlameInv, NEW t, BlameAll(t),
           \A s \in Slots, d \in CBlocks : TxAt(s) = t /\ s[1] \in CAnc[d] => Wrong(d)
    PROVE  txIndex' \subseteq Slots /\ OnlyFaultyBlamed'
  <1>1. PICK S \in SUBSET {s \in txIndex : TxAt(s) = t} :
          /\ blamed' = blamed \cup {d \in blockKnown :
                          \E s \in {s \in S : s[1] \notin blamed} : Precedes(s[1], d)}
          /\ txIndex' \subseteq txIndex
    BY DEF BlameAll
  <1>2. ASSUME NEW d \in blockKnown, NEW s \in S, Precedes(s[1], d)  PROVE Wrong(d)
    BY <1>2 DEF BlameInv, Precedes
  <1>3. \A d \in blamed' : Wrong(d)  BY <1>1, <1>2 DEF BlameInv, OnlyFaultyBlamed
  <1>4. \A d : Wrong(d)' <=> Wrong(d)  BY DEF Wrong
  <1> QED  BY <1>1, <1>3, <1>4 DEF BlameInv, OnlyFaultyBlamed

(* Every step keeps BlameInv: what arrives, what is reported and the loop  *)
(* of a double spend report.                                               *)
LEMMA BlameInvStep ==
    ASSUME ComplaintAssumption, BlameInv, [ComplaintNext]_complaintVars
    PROVE  BlameInv'
  <1>. USE DEF BlameInv
  <1>0. \A d : Wrong(d)' <=> Wrong(d)  BY DEF Wrong
  <1>1. ASSUME NEW c \in Complaints, recv_complain(c)  PROVE BlameInv'
    <2>1. UNCHANGED <<blockKnown, report>>  BY <1>1 DEF recv_complain
    <2>2. CASE UNCHANGED <<blamed, txIndex>>
      BY <1>0, <2>1, <2>2 DEF ReportRight, OnlyFaultyBlamed
    <2>3. CASE publish_complaint(About(c))
      <3>1. \A d \in CBlocks : About(c) \in CAnc[d] => Wrong(d)  BY DEF Wrong
      <3>2. txIndex' \subseteq Slots /\ OnlyFaultyBlamed'  BY <2>3, <3>1, PublishStep
      <3> QED  BY <2>1, <3>2 DEF ReportRight
    <2> QED  BY <1>1, <2>2, <2>3 DEF recv_complain
  <1>2. ASSUME NEW b \in CBlocks, LearnBlock(b)  PROVE BlameInv'
    <2>1. /\ blockKnown' = blockKnown \cup {b} /\ UNCHANGED <<txIndex, report>>
          /\ blamed' = IF CAnc[b] \cap blamed # {} THEN blamed \cup {b} ELSE blamed
      BY <1>2 DEF LearnBlock
    <2>2. ASSUME NEW a \in CAnc[b] \cap blamed  PROVE Wrong(b)
      BY <2>2, FaultInherited DEF OnlyFaultyBlamed
    <2>3. OnlyFaultyBlamed'  BY <1>0, <2>1, <2>2 DEF OnlyFaultyBlamed
    <2> QED  BY <2>1, <2>3 DEF ReportRight
  <1>3. ASSUME NEW s \in Slots, LearnTx(s)  PROVE BlameInv'
    BY <1>0, <1>3 DEF LearnTx, ReportRight, OnlyFaultyBlamed
  <1>4. ASSUME NEW t \in CTxs, NEW in \in CTxs, NEW i \in 1 .. 2, recv_tx_bad_input(t, i, in)
        PROVE  BlameInv'
    <2>1. <<t, i>> \in NotMine
      BY <1>4 DEF recv_tx_bad_input, verify_problem_input, InputFine
    <2>2. \A s \in Slots, d \in CBlocks : TxAt(s) = t /\ s[1] \in CAnc[d] => Wrong(d)
      BY <2>1, BadInputWrong
    <2>3. BlameAll(t) /\ UNCHANGED <<blockKnown, report>>  BY <1>4 DEF recv_tx_bad_input
    <2>4. txIndex' \subseteq Slots /\ OnlyFaultyBlamed'  BY <2>2, <2>3, BlameAllStep
    <2> QED  BY <2>3, <2>4 DEF ReportRight
  <1>5. ASSUME NEW t \in CTxs, recv_tx_bad_amount(t)  PROVE BlameInv'
    <2>1. Kind[t] = "normal" /\ Fine(t) /\ ~correct_amount(t) /\ UNCHANGED <<blockKnown, report>>
      BY <1>5 DEF recv_tx_bad_amount
    <2>2. \A s \in Slots, d \in CBlocks : TxAt(s) = t /\ s[1] \in CAnc[d] => Wrong(d)
      BY <2>1, BadAmountWrong
    <2>3. CASE BlameAll(t)
      <3>1. txIndex' \subseteq Slots /\ OnlyFaultyBlamed'  BY <2>2, <2>3, BlameAllStep
      <3> QED  BY <2>1, <3>1 DEF ReportRight
    <2>4. CASE UNCHANGED <<blamed, txIndex>>
      BY <1>0, <2>1, <2>4 DEF ReportRight, OnlyFaultyBlamed
    <2> QED  BY <1>5, <2>3, <2>4 DEF recv_tx_bad_amount
  <1>6. ASSUME NEW t \in CTxs, NEW u \in CTxs, NEW i \in 1 .. 2, NEW j \in 1 .. 2,
               recv_tx_doublespend(t, i, u, j)
        PROVE  BlameInv'
    <2>1. ReportRight'  BY <1>6 DEF recv_tx_doublespend, ReportRight, num_inputs
    <2> QED  BY <1>0, <1>6, <2>1 DEF recv_tx_doublespend, OnlyFaultyBlamed
  <1>7. CASE again
    <2>1. UNCHANGED blockKnown /\ report # NoReport  BY <1>7 DEF again
    <2>2. CASE report' = NoReport /\ UNCHANGED <<blamed, txIndex>>
      BY <1>0, <2>1, <2>2 DEF ReportRight, OnlyFaultyBlamed
    <2>3. ASSUME NEW p \in Pairs, BlameLater(p), UNCHANGED report  PROVE BlameInv'
      <3>1. PICK t, u \in CTxs, i, j \in 1 .. 2 :
              /\ report = <<t, i, u, j>>
              /\ i <= num_inputs(t) /\ j <= num_inputs(u) /\ Inputs[t][i] = Inputs[u][j]
        BY <2>1 DEF ReportRight
      <3>2. /\ p[1] \in Slots /\ p[2] \in Slots /\ Precedes(p[1][1], p[2][1])
            /\ TxAt(p[1]) # TxAt(p[2]) /\ {TxAt(p[1]), TxAt(p[2])} = {t, u}
        <4>1. report[1] = t /\ report[3] = u  BY <3>1
        <4> QED  BY <4>1 DEF Pairs
      <3>3. Conflict(p[1], i, p[2], j) \/ Conflict(p[1], j, p[2], i)
        <4>1. CASE TxAt(p[1]) = t /\ TxAt(p[2]) = u  BY <3>1, <3>2, <4>1 DEF Conflict
        <4>2. CASE TxAt(p[1]) = u /\ TxAt(p[2]) = t  BY <3>1, <3>2, <4>2 DEF Conflict
        <4> QED  BY <3>2, <4>1, <4>2
      <3>4. \A d \in CBlocks : p[2][1] \in CAnc[d] => Wrong(d)
        BY <3>2, <3>3, ConflictWrong
      <3>5. txIndex' \subseteq Slots /\ OnlyFaultyBlamed'
        BY <2>3, <3>4, PublishStep DEF BlameLater
      <3> QED  BY <2>1, <2>3, <3>5 DEF ReportRight
    <2> QED  BY <1>7, <2>2, <2>3 DEF again
  <1>8. CASE UNCHANGED complaintVars
    BY <1>0, <1>8 DEF complaintVars, ReportRight, OnlyFaultyBlamed
  <1> QED  BY <1>1, <1>2, <1>3, <1>4, <1>5, <1>6, <1>7, <1>8 DEF ComplaintNext

(* Whatever is reported, complained of or learned, and in whatever order,  *)
(* only a block that has a fault, or descends from one that has, is marked *)
(* (publish_complaint(), the loops of recv_tx_bad_input(),                 *)
(* recv_tx_bad_amount() and recv_tx_doublespend(), block_add()).           *)
THEOREM BlamedIsFaulty ==
    ASSUME ComplaintAssumption PROVE ComplaintSpec => []OnlyFaultyBlamed
  <1>1. ComplaintInit => BlameInv  BY BlameInvInit
  <1>2. BlameInv /\ [ComplaintNext]_complaintVars => BlameInv'  BY BlameInvStep
  <1>3. BlameInv => OnlyFaultyBlamed  BY DEF BlameInv
  <1> QED  BY <1>1, <1>2, <1>3, PTL DEF ComplaintSpec

-----------------------------------------------------------------------------
(* The contents of a block. *)

OnWay(q) == {q[i] : i \in 1 .. Len(q)}

(* The packets to the giver and to the taker. *)
Asking == Request \cup {<<"set_filter">>}
Answer ==
    {<<"block">>, <<"complaint">>}
      \cup {"shard"} \X Shards \X {"NONE", "UNKNOWN_SHARD"}
      \cup {"tx_in_block", "tx"} \X Places \X {"NONE", "UNKNOWN_TX"}
      \cup {"txmap"} \X Shards \X SUBSET Nat

(* The packet p makes the taker take the request r off its list of what is *)
(* outstanding, or ends the connection.                                    *)
Settles(p, r) ==
    \/ p = <<"complaint">>
    \/ r[1] = "shard" /\ \E e \in {"NONE", "UNKNOWN_SHARD"} : p = <<"shard", r[2], e>>
    \/ /\ r[1] = "tx_in_block"
       /\ \E e \in {"NONE", "UNKNOWN_TX"} : p = <<"tx_in_block", r[2], e>>
    \/ /\ r[1] = "tx"
       /\ \/ p = <<"tx_in_block", r[2], "NONE">>
          \/ \E e \in {"NONE", "UNKNOWN_TX"} : p = <<"tx", r[2], e>>

InFlight(r) == r \in OnWay(toGiver) \/ \E p \in OnWay(toTaker) : Settles(p, r)

(* The taker does not know the block, and will not hear of it. *)
NeverHears == ~header /\ <<"block">> \notin OnWay(toTaker)

WireType ==
    /\ todo \in [Request -> {"none", "waiting", "asked", "failed"}]
    /\ header \in BOOLEAN
    /\ toGiver \in Seq(Asking) /\ toTaker \in Seq(Answer)

(* The block comes before anything else, or not at all. *)
BlockFirst == toTaker # <<>> => <<"block">> \notin OnWay(Tail(toTaker))

(* Of a block it does not know the taker asks for no more than single      *)
(* transactions, by their hash.                                            *)
HeaderFirst ==
    ~header =>
        /\ \A r \in Request : r[1] # "tx" => todo[r] = "none"
        /\ \A p \in OnWay(toGiver) : p[1] = "tx"
        /\ \A p \in OnWay(toTaker) : p[1] \notin {"shard", "txmap"}

(* What is outstanding is on its way to the giver, or an answer is on its  *)
(* way back; or it is one of the two exceptions AnswersSettle names.       *)
AskedInFlight ==
    open => \A r \in Request :
              todo[r] = "asked" =>
                  InFlight(r) \/ r[1] = "txmap" \/ (r[1] = "tx" /\ NeverHears)

WireInv == WireType /\ BlockFirst /\ HeaderFirst /\ AskedInFlight

(* What is on its way after a packet is sent, and after one is handled. *)
LEMMA SentOnWay ==
    ASSUME NEW S, NEW q \in Seq(S), NEW p \in S
    PROVE  /\ Append(q, p) \in Seq(S) /\ OnWay(Append(q, p)) = OnWay(q) \cup {p}
           /\ Append(q, p) # <<>>
           /\ q # <<>> => Tail(Append(q, p)) = Append(Tail(q), p)
           /\ q = <<>> => Tail(Append(q, p)) = <<>>
  <1>1. Len(q) \in Nat /\ Len(Append(q, p)) = Len(q) + 1 /\ Append(q, p) \in Seq(S)  OBVIOUS
  <1>2. OnWay(Append(q, p)) \subseteq OnWay(q) \cup {p}  BY <1>1 DEF OnWay
  <1>3. p \in OnWay(Append(q, p))
    <2>1. Len(q) + 1 \in 1 .. Len(Append(q, p)) /\ Append(q, p)[Len(q) + 1] = p  BY <1>1
    <2> QED  BY <2>1 DEF OnWay
  <1>4. ASSUME NEW i \in 1 .. Len(q)  PROVE q[i] \in OnWay(Append(q, p))
    <2>1. i \in 1 .. Len(Append(q, p)) /\ Append(q, p)[i] = q[i]  BY <1>1
    <2> QED  BY <2>1 DEF OnWay
  <1>5. OnWay(q) \cup {p} \subseteq OnWay(Append(q, p))  BY <1>3, <1>4 DEF OnWay
  <1>6. q # <<>> => Tail(Append(q, p)) = Append(Tail(q), p)  OBVIOUS
  <1>7. q = <<>> => Tail(Append(q, p)) = <<>>  OBVIOUS
  <1>8. Append(q, p) # <<>>
    <2>1. Len(<<>>) = 0  OBVIOUS
    <2> QED  BY <1>1, <2>1
  <1> QED  BY <1>1, <1>2, <1>5, <1>6, <1>7, <1>8

(* The first packet of a queue was on the way; the others still are. *)
LEMMA HandledOnWay ==
    ASSUME NEW S, NEW q \in Seq(S), q # <<>>
    PROVE  /\ Tail(q) \in Seq(S) /\ Head(q) \in S /\ Head(q) \in OnWay(q)
           /\ OnWay(q) = OnWay(Tail(q)) \cup {Head(q)}
           /\ OnWay(q) \subseteq S
  <1>1. /\ Tail(q) \in Seq(S) /\ Head(q) \in S /\ Len(q) \in Nat /\ Len(q) > 0
        /\ Len(Tail(q)) = Len(q) - 1 /\ Head(q) = q[1]
    OBVIOUS
  <1>2. Head(q) \in OnWay(q)
    <2>1. 1 \in 1 .. Len(q)  BY <1>1
    <2> QED  BY <1>1, <2>1 DEF OnWay
  <1>3. \A i \in 1 .. Len(q) : i = 1 \/ (i - 1 \in 1 .. Len(Tail(q)) /\ q[i] = Tail(q)[i - 1])
    BY <1>1
  <1>4. \A i \in 1 .. Len(Tail(q)) : i + 1 \in 1 .. Len(q) /\ Tail(q)[i] = q[i + 1]  BY <1>1
  <1>5. OnWay(q) \subseteq OnWay(Tail(q)) \cup {Head(q)}  BY <1>1, <1>3 DEF OnWay
  <1>7. OnWay(Tail(q)) \subseteq OnWay(q)  BY <1>4 DEF OnWay
  <1>6. OnWay(q) \subseteq S  BY DEF OnWay
  <1> QED  BY <1>1, <1>2, <1>5, <1>6, <1>7

(* How the list of requests changes: nothing but get_todo_pkt() makes a    *)
(* request outstanding, and an answer settles its own.                     *)
LEMMA AddAllKeeps ==
    ASSUME NEW t \in [Request -> {"none", "waiting", "asked", "failed"}], NEW R
    PROVE  /\ AddAll(t, R) \in [Request -> {"none", "waiting", "asked", "failed"}]
           /\ \A r \in Request : AddAll(t, R)[r] = "asked" <=> t[r] = "asked"
           /\ \A r \in Request : r \notin R => AddAll(t, R)[r] = t[r]
  BY DEF AddAll

(* finish_todo() settles one request and leaves the others alone. *)
LEMMA FinishSettles ==
    ASSUME NEW t \in [Request -> {"none", "waiting", "asked", "failed"}], NEW r \in Request,
           NEW success \in BOOLEAN
    PROVE  /\ finish_todo(t, r, success) \in [Request -> {"none", "waiting", "asked", "failed"}]
           /\ finish_todo(t, r, success)[r] # "asked"
           /\ \A o \in Request : o # r => finish_todo(t, r, success)[o] = t[o]
           /\ t[r] = "none" => finish_todo(t, r, success) = t
  BY DEF finish_todo

(* The requests of a place and of a shard. *)
LEMMA RequestsOf ==
    /\ \A h \in Shards : <<"shard", h>> \in Request /\ <<"txmap", h>> \in Request
    /\ \A s \in Places : <<"tx_in_block", s>> \in Request /\ <<"tx", s>> \in Request
    /\ \A r \in Request : r = <<r[1], r[2]>> /\ r[1] \in {"shard", "txmap", "tx_in_block", "tx"}
    /\ \A r \in Request : r[1] \in {"tx", "tx_in_block"} => r[2] \in Places
    /\ \A r \in Request : r[1] \in {"shard", "txmap"} => r[2] \in Shards
    /\ <<"set_filter">> \notin Request
  BY DEF Request

(* A packet that is not the block is sent to the taker. *)
LEMMA ToTaker ==
    ASSUME WireInv, NEW p \in Answer, p # <<"block">>, toTaker' = Append(toTaker, p)
    PROVE  /\ toTaker' \in Seq(Answer) /\ OnWay(toTaker') = OnWay(toTaker) \cup {p}
           /\ BlockFirst' /\ (NeverHears /\ UNCHANGED header => NeverHears')
  <1>1. toTaker \in Seq(Answer)  BY DEF WireInv, WireType
  <1>2. /\ toTaker' \in Seq(Answer) /\ OnWay(toTaker') = OnWay(toTaker) \cup {p}
        /\ toTaker # <<>> => Tail(toTaker') = Append(Tail(toTaker), p)
        /\ toTaker = <<>> => Tail(toTaker') = <<>>
    BY <1>1, SentOnWay
  <1>3. <<"block">> \notin OnWay(Tail(toTaker'))
    <2>1. CASE toTaker = <<>>
      <3>1. OnWay(<<>>) = {}  BY 1 .. Len(<<>>) = {} DEF OnWay
      <3> QED  BY <1>2, <2>1, <3>1
    <2>2. CASE toTaker # <<>>
      <3>. DEFINE later == Tail(toTaker)
      <3>1. later \in Seq(Answer)  BY <1>1, <2>2, HandledOnWay
      <3>2. Tail(toTaker') = Append(later, p)  BY <1>2, <2>2
      <3>3. <<"block">> \notin OnWay(later)  BY <2>2 DEF WireInv, BlockFirst
      <3>. HIDE DEF later
      <3>4. OnWay(Append(later, p)) = OnWay(later) \cup {p}  BY <3>1, SentOnWay
      <3>5. <<"block">> \notin OnWay(later) \cup {p}  BY <3>3
      <3> QED  BY <3>2, <3>4, <3>5
    <2> QED  BY <2>1, <2>2
  <1>4. BlockFirst'  BY <1>3 DEF BlockFirst
  <1>5. NeverHears /\ UNCHANGED header => NeverHears'  BY <1>2 DEF NeverHears
  <1> QED  BY <1>2, <1>4, <1>5

(* A packet of the giver to the taker: it neither is the block nor answers *)
(* what was not asked.                                                     *)
LEMMA ReplyStep ==
    ASSUME WireInv, toGiver # <<>>, NEW p \in Answer, Reply(p), p # <<"block">>,
           UNCHANGED <<todo, header, open>>,
           ~header => p[1] \notin {"shard", "txmap"},
           Head(toGiver) \in Request => Head(toGiver)[1] = "txmap" \/ Settles(p, Head(toGiver))
    PROVE  WireInv'
  <1>. DEFINE q == Head(toGiver)
  <1>1. WireType /\ toGiver' = Tail(toGiver) /\ toTaker' = Append(toTaker, p)
    BY DEF Reply, WireInv
  <1>2. /\ toGiver' \in Seq(Asking) /\ OnWay(toGiver) = OnWay(toGiver') \cup {q}
    BY <1>1, HandledOnWay DEF WireType
  <1>3. /\ toTaker' \in Seq(Answer) /\ OnWay(toTaker') = OnWay(toTaker) \cup {p}
        /\ BlockFirst' /\ (NeverHears => NeverHears')
    BY <1>1, ToTaker
  <1>4. WireType'  BY <1>1, <1>2, <1>3 DEF WireType
  <1>6. HeaderFirst'  BY <1>2, <1>3 DEF WireInv, HeaderFirst
  <1>8. ASSUME NEW r \in Request, InFlight(r), r[1] # "txmap"  PROVE InFlight(r)'
    <2>1. CASE r = q  BY <1>3, <1>8, <2>1 DEF InFlight
    <2>2. CASE r # q  BY <1>2, <1>3, <1>8, <2>2 DEF InFlight
    <2> QED  BY <2>1, <2>2
  <1>9. AskedInFlight'  BY <1>3, <1>8 DEF WireInv, AskedInFlight
  <1> QED  BY <1>3, <1>4, <1>6, <1>9 DEF WireInv

(* A packet to the taker that answers nothing. *)
LEMMA UnaskedStep ==
    ASSUME WireInv, NEW p \in Answer, p # <<"block">>, p[1] \notin {"shard", "txmap"},
           toTaker' = Append(toTaker, p), UNCHANGED <<toGiver, todo, header, open>>
    PROVE  WireInv'
  <1>1. WireType  BY DEF WireInv
  <1>3. /\ toTaker' \in Seq(Answer) /\ OnWay(toTaker') = OnWay(toTaker) \cup {p}
        /\ BlockFirst' /\ (NeverHears => NeverHears')
    BY <1>1, ToTaker
  <1>4. WireType'  BY <1>1, <1>3 DEF WireType
  <1>6. HeaderFirst'  BY <1>3 DEF WireInv, HeaderFirst
  <1>8. \A r \in Request : InFlight(r) => InFlight(r)'  BY <1>3 DEF InFlight
  <1>9. AskedInFlight'  BY <1>3, <1>8 DEF WireInv, AskedInFlight
  <1> QED  BY <1>3, <1>4, <1>6, <1>9 DEF WireInv

(* The taker handles a packet.  If it leaves outstanding what the packet   *)
(* settles, it is a transaction that was asked for by its hash, and there  *)
(* is no block it could belong to.                                         *)
LEMMA HandledStep ==
    ASSUME WireInv, toTaker # <<>>, Handled, UNCHANGED <<toGiver, open>>,
           todo' \in [Request -> {"none", "waiting", "asked", "failed"}],
           header' \in BOOLEAN, header => header',
           ~header /\ header' => Head(toTaker) = <<"block">>,
           \A r \in Request :
              todo'[r] = "asked" =>
                 /\ todo[r] = "asked"
                 /\ Settles(Head(toTaker), r) =>
                      r[1] = "tx" /\ ~header /\ Head(toTaker) # <<"block">>,
           ~header' => \A r \in Request : r[1] # "tx" => todo'[r] = "none"
    PROVE  WireInv'
  <1>. DEFINE p == Head(toTaker)
  <1>1. WireType /\ BlockFirst /\ HeaderFirst /\ AskedInFlight /\ toTaker' = Tail(toTaker)
    BY DEF Handled, WireInv
  <1>2. /\ toTaker' \in Seq(Answer) /\ OnWay(toTaker) = OnWay(toTaker') \cup {p}
    BY <1>1, HandledOnWay DEF WireType
  <1>3. WireType'  BY <1>1, <1>2 DEF WireType
  <1>4. <<"block">> \notin OnWay(toTaker')  BY <1>1 DEF BlockFirst
  <1>5. BlockFirst'
    <2>1. toTaker' # <<>> => OnWay(Tail(toTaker')) \subseteq OnWay(toTaker')
      BY <1>2, HandledOnWay
    <2> QED  BY <1>4, <2>1 DEF BlockFirst
  <1>6. HeaderFirst'  BY <1>1, <1>2 DEF HeaderFirst
  <1>7. ASSUME NEW r \in Request, todo'[r] = "asked", open, r[1] # "txmap"
        PROVE  InFlight(r)' \/ (r[1] = "tx" /\ NeverHears')
    <2>1. todo[r] = "asked"  BY <1>7
    <2>2. InFlight(r) \/ (r[1] = "tx" /\ NeverHears)  BY <1>1, <1>7, <2>1 DEF AskedInFlight
    <2>3. CASE r[1] = "tx" /\ NeverHears  BY <1>2, <1>4, <2>3 DEF NeverHears
    <2>4. CASE r \in OnWay(toGiver)  BY <2>4 DEF InFlight
    <2>5. ASSUME NEW o \in OnWay(toTaker), Settles(o, r)
          PROVE  InFlight(r)' \/ (r[1] = "tx" /\ NeverHears')
      <3>1. CASE o = p  BY <1>4, <1>7, <2>5, <3>1 DEF NeverHears
      <3>2. CASE o # p  BY <1>2, <2>5, <3>2 DEF InFlight
      <3> QED  BY <3>1, <3>2
    <2> QED  BY <2>2, <2>3, <2>4, <2>5 DEF InFlight
  <1>8. AskedInFlight'  BY <1>7 DEF AskedInFlight
  <1> QED  BY <1>3, <1>5, <1>6, <1>8 DEF WireInv

(* The giver answers what it is asked. *)
LEMMA GiveStep == ASSUME WireInv, Give PROVE WireInv'
  <1>1. toGiver # <<>> /\ WireType /\ HeaderFirst  BY DEF Give, WireInv
  <1>2. Head(toGiver) \in OnWay(toGiver)  BY <1>1, HandledOnWay DEF WireType
  <1>3. ~header => Head(toGiver)[1] = "tx"  BY <1>1, <1>2 DEF HeaderFirst
  <1>4. ASSUME NEW h \in Shards, recv_get_shard(h)  PROVE WireInv'
    <2>1. PICK p \in {<<"shard", h, "UNKNOWN_SHARD">>, <<"complaint">>, <<"shard", h, "NONE">>} :
            Reply(p)
      BY <1>4 DEF recv_get_shard
    <2>2. Head(toGiver) = <<"shard", h>> /\ UNCHANGED <<todo, header, open>>
      BY <1>4 DEF recv_get_shard, GiverIdle
    <2>3. p \in Answer /\ p # <<"block">>  BY DEF Answer
    <2>4. Settles(p, <<"shard", h>>)  BY DEF Settles
    <2>5. header  BY <1>3, <2>2
    <2> QED  BY <1>1, <2>1, <2>2, <2>3, <2>4, <2>5, ReplyStep
  <1>5. ASSUME NEW h \in Shards, recv_get_txmap(h)  PROVE WireInv'
    <2>. DEFINE I == {i \in 1 .. Offs[h] : gives[<<h, i>>] = "tx" /\ peer_wants_tx_other(<<h, i>>)}
                p == <<"txmap", h, I>>
    <2>1. Head(toGiver) = <<"txmap", h>> /\ Reply(p) /\ UNCHANGED <<todo, header, open>>
      BY <1>5 DEF recv_get_txmap, GiverIdle
    <2>2. I \in SUBSET Nat  OBVIOUS
    <2>. HIDE DEF I
    <2>3. p \in Answer /\ p # <<"block">>  BY <2>2 DEF Answer
    <2>4. header  BY <1>3, <2>1
    <2> QED  BY <1>1, <2>1, <2>3, <2>4, ReplyStep
  <1>6. ASSUME NEW s \in Places, recv_get_tx_in_block(s)  PROVE WireInv'
    <2>1. PICK e \in {"NONE", "UNKNOWN_TX"} : Reply(<<"tx_in_block", s, e>>)
      BY <1>6 DEF recv_get_tx_in_block
    <2>2. Head(toGiver) = <<"tx_in_block", s>> /\ UNCHANGED <<todo, header, open>>
      BY <1>6 DEF recv_get_tx_in_block, GiverIdle
    <2>3. <<"tx_in_block", s, e>> \in Answer /\ <<"tx_in_block", s, e>> # <<"block">>
      BY DEF Answer
    <2>4. Settles(<<"tx_in_block", s, e>>, <<"tx_in_block", s>>)  BY DEF Settles
    <2> QED  BY <1>1, <2>1, <2>2, <2>3, <2>4, ReplyStep
  <1>7. ASSUME NEW s \in Places, recv_get_tx(s)  PROVE WireInv'
    <2>1. PICK p \in {<<"tx_in_block", s, "NONE">>, <<"tx", s, "NONE">>, <<"tx", s, "UNKNOWN_TX">>} :
            Reply(p)
      BY <1>7 DEF recv_get_tx
    <2>2. Head(toGiver) = <<"tx", s>> /\ UNCHANGED <<todo, header, open>>
      BY <1>7 DEF recv_get_tx, GiverIdle
    <2>3. p \in Answer /\ p # <<"block">> /\ p[1] \notin {"shard", "txmap"}  BY DEF Answer
    <2>4. Settles(p, <<"tx", s>>)  BY DEF Settles
    <2> QED  BY <1>1, <2>1, <2>2, <2>3, <2>4, ReplyStep
  <1>8. CASE recv_set_filter
    <2>1. /\ Head(toGiver) = <<"set_filter">> /\ toGiver' = Tail(toGiver)
          /\ UNCHANGED <<toTaker, todo, header, open>>
      BY <1>8 DEF recv_set_filter, GiverIdle
    <2>2. toGiver' \in Seq(Asking) /\ OnWay(toGiver) = OnWay(toGiver') \cup {<<"set_filter">>}
      BY <1>1, <2>1, HandledOnWay DEF WireType
    <2>3. \A r \in Request : r # <<"set_filter">>  BY RequestsOf
    <2>4. \A r \in Request : InFlight(r) => InFlight(r)'  BY <2>1, <2>2, <2>3 DEF InFlight
    <2>5. AskedInFlight'  BY <2>1, <2>4 DEF WireInv, AskedInFlight, NeverHears
    <2>6. WireType' /\ BlockFirst' /\ HeaderFirst'
      BY <2>1, <2>2 DEF WireInv, WireType, BlockFirst, HeaderFirst
    <2> QED  BY <2>5, <2>6 DEF WireInv
  <1> QED  BY <1>4, <1>5, <1>6, <1>7, <1>8 DEF Give

(* The giver sends what it learns, and the complaint, unasked. *)
LEMMA LearnStep ==
    ASSUME WireInv, (\E s \in Places : GiverLearns(s)) \/ GiverComplains PROVE WireInv'
  <1>1. ASSUME NEW s \in Places, GiverLearns(s)  PROVE WireInv'
    <2>. DEFINE p == <<"tx_in_block", s, "NONE">>
    <2>1. /\ UNCHANGED <<todo, header, open, toGiver>>
          /\ toTaker' = Append(toTaker, p) \/ toTaker' = toTaker
      BY <1>1 DEF GiverLearns
    <2>2. p \in Answer /\ p # <<"block">> /\ p[1] \notin {"shard", "txmap"}  BY DEF Answer
    <2>3. CASE toTaker' = Append(toTaker, p)
      <3>. HIDE DEF p
      <3> QED  BY <2>1, <2>2, <2>3, UnaskedStep
    <2>4. CASE toTaker' = toTaker
      BY <2>1, <2>4 DEF WireInv, WireType, BlockFirst, HeaderFirst, AskedInFlight, InFlight,
                        NeverHears
    <2> QED  BY <2>1, <2>3, <2>4
  <1>2. ASSUME GiverComplains  PROVE WireInv'
    <2>1. <<"complaint">> \in Answer /\ <<"complaint">> # <<"block">>
            /\ <<"complaint">>[1] \notin {"shard", "txmap"}
      BY DEF Answer
    <2> QED  BY <1>2, <2>1, UnaskedStep DEF GiverComplains
  <1> QED  BY <1>1, <1>2

(* The taker handles what the giver sent. *)
LEMMA TakeStep == ASSUME WireInv, Take PROVE WireInv'
  <1>. DEFINE Todos == [Request -> {"none", "waiting", "asked", "failed"}]
  <1>1. /\ toTaker # <<>> /\ todo \in Todos /\ header \in BOOLEAN /\ HeaderFirst
        /\ Head(toTaker) \in OnWay(toTaker)
    BY HandledOnWay DEF Take, WireInv, WireType
  <1>2. ~header => Head(toTaker)[1] \notin {"shard", "txmap"}  BY <1>1 DEF HeaderFirst
  <1>3. ~header => \A r \in Request : r[1] # "tx" => todo[r] = "none"  BY <1>1 DEF HeaderFirst
  <1>. HIDE DEF Todos
  <1>4. CASE recv_block
    <2>. DEFINE R == {<<"shard", h>> : h \in Wanted}
                 \cup {<<"txmap", h>> : h \in IF syncing THEN Shards \ Wanted ELSE {}}
    <2>1. /\ Head(toTaker) = <<"block">> /\ Handled /\ header' = TRUE
          /\ todo' = AddAll(todo, R) /\ UNCHANGED <<toGiver, open>>
      BY <1>4 DEF recv_block, TakerIdle
    <2>. HIDE DEF R
    <2>2. todo' \in Todos /\ \A r \in Request : todo'[r] = "asked" <=> todo[r] = "asked"
      BY <1>1, <2>1, AddAllKeeps DEF Todos
    <2>3. \A r \in Request : ~Settles(<<"block">>, r)  BY DEF Settles
    <2> QED  BY <1>1, <2>1, <2>2, <2>3, HandledStep DEF Todos
  <1>5. CASE recv_txmap
    <2>1. /\ Head(toTaker)[1] = "txmap" /\ Handled /\ UNCHANGED <<header, toGiver, open>>
          /\ \E R : todo' = AddAll(todo, R)
      BY <1>5 DEF recv_txmap, TakerIdle
    <2>2. todo' \in Todos /\ \A r \in Request : todo'[r] = "asked" <=> todo[r] = "asked"
      BY <1>1, <2>1, AddAllKeeps DEF Todos
    <2>3. \A r \in Request : ~Settles(Head(toTaker), r)  BY <2>1 DEF Settles
    <2>4. header  BY <1>2, <2>1
    <2> QED  BY <1>1, <2>1, <2>2, <2>3, <2>4, HandledStep DEF Todos
  <1>6. CASE recv_complaint
    <2>1. open' = FALSE /\ toTaker' = <<>> /\ toGiver' = <<>> /\ UNCHANGED <<header, todo>>
      BY <1>6 DEF recv_complaint
    <2>2. OnWay(<<>>) = {}  BY 1 .. Len(<<>>) = {} DEF OnWay
    <2>3. WireType'  BY <1>1, <2>1 DEF WireInv, WireType
    <2>4. BlockFirst' /\ AskedInFlight'  BY <2>1 DEF BlockFirst, AskedInFlight
    <2>5. HeaderFirst'  BY <1>1, <2>1, <2>2 DEF HeaderFirst
    <2> QED  BY <2>3, <2>4, <2>5 DEF WireInv
  <1>7. ASSUME NEW h \in Shards, NEW e \in {"NONE", "UNKNOWN_SHARD"}, recv_shard(h, e)
        PROVE  WireInv'
    <2>. DEFINE done == finish_todo(todo, <<"shard", h>>, e = "NONE")
    <2>1. /\ Head(toTaker) = <<"shard", h, e>> /\ Handled /\ UNCHANGED <<header, toGiver, open>>
          /\ todo' = done \/ \E R : todo' = AddAll(done, R)
      BY <1>7 DEF recv_shard, TakerIdle
    <2>2. /\ done \in Todos /\ done[<<"shard", h>>] # "asked"
          /\ \A o \in Request : o # <<"shard", h>> => done[o] = todo[o]
      <3>1. <<"shard", h>> \in Request /\ (e = "NONE") \in BOOLEAN  BY RequestsOf
      <3> QED  BY <1>1, <3>1, FinishSettles DEF Todos
    <2>. HIDE DEF done
    <2>3. todo' \in Todos /\ \A r \in Request : todo'[r] = "asked" <=> done[r] = "asked"
      <3>1. ASSUME NEW R, todo' = AddAll(done, R)
            PROVE  todo' \in Todos /\ \A r \in Request : todo'[r] = "asked" <=> done[r] = "asked"
        BY <2>2, <3>1, AddAllKeeps DEF Todos
      <3> QED  BY <2>1, <2>2, <3>1
    <2>4. \A r \in Request : Settles(Head(toTaker), r) => r = <<"shard", h>>
      BY <2>1, RequestsOf DEF Settles
    <2>5. header  BY <1>2, <2>1
    <2> QED  BY <1>1, <2>1, <2>2, <2>3, <2>4, <2>5, HandledStep DEF Todos
  <1>8. ASSUME NEW s \in Places, NEW e \in {"NONE", "UNKNOWN_TX"}, recv_tx_in_block(s, e)
        PROVE  WireInv'
    <2>. DEFINE q == <<"tx_in_block", s>>
                r == <<"tx", s>>
    <2>0. q \in Request /\ r \in Request /\ q # r  BY RequestsOf
    <2>1. /\ Head(toTaker) = <<"tx_in_block", s, e>> /\ Handled
          /\ UNCHANGED <<header, toGiver, open>>
      BY <1>8 DEF recv_tx_in_block, TakerIdle
    <2>2. \A o \in Request :
             Settles(Head(toTaker), o) => o = q \/ (o = r /\ e = "NONE")
      BY <2>1, RequestsOf DEF Settles
    <2>3. Head(toTaker) # <<"block">>  BY <2>1
    <2>4. CASE e # "NONE"
      <3>1. todo' = finish_todo(todo, q, FALSE)  BY <1>8, <2>4 DEF recv_tx_in_block
      <3>. HIDE DEF q, r
      <3>2. /\ todo' \in Todos /\ todo'[q] # "asked"
            /\ \A o \in Request : o # q => todo'[o] = todo[o]
            /\ todo[q] = "none" => todo' = todo
        BY <1>1, <2>0, <3>1, FinishSettles DEF Todos
      <3>3. \A o \in Request :
              todo'[o] = "asked" => todo[o] = "asked" /\ ~Settles(Head(toTaker), o)
        BY <2>2, <2>4, <3>2
      <3>4. ~header => \A o \in Request : o[1] # "tx" => todo'[o] = "none"
        <4>1. q[1] # "tx"  BY DEF q
        <4> QED  BY <1>3, <2>0, <3>2, <4>1
      <3> QED  BY <1>1, <2>1, <3>2, <3>3, <3>4, HandledStep DEF Todos
    <2>5. CASE e = "NONE" /\ ~header
      <3>1. todo' = todo  BY <1>8, <2>5 DEF recv_tx_in_block
      <3>2. \A o \in Request : todo'[o] = "asked" => o[1] = "tx"  BY <1>3, <2>5, <3>1
      <3> QED  BY <1>1, <1>3, <2>1, <2>3, <2>5, <3>1, <3>2, HandledStep DEF Todos
    <2>6. CASE e = "NONE" /\ header
      <3>. DEFINE half == finish_todo(todo, q, TRUE)
      <3>1. todo' = finish_todo(half, r, TRUE)  BY <1>8, <2>6 DEF recv_tx_in_block
      <3>. HIDE DEF q, r
      <3>2. /\ half \in Todos /\ half[q] # "asked"
            /\ \A o \in Request : o # q => half[o] = todo[o]
        BY <1>1, <2>0, FinishSettles DEF Todos
      <3>. HIDE DEF half
      <3>3. /\ todo' \in Todos /\ todo'[r] # "asked"
            /\ \A o \in Request : o # r => todo'[o] = half[o]
        BY <2>0, <3>1, <3>2, FinishSettles DEF Todos
      <3>4. \A o \in Request :
              todo'[o] = "asked" => todo[o] = "asked" /\ ~Settles(Head(toTaker), o)
        BY <2>0, <2>2, <3>2, <3>3
      <3> QED  BY <1>1, <2>1, <2>6, <3>3, <3>4, HandledStep DEF Todos
    <2> QED  BY <1>1, <2>4, <2>5, <2>6
  <1>9. ASSUME NEW s \in Places, NEW e \in {"NONE", "UNKNOWN_TX"}, recv_tx(s, e)
        PROVE  WireInv'
    <2>. DEFINE r == <<"tx", s>>
    <2>1. /\ Head(toTaker) = <<"tx", s, e>> /\ Handled /\ UNCHANGED <<header, toGiver, open>>
          /\ todo' = finish_todo(todo, r, e = "NONE")
      BY <1>9 DEF recv_tx
    <2>2. \A o \in Request : Settles(Head(toTaker), o) => o = r
      BY <2>1, RequestsOf DEF Settles
    <2>3. r \in Request /\ (e = "NONE") \in BOOLEAN /\ r[1] = "tx"  BY RequestsOf
    <2>. HIDE DEF r
    <2>4. /\ todo' \in Todos /\ todo'[r] # "asked"
          /\ \A o \in Request : o # r => todo'[o] = todo[o]
      BY <1>1, <2>1, <2>3, FinishSettles DEF Todos
    <2>5. \A o \in Request :
            todo'[o] = "asked" => todo[o] = "asked" /\ ~Settles(Head(toTaker), o)
      BY <2>2, <2>4
    <2>6. ~header' => \A o \in Request : o[1] # "tx" => todo'[o] = "none"
      BY <1>3, <2>1, <2>3, <2>4
    <2> QED  BY <1>1, <2>1, <2>4, <2>5, <2>6, HandledStep DEF Todos
  <1> QED  BY <1>4, <1>5, <1>6, <1>7, <1>8, <1>9 DEF Take

(* The taker sends a request, or that it has synced. *)
LEMMA AskStep == ASSUME WireInv, Write PROVE WireInv'
  <1>1. WireType /\ BlockFirst /\ HeaderFirst /\ AskedInFlight  BY DEF WireInv
  <1>2. ASSUME NEW r \in Request, get_todo_pkt(r)  PROVE WireInv'
    <2>1. /\ todo[r] = "waiting" /\ todo' = [todo EXCEPT ![r] = "asked"]
          /\ toGiver' = Append(toGiver, r) /\ UNCHANGED <<header, open, toTaker>>
      BY <1>2 DEF get_todo_pkt
    <2>2. toGiver' \in Seq(Asking) /\ OnWay(toGiver') = OnWay(toGiver) \cup {r}
      <3>1. r \in Asking  BY DEF Asking
      <3> QED  BY <1>1, <2>1, <3>1, SentOnWay DEF WireType
    <2>3. WireType'  BY <1>1, <2>1, <2>2 DEF WireType
    <2>4. BlockFirst'  BY <1>1, <2>1 DEF BlockFirst
    <2>5. HeaderFirst'
      <3>1. ~header => r[1] = "tx"  BY <1>1, <2>1 DEF HeaderFirst
      <3> QED  BY <1>1, <2>1, <2>2, <3>1 DEF HeaderFirst, WireType
    <2>6. \A o \in Request : o = r \/ InFlight(o) => InFlight(o)'
      BY <2>1, <2>2 DEF InFlight
    <2>7. \A o \in Request : o # r => todo'[o] = todo[o]  BY <1>1, <2>1 DEF WireType
    <2>8. AskedInFlight'  BY <1>1, <2>1, <2>6, <2>7 DEF AskedInFlight, NeverHears
    <2> QED  BY <2>3, <2>4, <2>5, <2>8 DEF WireInv
  <1>3. CASE set_filter
    <2>1. /\ toGiver' = Append(toGiver, <<"set_filter">>)
          /\ header /\ UNCHANGED <<todo, header, open, toTaker>>
      BY <1>3 DEF set_filter
    <2>2. toGiver' \in Seq(Asking) /\ OnWay(toGiver') = OnWay(toGiver) \cup {<<"set_filter">>}
      <3>1. <<"set_filter">> \in Asking  BY DEF Asking
      <3> QED  BY <1>1, <2>1, <3>1, SentOnWay DEF WireType
    <2>3. WireType' /\ BlockFirst' /\ HeaderFirst'
      BY <1>1, <2>1, <2>2 DEF WireType, BlockFirst, HeaderFirst
    <2>4. \A o \in Request : InFlight(o) => InFlight(o)'  BY <2>1, <2>2 DEF InFlight
    <2>5. AskedInFlight'  BY <1>1, <2>1, <2>4 DEF AskedInFlight, NeverHears
    <2> QED  BY <2>3, <2>5 DEF WireInv
  <1> QED  BY <1>2, <1>3 DEF Write

(* A transaction the taker looks for by its hash is on the list, not asked *)
(* for yet.                                                                *)
LEMMA WantStep == ASSUME WireInv, NEW s, WantInput(s) PROVE WireInv'
  <1>1. WireType /\ BlockFirst /\ HeaderFirst /\ AskedInFlight  BY DEF WireInv
  <1>2. todo' = AddAll(todo, {<<"tx", s>>}) /\ UNCHANGED <<header, open, toGiver, toTaker>>
    BY DEF WantInput
  <1>3. /\ todo' \in [Request -> {"none", "waiting", "asked", "failed"}]
        /\ \A r \in Request : todo'[r] = "asked" <=> todo[r] = "asked"
        /\ \A r \in Request : r # <<"tx", s>> => todo'[r] = todo[r]
    BY <1>1, <1>2, AddAllKeeps DEF WireType
  <1>4. WireType' /\ BlockFirst'  BY <1>1, <1>2, <1>3 DEF WireType, BlockFirst
  <1>5. HeaderFirst'  BY <1>1, <1>2, <1>3 DEF HeaderFirst
  <1>6. AskedInFlight'  BY <1>1, <1>2, <1>3 DEF AskedInFlight, InFlight, NeverHears
  <1> QED  BY <1>4, <1>5, <1>6 DEF WireInv

(* The elements of a finite set one after the other are a sequence. *)
LEMMA SetToSeqIsSeq == ASSUME NEW S, IsFiniteSet(S) PROVE SetToSeq(S) \in Seq(S)
  <1>1. Cardinality(S) \in Nat /\ ExistsBijection(1 .. Cardinality(S), S)
    BY FS_CardinalityType
  <1>2. \E f \in [1 .. Cardinality(S) -> S] : IsInjective(f)
    BY <1>1 DEF ExistsBijection, Bijection, Injection
  <1>3. SetToSeq(S) \in [1 .. Cardinality(S) -> S]  BY <1>2 DEF SetToSeq
  <1> QED  BY <1>1, <1>3

(* The block, if it comes, is followed by what is pushed with it. *)
LEMMA WireInvInit == ASSUME ContentsAssumption, ContentsInit PROVE WireInv
  <1>. DEFINE P    == {s \in Places : gives[s] = "tx" /\ Pushed(s)}
              push == IF syncing THEN <<>> ELSE SetToSeq(P)
              pkts == [i \in DOMAIN push |-> <<"tx_in_block", push[i], "NONE">>]
              T    == {"tx_in_block"} \X Places \X {"NONE"}
  <1>1. /\ header = FALSE /\ toGiver = <<>> /\ todo = [r \in Request |-> "none"]
        /\ toTaker = <<<<"block">>>> \o pkts \/ toTaker = <<>>
    BY DEF ContentsInit
  <1>2. push \in Seq(Places)
    <2>1. IsFiniteSet(P)  BY FS_Subset DEF ContentsAssumption
    <2>2. SetToSeq(P) \in Seq(P)  BY <2>1, SetToSeqIsSeq
    <2>. HIDE DEF P
    <2>3. P \subseteq Places  BY DEF P
    <2> QED  BY <2>2, <2>3
  <1>. HIDE DEF push
  <1>3. pkts \in Seq(T)
    <2>1. Len(push) \in Nat /\ DOMAIN push = 1 .. Len(push)  BY <1>2
    <2>2. pkts \in [1 .. Len(push) -> T]  BY <1>2, <2>1
    <2> QED  BY <2>1, <2>2
  <1>. HIDE DEF pkts
  <1>4. T \subseteq Answer /\ <<"block">> \in Answer  BY DEF Answer
  <1>5. <<"block">> \notin T /\ \A p \in T : p[1] \notin {"shard", "txmap"}  OBVIOUS
  <1>6. OnWay(<<>>) = {}  BY 1 .. Len(<<>>) = {} DEF OnWay
  <1>. HIDE DEF T
  <1>7. (\A r \in Request : todo[r] = "none") /\ AskedInFlight  BY <1>1 DEF AskedInFlight
  <1>10. /\ todo \in [Request -> {"none", "waiting", "asked", "failed"}]
         /\ header \in BOOLEAN /\ toGiver \in Seq(Asking)
    <2>1. header \in BOOLEAN  BY <1>1
    <2>2. toGiver \in Seq(Asking)  BY <1>1
    <2>3. todo \in [Request -> {"none", "waiting", "asked", "failed"}]  BY <1>1
    <2> QED  BY <2>1, <2>2, <2>3
  <1>8. CASE toTaker = <<<<"block">>>> \o pkts
    <2>1. /\ toTaker \in Seq(Answer) /\ toTaker # <<>> /\ Tail(toTaker) = pkts
          /\ Head(toTaker) = <<"block">>
      <3>1. pkts \in Seq(Answer)  BY <1>3, <1>4
      <3> QED  BY <1>4, <1>8, <3>1
    <2>2. OnWay(pkts) \subseteq T  BY <1>3 DEF OnWay
    <2>3. OnWay(toTaker) = OnWay(pkts) \cup {<<"block">>}  BY <2>1, HandledOnWay
    <2>4. \A p \in OnWay(toTaker) : p[1] \notin {"shard", "txmap"}
      BY <1>5, <2>2, <2>3, <<"block">>[1] = "block"
    <2>5. BlockFirst  BY <1>5, <2>1, <2>2 DEF BlockFirst
    <2>6. WireType  BY <1>10, <2>1 DEF WireType
    <2>7. HeaderFirst  BY <1>1, <1>6, <1>7, <2>4 DEF HeaderFirst
    <2> QED  BY <1>7, <2>5, <2>6, <2>7 DEF WireInv
  <1>9. CASE toTaker = <<>>
    <2>1. BlockFirst  BY <1>9 DEF BlockFirst
    <2>3. toTaker \in Seq(Answer)  BY <1>9
    <2>4. WireType  BY <1>10, <2>3 DEF WireType
    <2>2. HeaderFirst  BY <1>1, <1>6, <1>9, <1>7 DEF HeaderFirst
    <2> QED  BY <1>7, <2>1, <2>2, <2>4 DEF WireInv
  <1> QED  BY <1>1, <1>8, <1>9

(* Every step of the two keeps WireInv. *)
LEMMA WireInvStep == ASSUME WireInv, [ContentsNext]_contentVars PROVE WireInv'
  <1>1. CASE UNCHANGED contentVars
    BY <1>1 DEF contentVars, WireInv, WireType, BlockFirst, HeaderFirst, AskedInFlight,
                InFlight, NeverHears
  <1>2. ASSUME NEW s \in Spent, WantInput(s)  PROVE WireInv'  BY <1>2, WantStep
  <1> QED  BY <1>1, <1>2, GiveStep, TakeStep, AskStep, LearnStep DEF ContentsNext

(* When nothing is on its way between two connected nodes, what the one    *)
(* still has as outstanding is a map it asked for, which nothing settles,  *)
(* or a transaction of a block it does not know: every other answer, in    *)
(* whatever order it came and whatever was sent unasked in between, has    *)
(* been taken off the list (recv_shard(), recv_tx_in_block(), recv_tx()).  *)
THEOREM AllAnswersSettle ==
    ASSUME ContentsAssumption PROVE ContentsSpec => []AnswersSettle
  <1>1. ContentsInit => WireInv  BY WireInvInit
  <1>2. WireInv /\ [ContentsNext]_contentVars => WireInv'  BY WireInvStep
  <1>3. WireInv => AnswersSettle
    <2>1. OnWay(<<>>) = {}  BY 1 .. Len(<<>>) = {} DEF OnWay
    <2>2. ASSUME WireInv, toGiver = <<>>, toTaker = <<>>, open, NEW r \in Outstanding
          PROVE  r[1] = "txmap" \/ (r[1] = "tx" /\ ~header)
      <3>1. ~InFlight(r)  BY <2>1, <2>2 DEF InFlight
      <3> QED  BY <2>2, <3>1 DEF WireInv, AskedInFlight, Outstanding, NeverHears
    <2> QED  BY <2>2 DEF AnswersSettle
  <1> QED  BY <1>1, <1>2, <1>3, PTL DEF ContentsSpec
=============================================================================
