------------------------- MODULE TrajectoryLogProofs -------------------------
(***************************************************************************)
(* Theorems about the trajectory log and the two sides that meet in it:    *)
(* the file and its readers (TrajectoryLog), the records that feedback     *)
(* puts there (Feedback), and the schedulers that learn from them while    *)
(* the queue is idle (IdleLearning).  The three share no state, and each   *)
(* part below has an invariant of its own.                                 *)
(***************************************************************************)
EXTENDS TrajectoryLog, Feedback, IdleLearning,
        WellFoundedInduction, FiniteSetTheorems, SequenceTheorems, TLAPS

-----------------------------------------------------------------------------
(* TrajectoryLog.  A line is readable by its cells alone, and a file only  *)
(* grows: what is readable and ends with a newline stays so, and no write  *)
(* makes an older offset readable.                                         *)

Cells == {Newline} \cup ((1..MaxLines) \X {0, 1, 2})

\* Holds and LineStarts, cell by cell.
At(o, r) ==
    /\ o + 2 <= size /\ file[o + 1] = <<r, 1>> /\ file[o + 2] = <<r, 2>>
    /\ o + 2 = size \/ file[o + 3] = Newline
Starts(o) == o = 0 \/ file[o] = Newline

\* A scan of the whole log gets to the line at o.
Reached(o) == \A k \in Broken(0) : o < k

\* A record that is in the log with its newline, before any cut.
Solid(r) == \E o \in 0..(size - 1) : Starts(o) /\ At(o, r) /\ o + 2 < size /\ Reached(o)
Lost == {r \in acked : BeforeCut(r)} \ {r \in 1..written : Solid(r)}

\* No cell is of a record to come, and none is there twice.
FileInv ==
    /\ size <= 3 * written
    /\ \A p \in 1..size : file[p] # Newline =>
         /\ file[p][1] <= written
         /\ \A q \in 1..size : file[p] = file[q] => p = q

\* A torn line is a record that the next append will lose.
LossInv == Cardinality(Lost) + (IF Torn THEN 1 ELSE 0) <= crashes

\* What a follower has seen lies before its offset, and all that is readable
\* between the end of its tail and its offset it has seen.
SeenBefore(f) == \A r \in seen[f] : \E p \in 1..offset[f] : file[p] = <<r, 1>>
SeenAll(f) ==
    \A o \in 0..(size - 1), r \in 1..written :
        Starts(o) /\ At(o, r) /\ from[f] <= o /\ o < offset[f] => r \in seen[f]
Tailed(f) == IF from[f] = Never THEN offset[f] = 0 ELSE 0 < from[f] /\ from[f] <= offset[f]

ReaderInv == again = {} /\ \A f \in Followers : SeenBefore(f) /\ SeenAll(f) /\ Tailed(f)

LogInv == LogType /\ FileInv /\ LossInv /\ ReaderInv

-----------------------------------------------------------------------------
(* Lines. *)

\* A set of numbers has a least one.
LEMMA Least ==
    ASSUME NEW D \in SUBSET Nat, D # {}
    PROVE  \E m \in D : \A n \in D : m <= n
<1> DEFINE T == {0..n : n \in D}
<1>1. T \subseteq FiniteSubsetsOf(Nat) /\ T # {}
  <2>1. \A n \in D : IsFiniteSet(0..n) /\ 0..n \subseteq Nat
    BY FS_Interval
  <2> QED BY <2>1 DEF FiniteSubsetsOf
<1>2. IsWellFoundedOn(StrictSubsetOrdering(Nat), FiniteSubsetsOf(Nat))
  BY FS_StrictSubsetOrderingWellFounded
<1> HIDE DEF T
<1>3. PICK x \in T : \A y \in T : ~(<<y, x>> \in StrictSubsetOrdering(Nat))
  BY <1>1, <1>2, WFMin
<1>4. PICK m \in D : x = 0..m
  BY <1>3 DEF T
<1>5. ASSUME NEW n \in D, n < m PROVE FALSE
  <2>1. 0..n \in T /\ 0..n \in SUBSET Nat /\ 0..m \in SUBSET Nat
    BY DEF T
  <2>2. 0..n \subseteq 0..m /\ 0..n # 0..m
    <3>1. m \in 0..m /\ m \notin 0..n
      BY <1>5
    <3> QED BY <3>1, <1>5
  <2> QED BY <1>3, <1>4, <2>1, <2>2 DEF StrictSubsetOrdering
<1> QED BY <1>5

LEMMA CellsOfFile == LogType => file \in Seq(Cells) /\ size \in Nat /\ \A p \in 1..size : file[p] \in Cells
<1> SUFFICES ASSUME LogType PROVE file \in Seq(Cells) /\ size \in Nat /\ \A p \in 1..size : file[p] \in Cells
  OBVIOUS
<1>1. file \in Seq(Cells)
  BY DEF LogType, Cells
<1> HIDE DEF Cells
<1> QED BY <1>1, ElementOfSeq DEF size

\* The line at o is up to the first newline behind o, or to the end.
LEMMA LineEnds ==
    ASSUME LogType, NEW o \in 0..(size - 1)
    PROVE  \E last \in o..size :
             /\ LineAt(o) = SubSeq(file, o + 1, last)
             /\ last = size \/ file[last + 1] = Newline
             /\ \A e \in (o + 1)..last : file[e] # Newline
<1> DEFINE ends == {e \in (o + 1)..size : file[e] = Newline}
<1>0. size \in Nat
  BY CellsOfFile
<1>1. CASE ends = {}
  <2>1. LineAt(o) = SubSeq(file, o + 1, size)
    BY <1>1 DEF LineAt
  <2>2. \A e \in (o + 1)..size : file[e] # Newline
    BY <1>1
  <2> HIDE DEF ends
  <2> QED BY <1>0, <2>1, <2>2
<1>2. CASE ends # {}
  <2> DEFINE first == CHOOSE e \in ends : \A d \in ends : e <= d
  <2>1. first \in ends /\ \A d \in ends : first <= d
    <3>1. ends \in SUBSET Nat
      BY <1>0
    <3> HIDE DEF ends
    <3>2. \E m \in ends : \A n \in ends : m <= n
      BY <1>2, <3>1, Least
    <3> QED BY <3>2
  <2>2. LineAt(o) = SubSeq(file, o + 1, first - 1)
    BY <1>2 DEF LineAt
  <2> HIDE DEF first
  <2>3. first \in (o + 1)..size /\ file[first] = Newline
    BY <2>1
  <2>4. \A e \in (o + 1)..(first - 1) : file[e] # Newline
    BY <1>0, <2>1, <2>3
  <2>5. first - 1 \in o..size /\ (first - 1) + 1 = first
    BY <1>0, <2>3
  <2> HIDE DEF ends
  <2> QED BY <2>2, <2>3, <2>4, <2>5
<1> QED BY <1>1, <1>2

LEMMA HoldsAt ==
    ASSUME LogType, NEW o \in 0..(size - 1), NEW r \in 1..MaxLines
    PROVE  Holds(o, r) <=> At(o, r)
<1>0. size \in Nat /\ \A p \in 1..size : file[p] \in Cells
  BY CellsOfFile
<1>1. PICK last \in o..size :
        /\ LineAt(o) = SubSeq(file, o + 1, last)
        /\ last = size \/ file[last + 1] = Newline
        /\ \A e \in (o + 1)..last : file[e] # Newline
  BY LineEnds
<1>2. /\ Len(LineAt(o)) = last - o
      /\ \A i \in 1..(last - o) : LineAt(o)[i] = file[o + i]
      /\ LineAt(o) \in Seq(Cells)
  <2>1. \A i \in (o + 1)..last : file[i] \in Cells
    BY <1>0
  <2>2. o + 1 \in Int /\ last \in Int
    BY <1>0
  <2> HIDE DEF Cells
  <2>3. /\ SubSeq(file, o + 1, last) \in Seq(Cells)
        /\ Len(SubSeq(file, o + 1, last)) = IF o + 1 <= last THEN last - (o + 1) + 1 ELSE 0
        /\ \A i \in 1..(last - (o + 1) + 1) : SubSeq(file, o + 1, last)[i] = file[(o + 1) + i - 1]
    BY ONLY <2>1, <2>2, SubSeqProperties
  <2>4. last - (o + 1) + 1 = last - o /\ \A i \in Int : (o + 1) + i - 1 = o + i
    BY <1>0
  <2> QED BY <1>0, <1>1, <2>3, <2>4
<1>3. <<r, 1>> # Newline /\ <<r, 2>> # Newline
  BY DEF Newline
<1>4. ASSUME Holds(o, r) PROVE At(o, r)
  <2>1. Len(LineAt(o)) = 2 /\ LineAt(o)[1] = <<r, 1>> /\ LineAt(o)[2] = <<r, 2>>
    BY <1>4 DEF Holds
  <2>2. last = o + 2
    <3>1. o \in Int /\ last \in Int
      BY <1>0
    <3>2. last - o = 2
      BY ONLY <1>2, <2>1
    <3> QED BY ONLY <3>1, <3>2
  <2>3. file[o + 1] = <<r, 1>> /\ file[o + 2] = <<r, 2>>
    BY <1>0, <1>2, <2>1, <2>2
  <2> QED BY <1>0, <1>1, <2>2, <2>3 DEF At
<1>5. ASSUME At(o, r) PROVE Holds(o, r)
  <2>1. last = o + 2
    <3>1. file[o + 1] # Newline /\ file[o + 2] # Newline /\ o + 2 <= size
      BY <1>3, <1>5 DEF At
    <3>2. last # o /\ last # o + 1
      BY <1>0, <1>1, <3>1
    <3>3. ~(last > o + 2)
      BY <1>0, <1>1, <1>5 DEF At
    <3> QED BY <1>0, <3>2, <3>3
  <2>2. Len(LineAt(o)) = 2 /\ LineAt(o)[1] = <<r, 1>> /\ LineAt(o)[2] = <<r, 2>>
    BY <1>0, <1>2, <1>5, <2>1 DEF At
  <2>3. LineAt(o) = <<<<r, 1>>, <<r, 2>>>>
    <3>1. LineAt(o) \in Seq(Cells)
      BY <1>2
    <3> HIDE DEF Cells
    <3>2. LineAt(o) = <<LineAt(o)[1], LineAt(o)[2]>>
      BY ONLY <3>1, <2>2
    <3> QED BY ONLY <2>2, <3>2
  <2> QED BY <2>3 DEF Holds
<1> QED BY <1>4, <1>5

LEMMA InScan ==
    ASSUME LogType, NEW since \in 0..size, NEW x \in Scan(since)
    PROVE  /\ x = <<x[1], x[2]>> /\ x[2] \in 1..written
           /\ x[1] \in since..(size - 1) /\ (x[1] = since \/ file[x[1]] = Newline)
           /\ At(x[1], x[2])
<1>0. size \in Nat /\ written \in 0..MaxLines
  BY CellsOfFile DEF LogType
<1>1. x \in LineStarts(since) \X (1..written) /\ Holds(x[1], x[2])
  BY DEF Scan
<1>2. x[1] \in since..(size - 1) /\ (x[1] = since \/ file[x[1]] = Newline) /\ x[2] \in 1..written
  BY <1>1 DEF LineStarts
<1>3. x[1] \in 0..(size - 1) /\ x[2] \in 1..MaxLines
  BY <1>0, <1>2, LogBounds
<1> QED BY <1>1, <1>2, <1>3, HoldsAt

LEMMA ScanHas ==
    ASSUME LogType, NEW since \in 0..size, NEW o \in since..(size - 1), NEW r \in 1..written,
           o = since \/ file[o] = Newline, At(o, r), \A k \in Broken(since) : o < k
    PROVE  <<o, r>> \in Scan(since)
<1>0. size \in Nat /\ written \in 0..MaxLines
  BY CellsOfFile DEF LogType
<1>1. o \in 0..(size - 1) /\ r \in 1..MaxLines
  BY <1>0, LogBounds
<1>2. Holds(o, r)
  BY <1>1, HoldsAt
<1> QED BY <1>2 DEF Scan, LineStarts

-----------------------------------------------------------------------------
(* Writes. *)

\* What AppendRaw and CrashInAppend do to the file: k cells of a new line, or,
\* for k = 4, the line cut in a character.
Part(n, k) == IF k = 4 THEN <<<<n, 1>>, Cut(n)>> ELSE SubSeq(Line(n), 1, k)
Grows(k) == IF k = 4 THEN 2 ELSE k   \* by so many cells

Writes(k) ==
    /\ written < MaxLines /\ written' = written + 1
    /\ file' = file \o Part(written + 1, k)

LEMMA PartIs ==
    ASSUME NEW n \in 1..MaxLines, NEW k \in 0..4
    PROVE  /\ Part(n, k) \in Seq(Cells) /\ Len(Part(n, k)) = Grows(k)
           /\ k >= 1 => Part(n, k)[1] = <<n, 1>>
           /\ k \in {2, 3} => Part(n, k)[2] = <<n, 2>>
           /\ k = 3 => Part(n, k)[3] = Newline
           /\ k = 4 => Part(n, k)[2] = <<n, 0>>
<1>0. <<n, 0>> \in Cells /\ <<n, 1>> \in Cells /\ <<n, 2>> \in Cells /\ Newline \in Cells
  BY DEF Cells
<1> HIDE DEF Cells
<1>1. /\ Line(n) \in Seq(Cells) /\ Len(Line(n)) = 3
      /\ Line(n)[1] = <<n, 1>> /\ Line(n)[2] = <<n, 2>> /\ Line(n)[3] = Newline
  BY <1>0 DEF Line
<1>2. CASE k = 4
  BY <1>0, <1>2 DEF Part, Grows, Cut
<1>3. CASE k # 4
  <2>1. k \in 0..3 /\ \A i \in 1..k : i \in 1..3
    BY <1>3
  <2>2. \A i \in 1..k : Line(n)[i] \in Cells
    <3>1. \A i \in 1..3 : Line(n)[i] \in Cells
      BY ONLY <1>1, ElementOfSeq
    <3> QED BY ONLY <2>1, <3>1
  <2>3. /\ SubSeq(Line(n), 1, k) \in Seq(Cells) /\ Len(SubSeq(Line(n), 1, k)) = k
        /\ \A i \in 1..k : SubSeq(Line(n), 1, k)[i] = Line(n)[i]
    BY <2>1, <2>2, SubSeqProperties
  <2> QED BY <1>1, <1>3, <2>1, <2>3 DEF Part, Grows
<1> QED BY <1>2, <1>3

LEMMA Grown ==
    ASSUME LogType, NEW k \in 0..4, Writes(k)
    PROVE  /\ file' \in Seq(Cells) /\ size' = size + (IF k = 4 THEN 2 ELSE k) /\ size \in Nat
           /\ written \in Nat /\ written + 1 \in 1..MaxLines
           /\ \A p \in 1..size : file'[p] = file[p]
           /\ k >= 1 => file'[size + 1] = <<written + 1, 1>>
           /\ k \in {2, 3} => file'[size + 2] = <<written + 1, 2>>
           /\ k = 3 => file'[size + 3] = Newline
           /\ k = 4 => file'[size + 2] = <<written + 1, 0>>
<1>0. /\ file \in Seq(Cells) /\ size \in Nat /\ size = Len(file)
      /\ written \in Nat /\ written + 1 \in 1..MaxLines
  BY CellsOfFile, LogBounds DEF LogType, size, Writes
<1>1. PICK n : n = written + 1
  OBVIOUS
<1>2. PICK part : part = Part(n, k)
  OBVIOUS
<1>3. PICK c : c = Grows(k)
  OBVIOUS
<1>4. /\ part \in Seq(Cells) /\ Len(part) = c /\ c \in 0..3 /\ c = (IF k = 4 THEN 2 ELSE k)
      /\ k >= 1 => part[1] = <<n, 1>>
      /\ k \in {2, 3} => part[2] = <<n, 2>>
      /\ k = 3 => part[3] = Newline
      /\ k = 4 => part[2] = <<n, 0>>
  <2>1. n \in 1..MaxLines
    BY <1>0, <1>1
  <2>2. /\ part \in Seq(Cells) /\ Len(part) = c
        /\ k >= 1 => part[1] = <<n, 1>>
        /\ k \in {2, 3} => part[2] = <<n, 2>>
        /\ k = 3 => part[3] = Newline
        /\ k = 4 => part[2] = <<n, 0>>
    BY ONLY <1>2, <1>3, <2>1, PartIs, k \in 0..4
  <2>3. c \in 0..3 /\ c = (IF k = 4 THEN 2 ELSE k)
    BY <1>3 DEF Grows
  <2> QED BY <2>2, <2>3
<1>5. file' = file \o part
  BY <1>1, <1>2 DEF Writes
<1> HIDE DEF Cells
<1>6. /\ file' \in Seq(Cells) /\ Len(file') = size + c
      /\ \A i \in 1..(size + c) : file'[i] = IF i <= size THEN file[i] ELSE part[i - size]
  <2>1. part \in Seq(Cells) /\ Len(part) = c /\ file \in Seq(Cells) /\ Len(file) = size
    BY <1>0, <1>4
  <2> QED BY ONLY <1>5, <2>1, ConcatProperties
<1>7. size' = size + c
  BY <1>6 DEF size
<1>8. \A p \in 1..size : file'[p] = file[p]
  BY <1>0, <1>4, <1>6
<1>9. \A i \in 1..c : file'[size + i] = part[i]
  <2>1. ASSUME NEW i \in 1..c, NEW j \in 1..(size + c), j = size + i
        PROVE  file'[j] = part[i]
    <3>1. ~(j <= size) /\ j - size = i
      BY <1>0, <1>4, <2>1
    <3> QED BY <1>6, <3>1
  <2>2. \A i \in 1..c : size + i \in 1..(size + c)
    BY <1>0, <1>4
  <2> QED BY <2>1, <2>2
<1>10. /\ k >= 1 => 1 \in 1..c
       /\ k \in {2, 3, 4} => 2 \in 1..c
       /\ k = 3 => 3 \in 1..c
  BY <1>4
<1> QED
  <2>1. size' = size + (IF k = 4 THEN 2 ELSE k)
    BY ONLY <1>4, <1>7
  <2>2. /\ k >= 1 => file'[size + 1] = <<n, 1>>
        /\ k \in {2, 3} => file'[size + 2] = <<n, 2>>
        /\ k = 3 => file'[size + 3] = Newline
        /\ k = 4 => file'[size + 2] = <<n, 0>>
    BY <1>4, <1>9, <1>10
  <2> QED BY ONLY <1>0, <1>1, <1>6, <1>8, <2>1, <2>2

\* A write cuts at most its own line, and no cut is ever mended.
LEMMA CutsOfWrite ==
    ASSUME LogType, NEW k \in 0..4, Writes(k)
    PROVE  /\ Broken(0) \subseteq 1..size
           /\ Broken(0)' = Broken(0) \cup (IF k = 4 THEN {size + 2} ELSE {})
           /\ \A r : BeforeCut(r)' => BeforeCut(r)
<1>0. PICK n : n = written + 1
  OBVIOUS
<1>1. /\ size \in Nat /\ size' = size + (IF k = 4 THEN 2 ELSE k) /\ n \in Nat
      /\ \A p \in 1..size : file'[p] = file[p]
      /\ k >= 1 => file'[size + 1] = <<n, 1>>
      /\ k \in {2, 3} => file'[size + 2] = <<n, 2>>
      /\ k = 3 => file'[size + 3] = Newline
      /\ k = 4 => file'[size + 2] = <<n, 0>>
  BY <1>0, Grown
<1>2. PICK l : l = size
  OBVIOUS
<1>3. /\ Broken(0) = {i \in 1..l : file[i] # Newline /\ file[i][2] = 0}
      /\ Broken(0)' = {i \in 1..(l + (IF k = 4 THEN 2 ELSE k)) : file'[i] # Newline /\ file'[i][2] = 0}
  BY <1>1, <1>2 DEF Broken
<1>4. <<n, 1>>[2] = 1 /\ <<n, 2>>[2] = 2 /\ <<n, 0>>[2] = 0 /\ (n # 0 => <<n, 0>> # Newline) /\ n # 0
  BY <1>0, Grown DEF Newline
<1>5. \A i \in 1..(l + (IF k = 4 THEN 2 ELSE k)) : i \in 1..l \/ i = l + 1 \/ i = l + 2 \/ (i = l + 3 /\ k = 3)
  BY <1>1, <1>2
<1>6. \A i \in 1..l : i \in 1..(l + (IF k = 4 THEN 2 ELSE k))
  BY <1>1, <1>2
<1>7. Broken(0) \subseteq Broken(0)'
  BY ONLY <1>1, <1>2, <1>3, <1>6
<1>8. k = 4 => l + 2 \in Broken(0)'
  <2>1. k = 4 => l + 2 \in 1..(l + (IF k = 4 THEN 2 ELSE k))
    BY <1>1, <1>2
  <2> QED BY ONLY <1>1, <1>2, <1>3, <1>4, <2>1
<1>9. ASSUME NEW i \in Broken(0)', i \notin Broken(0) PROVE k = 4 /\ i = l + 2
  <2>1. i \in 1..(l + (IF k = 4 THEN 2 ELSE k)) /\ file'[i] # Newline /\ file'[i][2] = 0
    BY ONLY <1>3, <1>9
  <2>2. i \notin 1..l
    BY ONLY <1>1, <1>2, <1>3, <1>9, <2>1
  <2>3. i = l + 1 \/ i = l + 2 \/ (i = l + 3 /\ k = 3)
    BY ONLY <1>5, <2>1, <2>2
  <2>4. i # l + 1
    <3> SUFFICES ASSUME i = l + 1 PROVE FALSE
      OBVIOUS
    <3>1. k >= 1
      BY <1>1, <1>2, <2>1
    <3>2. file'[i] = <<n, 1>> /\ 1 # 0
      BY <1>1, <1>2, <3>1
    <3> QED BY ONLY <1>4, <2>1, <3>2
  <2>5. ~(i = l + 3 /\ k = 3)
    BY ONLY <1>1, <1>2, <2>1
  <2>6. i = l + 2 /\ k \in {2, 3, 4}
    BY <1>1, <1>2, <2>1, <2>3, <2>4, <2>5
  <2>7. k \notin {2, 3}
    BY ONLY <1>1, <1>2, <1>4, <2>1, <2>6
  <2> QED BY <2>6, <2>7
<1>10. Broken(0)' = Broken(0) \cup (IF k = 4 THEN {size + 2} ELSE {})
  BY ONLY <1>2, <1>7, <1>8, <1>9
<1>11. Broken(0) \subseteq 1..size
  BY <1>2, <1>3
<1>12. ASSUME NEW r, BeforeCut(r)' PROVE BeforeCut(r)
  BY ONLY <1>1, <1>7, <1>11, <1>12 DEF BeforeCut
<1> QED BY <1>10, <1>11, <1>12

LEMMA AppendWrites == ASSUME LogType, AppendRaw PROVE Writes(3)
<1>1. SubSeq(Line(written + 1), 1, 3) = Line(written + 1)
  <2>1. Line(written + 1) \in Seq({<<written + 1, 1>>, <<written + 1, 2>>, Newline})
        /\ Len(Line(written + 1)) = 3
    BY DEF Line
  <2> QED BY <2>1, SubSeqFull
<1>2. Part(written + 1, 3) = Line(written + 1)
  BY <1>1 DEF Part
<1> QED BY <1>2 DEF AppendRaw, Writes

LEMMA CrashWrites == ASSUME LogType, CrashInAppend PROVE \E k \in 0..4 : Writes(k)
<1>1. PICK part \in Pieces(written + 1) : file' = file \o part
  BY DEF CrashInAppend
<1>2. \E k \in 0..4 : part = Part(written + 1, k)
  <2>1. CASE part = <<<<written + 1, 1>>, Cut(written + 1)>>
    <3>1. part = Part(written + 1, 4)
      BY <2>1 DEF Part
    <3> QED BY <3>1
  <2>2. CASE \E k \in 0..3 : part = SubSeq(Line(written + 1), 1, k)
    <3>1. PICK k \in 0..3 : part = SubSeq(Line(written + 1), 1, k)
      BY <2>2
    <3>2. k # 4 /\ k \in 0..4
      OBVIOUS
    <3>3. part = Part(written + 1, k)
      BY <3>1, <3>2 DEF Part
    <3> QED BY <3>2, <3>3
  <2> QED BY <2>1, <2>2 DEF Pieces
<1> QED BY <1>1, <1>2 DEF CrashInAppend, Writes

\* What is complete stays so, and what is behind a newline becomes complete.
LEMMA SolidKept ==
    ASSUME LogType, NEW k \in 0..4, Writes(k), NEW r, Solid(r)
    PROVE  Solid(r)'
<1>0. /\ size \in Nat /\ size' \in Nat /\ size' >= size
      /\ \A p \in 1..size : file'[p] = file[p]
  BY Grown
<1>1. PICK o \in 0..(size - 1) : Starts(o) /\ At(o, r) /\ o + 2 < size /\ Reached(o)
  BY DEF Solid
<1>2. size \in Nat /\ size' \in Nat /\ size' >= size /\ o \in Nat /\ o + 2 < size
  BY <1>0, <1>1
<1>3. o + 1 \in 1..size /\ o + 2 \in 1..size /\ o + 3 \in 1..size /\ (o = 0 \/ o \in 1..size)
  BY ONLY <1>2
<1>4. o \in 0..(size' - 1) /\ o + 2 < size' /\ o + 2 # size
  <2>1. \A m, n, j \in Nat : j + 2 < m /\ n >= m => j \in 0..(n - 1) /\ j + 2 < n /\ j + 2 # m
    OBVIOUS
  <2> QED BY <1>2, <2>1
<1>5. /\ file'[o + 1] = file[o + 1] /\ file'[o + 2] = file[o + 2] /\ file'[o + 3] = file[o + 3]
      /\ o = 0 \/ file'[o] = file[o]
  BY ONLY <1>0, <1>3
<1>6. Starts(o)' /\ At(o, r)'
  <2>1. file[o + 1] = <<r, 1>> /\ file[o + 2] = <<r, 2>> /\ file[o + 3] = Newline
    BY <1>1, <1>4 DEF At
  <2>2. o + 2 <= size'
    BY <1>4, <1>2
  <2>3. o = 0 \/ file'[o] = Newline
    BY <1>1, <1>5 DEF Starts
  <2> QED BY <1>5, <2>1, <2>2, <2>3 DEF Starts, At
<1>7. Reached(o)'
  <2>1. \A j \in Broken(0)' : o < j
    BY <1>1, <1>2, CutsOfWrite DEF Reached
  <2> QED BY <2>1 DEF Reached
<1> QED BY <1>4, <1>6, <1>7 DEF Solid

LEMMA NewIsSolid ==
    ASSUME LogType, Writes(3), ~Torn, Broken(0) = {}, NEW n, n = written + 1
    PROVE  Solid(n)'
<1>0. /\ size \in Nat /\ size' = size + 3
      /\ file'[size + 1] = <<n, 1>> /\ file'[size + 2] = <<n, 2>>
      /\ file'[size + 3] = Newline /\ \A p \in 1..size : file'[p] = file[p]
  BY Grown
<1>1. PICK o \in Nat : o = size
  BY <1>0
<1>2. o \in 0..(size' - 1) /\ o + 2 < size' /\ o + 2 <= size'
  BY <1>0, <1>1
<1>3. o = 0 \/ file'[o] = Newline
  BY <1>0, <1>1 DEF Torn
<1>4. At(o, n)'
  BY <1>0, <1>1, <1>2 DEF At
<1>5. Starts(o)'
  BY <1>3 DEF Starts
<1>6. Reached(o)'
  <2>1. Broken(0)' = {}
    BY CutsOfWrite
  <2> QED BY <2>1 DEF Reached
<1> QED BY <1>2, <1>4, <1>5, <1>6 DEF Solid

\* No write makes a line readable that began before it.
LEMMA NothingOldAppears ==
    ASSUME LogType, FileInv, NEW k \in 0..4, Writes(k), NEW o \in 0..(size - 1), NEW r \in 1..(written + 1),
           Starts(o)', At(o, r)'
    PROVE  r \in 1..written /\ Starts(o) /\ At(o, r)
<1>0. /\ size \in Nat /\ written \in Nat /\ size' = size + (IF k = 4 THEN 2 ELSE k) /\ o + 1 \in 1..size
      /\ \A p \in 1..size : file'[p] = file[p]
  BY Grown
<1>1. file[o + 1] = <<r, 1>> /\ file'[o + 2] = <<r, 2>>
  BY <1>0 DEF At
<1>2. <<r, 1>> # Newline /\ <<r, 2>> # Newline
  BY DEF Newline
<1>3. r <= written
  <2>1. file[o + 1][1] <= written
    BY <1>0, <1>1, <1>2 DEF FileInv
  <2> QED BY <1>1, <2>1
<1>4. Starts(o)
  BY <1>0 DEF Starts
<1>5. o + 2 <= size
  <2> SUFFICES ASSUME o + 1 = size PROVE FALSE
    BY <1>0
  <2>1. o + 2 = size + 1 /\ k >= 1
    BY <1>0 DEF At
  <2>2. file'[size + 1] = <<written + 1, 1>>
    BY <2>1, Grown
  <2> QED BY <1>1, <2>1, <2>2
<1>6. file[o + 2] = <<r, 2>>
  BY <1>0, <1>1, <1>5
<1>7. o + 2 = size \/ file[o + 3] = Newline
  <2> SUFFICES ASSUME o + 2 # size PROVE file[o + 3] = Newline
    OBVIOUS
  <2>1. o + 3 \in 1..size /\ o + 2 # size'
    BY <1>0, <1>5
  <2> QED BY <1>0, <2>1 DEF At
<1> QED BY <1>1, <1>3, <1>4, <1>5, <1>6, <1>7 DEF At

LEMMA FileGrows ==
    ASSUME LogType, FileInv, NEW k \in 0..4, Writes(k)
    PROVE  FileInv'
<1>0. /\ size \in Nat /\ written \in Nat /\ size' = size + (IF k = 4 THEN 2 ELSE k)
      /\ written' = written + 1 /\ \A p \in 1..size : file'[p] = file[p]
  BY Grown DEF Writes
<1>1. size' <= 3 * written'
  BY <1>0 DEF FileInv
<1>2. \A p \in 1..size' : p \in 1..size \/ p = size + 1 \/ p = size + 2 \/ p = size + 3
  BY <1>0
<1> DEFINE second == IF k = 4 THEN 0 ELSE 2
<1>3. \A j \in {1, 2, 3} : size + j \in 1..size' =>
        file'[size + j] = IF j = 3 THEN Newline ELSE <<written + 1, IF j = 1 THEN 1 ELSE second>>
  <2> SUFFICES ASSUME NEW j \in {1, 2, 3}, size + j \in 1..size'
               PROVE  file'[size + j] = IF j = 3 THEN Newline ELSE <<written + 1, IF j = 1 THEN 1 ELSE second>>
    OBVIOUS
  <2>1. j <= (IF k = 4 THEN 2 ELSE k)
    BY <1>0
  <2>2. CASE j = 1
    <3>1. k >= 1
      BY <2>1, <2>2
    <3> QED BY <2>2, <3>1, Grown
  <2>3. CASE j = 2
    <3>1. k \in {2, 3} \/ k = 4
      BY <2>1, <2>3
    <3> QED BY <2>3, <3>1, Grown
  <2>4. CASE j = 3
    <3>1. k = 3
      BY <2>1, <2>4
    <3> QED BY <2>4, <3>1, Grown
  <2> QED BY <2>2, <2>3, <2>4
<1>4. ASSUME NEW p \in 1..size', file'[p] # Newline
      PROVE  /\ file'[p][1] <= written'
             /\ \A q \in 1..size' : file'[p] = file'[q] => p = q
  <2>1. CASE p \in 1..size
    <3>1. file'[p] = file[p] /\ file[p][1] <= written
      BY <1>0, <1>4, <2>1 DEF FileInv
    <3>2. file[p][1] \in Nat
      BY <1>4, <2>1, <3>1, CellsOfFile DEF Cells
    <3>3. ASSUME NEW q \in 1..size', file'[p] = file'[q] PROVE p = q
      <4>1. CASE q \in 1..size
        BY <1>0, <1>4, <2>1, <3>1, <3>3, <4>1 DEF FileInv
      <4>2. CASE q \notin 1..size
        <5>1. PICK j \in {1, 2, 3} : q = size + j
          BY <1>2, <4>2
        <5>2. file'[q] = Newline \/ file'[q][1] = written + 1
          BY <1>3, <5>1
        <5> QED BY <1>0, <1>4, <3>1, <3>2, <3>3, <5>2
      <4> QED BY <4>1, <4>2
    <3> QED BY <1>0, <3>1, <3>2, <3>3
  <2>2. CASE p \notin 1..size
    <3>1. PICK i \in {1, 2}, c \in {1, second} :
            p = size + i /\ file'[p] = <<written + 1, c>> /\ c = IF i = 1 THEN 1 ELSE second
      BY <1>2, <1>3, <1>4, <2>2
    <3>2. ASSUME NEW q \in 1..size', file'[p] = file'[q] PROVE p = q
      <4>1. CASE q \in 1..size
        <5>1. file[q] = <<written + 1, c>> /\ file[q] # Newline
          BY <1>0, <1>4, <3>1, <3>2, <4>1
        <5>2. file[q][1] <= written
          BY <4>1, <5>1 DEF FileInv
        <5> QED BY <1>0, <5>1, <5>2
      <4>2. CASE q \notin 1..size
        <5>1. PICK j \in {1, 2}, d \in {1, second} :
                q = size + j /\ file'[q] = <<written + 1, d>> /\ d = IF j = 1 THEN 1 ELSE second
          BY <1>2, <1>3, <1>4, <3>2, <4>2
        <5>2. <<written + 1, c>> = <<written + 1, d>> => c = d
          OBVIOUS
        <5>3. c = d => i = j
          BY <3>1, <5>1
        <5> QED BY <3>1, <3>2, <5>1, <5>2, <5>3
      <4> QED BY <4>1, <4>2
    <3> QED BY <1>0, <3>1, <3>2
  <2> QED BY <2>1, <2>2
<1> QED BY <1>1, <1>4 DEF FileInv

-----------------------------------------------------------------------------
(* Crashes lose little. *)

LEMMA LostIsFinite == ASSUME LogType PROVE IsFiniteSet(Lost) /\ Cardinality(Lost) \in Nat /\ IsFiniteSet(acked)
<1>1. IsFiniteSet(1..written) /\ acked \subseteq 1..written
  BY FS_Interval DEF LogType
<1>2. IsFiniteSet(acked)
  BY <1>1, FS_Subset
<1>3. Lost \subseteq acked
  BY DEF Lost
<1> QED BY <1>2, <1>3, FS_Subset, FS_CardinalityType

LEMMA AppendLosesTheTorn == ASSUME LogType, FileInv, LossInv, AppendRaw PROVE LossInv'
<1>1. Writes(3) /\ written \in Nat /\ written' = written + 1 /\ acked' = acked \cup {written + 1}
      /\ crashes' = crashes /\ crashes \in Nat
  BY AppendWrites DEF AppendRaw, LogType
<1>2. ~Torn'
  <2>1. size \in Nat /\ size' = size + 3 /\ file'[size + 3] = Newline
    BY <1>1, Grown
  <2> QED BY <2>1 DEF Torn
<1>3. Lost' \subseteq Lost \cup {written + 1}
  <2> SUFFICES ASSUME NEW r \in Lost', r # written + 1 PROVE r \in Lost
    OBVIOUS
  <2>1. r \in acked /\ BeforeCut(r) /\ ~(r \in 1..written' /\ Solid(r)')
    BY <1>1, CutsOfWrite DEF Lost
  <2>2. ASSUME r \in 1..written, Solid(r) PROVE FALSE
    BY <1>1, <2>1, <2>2, SolidKept
  <2> QED BY <2>1, <2>2 DEF Lost
<1>4. IsFiniteSet(Lost) /\ Cardinality(Lost) \in Nat
  BY LostIsFinite
<1>5. CASE Torn
  <2>1. Cardinality(Lost \cup {written + 1}) <= Cardinality(Lost) + 1
        /\ IsFiniteSet(Lost \cup {written + 1})
    BY <1>4, FS_AddElement
  <2>2. Cardinality(Lost') <= Cardinality(Lost \cup {written + 1}) /\ Cardinality(Lost') \in Nat
        /\ Cardinality(Lost \cup {written + 1}) \in Nat
    BY <1>3, <2>1, FS_Subset, FS_CardinalityType
  <2>3. Cardinality(Lost) + 1 <= crashes
    BY <1>5 DEF LossInv
  <2>4. Cardinality(Lost') <= crashes
    BY <1>1, <1>4, <2>1, <2>2, <2>3
  <2> QED BY <1>1, <1>2, <2>2, <2>4 DEF LossInv
<1>6. CASE ~Torn
  <2>1. written + 1 \notin Lost'
    <3>1. written + 1 \in 1..written'
      BY <1>1
    <3>2. ASSUME NEW n, n = written + 1 PROVE n \notin Lost'
      <4>1. CASE Broken(0) = {}
        BY <1>1, <1>6, <3>1, <3>2, <4>1, NewIsSolid DEF Lost
      <4>2. CASE Broken(0) # {}
        <5>1. PICK j \in Broken(0)' : j \in 1..size /\ file[j] # Newline
          BY <1>1, <4>2, CutsOfWrite DEF Broken
        <5>2. file'[j] = file[j] /\ file[j][1] <= written /\ file[j] \in Cells
          BY <1>1, <5>1, Grown, CellsOfFile DEF FileInv
        <5>3. file[j][1] \in Nat
          BY <5>1, <5>2 DEF Cells
        <5>4. ~(n < file'[j][1])
          BY <1>1, <3>2, <5>2, <5>3
        <5> QED BY <5>1, <5>4 DEF Lost, BeforeCut
      <4> QED BY <4>1, <4>2
    <3> QED BY <3>2
  <2>2. Lost' \subseteq Lost
    BY <1>3, <2>1
  <2>3. Cardinality(Lost') <= Cardinality(Lost) /\ Cardinality(Lost') \in Nat
    BY <1>4, <2>2, FS_Subset, FS_CardinalityType
  <2>4. Cardinality(Lost) <= crashes
    BY <1>4, <1>6 DEF LossInv
  <2> QED BY <1>1, <1>2, <1>4, <2>3, <2>4 DEF LossInv
<1> QED BY <1>5, <1>6

LEMMA CrashIsCounted == ASSUME LogType, LossInv, CrashInAppend PROVE LossInv'
<1>1. PICK k \in 0..4 : Writes(k)
  BY CrashWrites
<1>2. acked' = acked /\ written \in Nat /\ written' = written + 1 /\ crashes' = crashes + 1 /\ crashes \in Nat
  BY DEF CrashInAppend, LogType
<1>3. Lost' \subseteq Lost
  <2> SUFFICES ASSUME NEW r \in Lost' PROVE r \in Lost
    OBVIOUS
  <2>1. r \in acked /\ BeforeCut(r) /\ ~(r \in 1..written' /\ Solid(r)')
    BY <1>1, <1>2, CutsOfWrite DEF Lost
  <2>2. ASSUME r \in 1..written, Solid(r) PROVE FALSE
    BY <1>1, <1>2, <2>1, <2>2, SolidKept
  <2> QED BY <2>1, <2>2 DEF Lost
<1>4. IsFiniteSet(Lost) /\ Cardinality(Lost) \in Nat
  BY LostIsFinite
<1>5. Cardinality(Lost') <= Cardinality(Lost) /\ Cardinality(Lost') \in Nat
  BY <1>3, <1>4, FS_Subset, FS_CardinalityType
<1>6. Cardinality(Lost) <= crashes
  BY <1>2, <1>4 DEF LossInv
<1>7. Cardinality(Lost') + 1 <= crashes'
  BY <1>2, <1>4, <1>5, <1>6
<1> QED BY <1>2, <1>5, <1>7 DEF LossInv

LEMMA LossBoundsReaders ==
    ASSUME LogType, LossInv PROVE CrashLosesAtMostOne
<1> DEFINE missed == {r \in acked \ Records(Scan(0)) : BeforeCut(r)}
<1>1. missed \subseteq Lost
  <2> SUFFICES ASSUME NEW r \in 1..written, Solid(r) PROVE r \in Records(Scan(0))
    BY DEF Lost
  <2>1. PICK o \in 0..(size - 1) : Starts(o) /\ At(o, r) /\ Reached(o)
    BY DEF Solid
  <2>2. <<o, r>> \in Scan(0)
    BY <2>1, ScanHas, CellsOfFile DEF Starts, Reached
  <2> QED BY <2>2 DEF Records
<1> HIDE DEF missed
<1>2. Cardinality(missed) <= Cardinality(Lost) /\ Cardinality(missed) \in Nat
  BY <1>1, LostIsFinite, FS_Subset, FS_CardinalityType
<1>3. Cardinality(Lost) <= crashes
  BY LostIsFinite DEF LossInv, LogType
<1> QED BY <1>2, <1>3, LostIsFinite DEF missed, CrashLosesAtMostOne, LogType

-----------------------------------------------------------------------------
(* Readers. *)

\* What a poll sends.
LEMMA PollSends ==
    ASSUME LogType, NEW f \in Followers, Poll(f)
    PROVE  \E sent \in SUBSET (1..written) :
             /\ seen' = [seen EXCEPT ![f] = @ \cup sent]
             /\ again' = IF sent \cap seen[f] # {} THEN again \cup {f} ELSE again
             /\ \A r \in sent : \E o \in offset[f]..(size - 1) : At(o, r)
             /\ offset[f] # 0 =>
                  \A o \in offset[f]..(size - 1), r \in 1..written : Starts(o) /\ At(o, r) => r \in sent
<1>0. size \in Nat /\ offset[f] \in 0..size
  BY CellsOfFile DEF LogType
<1>1. PICK items \in SUBSET Scan(offset[f]) :
        /\ offset[f] # 0 => items = Scan(offset[f])
        /\ seen' = [seen EXCEPT ![f] = @ \cup Records(items)]
        /\ again' = IF Records(items) \cap seen[f] # {} THEN again \cup {f} ELSE again
  <2> DEFINE sent == IF offset[f] = 0 THEN LastOf(Scan(offset[f]), TailN) ELSE Scan(offset[f])
  <2>1. sent \in SUBSET Scan(offset[f])
    BY DEF LastOf
  <2>2. /\ seen' = [seen EXCEPT ![f] = @ \cup Records(sent)]
        /\ again' = IF Records(sent) \cap seen[f] # {} THEN again \cup {f} ELSE again
    BY DEF Poll
  <2> QED BY <2>1, <2>2
<1>2. \A x \in items : x[2] \in 1..written /\ x[1] \in offset[f]..(size - 1) /\ At(x[1], x[2])
  BY <1>0, <1>1, InScan
<1>3. Records(items) \in SUBSET (1..written)
  BY <1>2 DEF Records
<1>4. \A r \in Records(items) : \E o \in offset[f]..(size - 1) : At(o, r)
  BY <1>2 DEF Records
<1>5. ASSUME offset[f] # 0, NEW o \in offset[f]..(size - 1), NEW r \in 1..written, Starts(o), At(o, r)
      PROVE  r \in Records(items)
  <2>1. o # 0 /\ file[o] = Newline
    BY <1>0, <1>5 DEF Starts
  <2>2. <<o, r>> \in items
    <3>1. Broken(offset[f]) = {}
      BY DEF Poll
    <3>2. <<o, r>> \in Scan(offset[f])
      BY <1>0, <1>5, <2>1, <3>1, ScanHas
    <3> QED BY <1>1, <1>5, <3>2
  <2> QED BY <2>2 DEF Records
<1> QED BY <1>1, <1>3, <1>4, <1>5

LEMMA InitialLog == LogInit => LogInv
<1> SUFFICES ASSUME LogInit PROVE LogInv
  OBVIOUS
<1>1. file = <<>> /\ size = 0 /\ written = 0 /\ acked = {} /\ crashes = 0
  BY DEF LogInit, size
<1>2. LogType
  <2>1. file \in Seq({Newline} \cup ((1..MaxLines) \X {0, 1, 2}))
    BY <1>1
  <2> QED BY <1>1, <2>1, LogBounds DEF LogInit, LogType, Never
<1>3. FileInv
  BY <1>1 DEF FileInv
<1>4. LossInv
  <2>1. Lost = {} /\ ~Torn
    BY <1>1 DEF Lost, Torn
  <2> QED BY <1>1, <2>1, FS_EmptySet DEF LossInv
<1>5. ReaderInv
  BY <1>1, LogBounds DEF LogInit, ReaderInv, SeenBefore, SeenAll, Tailed, Never
<1> QED BY <1>2, <1>3, <1>4, <1>5 DEF LogInv

LEMMA WriteKeepsReaders ==
    ASSUME LogInv, NEW k \in 0..4, Writes(k), UNCHANGED <<offset, from, seen, again>>
    PROVE  ReaderInv'
<1> USE DEF LogInv
<1>0. /\ size \in Nat /\ written \in Nat /\ size' = size + (IF k = 4 THEN 2 ELSE k) /\ written' = written + 1
      /\ \A p \in 1..size : file'[p] = file[p]
      /\ offset \in [Followers -> 0..size]
  BY Grown DEF Writes, LogType
<1>1. ASSUME NEW f \in Followers PROVE SeenBefore(f)'
  <2>1. SeenBefore(f) /\ offset[f] \in 0..size
    BY <1>0 DEF ReaderInv
  <2>2. \A p \in 1..offset[f] : p \in 1..size
    BY <1>0, <2>1
  <2> QED BY <1>0, <2>1, <2>2 DEF SeenBefore
<1>2. ASSUME NEW f \in Followers PROVE SeenAll(f)'
  <2>1. SeenAll(f) /\ offset[f] \in 0..size
    BY <1>0 DEF ReaderInv
  <2>2. ASSUME NEW o \in 0..(size' - 1), NEW r \in 1..written', Starts(o)', At(o, r)',
               from[f] <= o, o < offset[f]
        PROVE  r \in seen[f]
    <3>1. o \in 0..(size - 1) /\ r \in 1..(written + 1)
      BY <1>0, <2>1, <2>2
    <3>2. r \in 1..written /\ Starts(o) /\ At(o, r)
      BY <2>2, <3>1, NothingOldAppears
    <3> QED BY <2>1, <2>2, <3>1, <3>2 DEF SeenAll
  <2> QED BY <2>2 DEF SeenAll
<1>3. ASSUME NEW f \in Followers PROVE Tailed(f)'
  BY DEF ReaderInv, Tailed, Never
<1> QED BY <1>1, <1>2, <1>3 DEF ReaderInv

LEMMA PollKeepsReaders ==
    ASSUME LogInv, NEW f \in Followers, Poll(f)
    PROVE  ReaderInv'
<1> USE DEF LogInv
<1>0. /\ size \in Nat /\ written \in Nat /\ size <= 3 * written /\ written <= MaxLines
      /\ offset \in [Followers -> 0..size] /\ from \in [Followers -> 0..Never]
      /\ seen \in [Followers -> SUBSET (1..written)]
      /\ file' = file /\ size' = size /\ written' = written
  BY CellsOfFile DEF LogType, FileInv, Poll, size
<1>1. /\ offset' = [offset EXCEPT ![f] = size]
      /\ from' = IF from[f] = Never /\ size > 0 THEN [from EXCEPT ![f] = size] ELSE from
  BY DEF Poll
<1>2. PICK sent \in SUBSET (1..written) :
        /\ seen' = [seen EXCEPT ![f] = @ \cup sent]
        /\ again' = IF sent \cap seen[f] # {} THEN again \cup {f} ELSE again
        /\ \A r \in sent : \E o \in offset[f]..(size - 1) : At(o, r)
        /\ offset[f] # 0 =>
             \A o \in offset[f]..(size - 1), r \in 1..written : Starts(o) /\ At(o, r) => r \in sent
  BY PollSends
<1>3. \A r \in sent : \E p \in (offset[f] + 1)..size : file[p] = <<r, 1>>
  <2> SUFFICES ASSUME NEW r \in sent PROVE \E p \in (offset[f] + 1)..size : file[p] = <<r, 1>>
    OBVIOUS
  <2>1. PICK o \in offset[f]..(size - 1) : At(o, r)
    BY <1>2
  <2>2. offset[f] \in Nat
    BY <1>0
  <2>3. o + 1 \in (offset[f] + 1)..size /\ file[o + 1] = <<r, 1>>
    BY <1>0, <2>1, <2>2 DEF At
  <2> QED BY <2>3
<1>4. sent \cap seen[f] = {}
  <2> SUFFICES ASSUME NEW r \in sent, r \in seen[f] PROVE FALSE
    OBVIOUS
  <2>1. PICK p \in (offset[f] + 1)..size : file[p] = <<r, 1>>
    BY <1>3
  <2>2. PICK q \in 1..offset[f] : file[q] = <<r, 1>>
    BY DEF ReaderInv, SeenBefore
  <2>3. r \in 1..written
    OBVIOUS
  <2>4. <<r, 1>> # Newline
    BY <2>3 DEF Newline
  <2>5. offset[f] \in 0..size
    BY <1>0
  <2>6. p \in 1..size /\ q \in 1..size /\ p # q
    BY <1>0, <2>5
  <2> QED BY <2>1, <2>2, <2>4, <2>6 DEF FileInv
<1>5. again' = {}
  BY <1>2, <1>4 DEF ReaderInv
<1>6. ASSUME NEW g \in Followers, g # f PROVE SeenBefore(g)' /\ SeenAll(g)' /\ Tailed(g)'
  <2>1. offset'[g] = offset[g] /\ from'[g] = from[g] /\ seen'[g] = seen[g]
    BY <1>0, <1>1, <1>2, <1>6
  <2>2. SeenBefore(g) /\ SeenAll(g) /\ Tailed(g)
    BY DEF ReaderInv
  <2>3. SeenBefore(g)'
    BY <1>0, <2>1, <2>2 DEF SeenBefore
  <2>4. SeenAll(g)'
    BY <1>0, <2>1, <2>2 DEF SeenAll, Starts, At
  <2>5. Tailed(g)'
    BY <2>1, <2>2 DEF Tailed, Never
  <2> QED BY <2>3, <2>4, <2>5
<1>7. SeenBefore(f)'
  <2>1. offset[f] \in 0..size /\ offset'[f] = size /\ seen'[f] = seen[f] \cup sent
    BY <1>0, <1>1, <1>2
  <2>2. \A r \in seen[f] : \E p \in 1..size : file[p] = <<r, 1>>
    <3>1. \A p \in 1..offset[f] : p \in 1..size
      BY <1>0, <2>1
    <3> QED BY <3>1 DEF ReaderInv, SeenBefore
  <2>3. \A r \in sent : \E p \in 1..size : file[p] = <<r, 1>>
    <3>1. \A p \in (offset[f] + 1)..size : p \in 1..size
      BY <1>0, <2>1
    <3> QED BY <1>3, <3>1
  <2> QED BY <1>0, <2>1, <2>2, <2>3 DEF SeenBefore
<1>8. Tailed(f)'
  <2>1. offset'[f] = size /\ size < Never /\ Never \in Nat /\ offset[f] \in 0..size
    BY <1>0, <1>1, LogBounds DEF Never
  <2>2. CASE from[f] = Never /\ size > 0
    <3>1. from'[f] = size
      BY <1>0, <1>1, <2>2
    <3> QED BY <1>0, <2>1, <2>2, <3>1 DEF Tailed, Never
  <2>3. CASE from[f] = Never /\ size = 0
    <3>1. from'[f] = from[f]
      BY <1>0, <1>1, <2>3
    <3> QED BY <2>1, <2>3, <3>1 DEF Tailed, Never
  <2>4. CASE from[f] # Never
    <3>1. from'[f] = from[f] /\ from[f] \in 0..Never
      BY <1>0, <1>1, <2>4
    <3>2. 0 < from[f] /\ from[f] <= offset[f]
      BY <2>4 DEF ReaderInv, Tailed
    <3>3. from[f] <= size
      BY <1>0, <2>1, <3>1, <3>2
    <3> QED BY <2>1, <2>4, <3>1, <3>2, <3>3 DEF Tailed, Never
  <2> QED BY <1>0, <2>2, <2>3, <2>4
<1>9. SeenAll(f)'
  <2>1. offset'[f] = size /\ seen'[f] = seen[f] \cup sent /\ offset[f] \in 0..size
    BY <1>0, <1>1, <1>2
  <2>2. ASSUME NEW o \in 0..(size - 1), NEW r \in 1..written, Starts(o), At(o, r), from'[f] <= o
        PROVE  r \in seen[f] \cup sent
    <3>1. from[f] # Never
      <4> SUFFICES ASSUME from[f] = Never PROVE FALSE
        OBVIOUS
      <4>1. size > 0
        BY <1>0
      <4>2. from'[f] = size
        BY <1>0, <1>1, <4>1
      <4> QED BY <1>0, <2>2, <4>2
    <3>2. from'[f] = from[f] /\ from[f] \in Nat /\ 0 < from[f] /\ from[f] <= offset[f]
      BY <1>0, <1>1, <3>1, LogBounds DEF ReaderInv, Tailed, Never
    <3>3. offset[f] # 0
      BY <2>1, <3>2
    <3>4. CASE o < offset[f]
      BY <2>2, <3>2, <3>4 DEF ReaderInv, SeenAll
    <3>5. CASE ~(o < offset[f])
      <4>1. o \in offset[f]..(size - 1)
        BY <1>0, <2>1, <3>5
      <4> QED BY <1>2, <2>2, <3>3, <4>1
    <3> QED BY <3>4, <3>5
  <2> QED BY <1>0, <2>1, <2>2 DEF SeenAll, Starts, At
<1> QED BY <1>5, <1>6, <1>7, <1>8, <1>9 DEF ReaderInv

-----------------------------------------------------------------------------
(* Invariance. *)

LEMMA WriteKeepsType ==
    ASSUME LogType, NEW k \in 0..4, Writes(k), UNCHANGED <<offset, from, seen, again>>,
           acked' \subseteq 1..written', crashes' \in 0..MaxCrashes
    PROVE  LogType'
<1>1. /\ file' \in Seq(Cells) /\ size \in Nat /\ size' = size + (IF k = 4 THEN 2 ELSE k)
      /\ written \in Nat /\ written' = written + 1 /\ written + 1 \in 1..MaxLines
  BY Grown DEF Writes
<1>2. \A n \in 0..size : n \in 0..size'
  BY <1>1
<1>3. \A n \in 1..written : n \in 1..written'
  BY <1>1
<1>4. offset' \in [Followers -> 0..size'] /\ seen' \in [Followers -> SUBSET (1..written')]
  BY <1>2, <1>3 DEF LogType
<1>5. written' \in 0..MaxLines
  BY <1>1
<1>6. file' \in Seq({Newline} \cup ((1..MaxLines) \X {0, 1, 2}))
  BY <1>1 DEF Cells
<1> QED BY <1>4, <1>5, <1>6 DEF LogType, Never

LEMMA PollKeepsType ==
    ASSUME LogInv, NEW f \in Followers, Poll(f)
    PROVE  LogType'
<1> USE DEF LogInv
<1>1. /\ size \in Nat /\ size <= 3 * written /\ written \in 0..MaxLines
      /\ UNCHANGED <<file, written, acked, crashes>> /\ size' = size
  BY CellsOfFile DEF LogType, FileInv, Poll, size
<1>2. size \in 0..Never /\ size \in 0..size
  BY <1>1, LogBounds DEF Never
<1>3. offset' \in [Followers -> 0..size'] /\ from' \in [Followers -> 0..Never]
  BY <1>1, <1>2 DEF Poll, LogType, Never
<1>4. PICK sent \in SUBSET (1..written) :
        /\ seen' = [seen EXCEPT ![f] = @ \cup sent]
        /\ again' = IF sent \cap seen[f] # {} THEN again \cup {f} ELSE again
  BY PollSends
<1>5. seen' \in [Followers -> SUBSET (1..written')] /\ again' \subseteq Followers
  BY <1>1, <1>4 DEF LogType
<1> QED BY <1>1, <1>3, <1>5 DEF LogType, Never

LEMMA LogStep == LogInv /\ [LogNext]_logVars => LogInv'
<1> SUFFICES ASSUME LogInv, [LogNext]_logVars PROVE LogInv'
  OBVIOUS
<1> USE DEF LogInv
<1>1. CASE AppendRaw
  <2>1. Writes(3) /\ UNCHANGED <<offset, from, seen, again>> /\ crashes' = crashes
        /\ acked' = acked \cup {written + 1} /\ written' = written + 1
    BY <1>1, AppendWrites DEF AppendRaw
  <2>2. LogType'
    <3>1. acked' \subseteq 1..written' /\ crashes' \in 0..MaxCrashes
      BY <2>1 DEF LogType
    <3> QED BY <2>1, <3>1, WriteKeepsType
  <2>3. FileInv' /\ ReaderInv'
    BY <2>1, FileGrows, WriteKeepsReaders
  <2> QED BY <1>1, <2>2, <2>3, AppendLosesTheTorn
<1>2. CASE CrashInAppend
  <2>1. PICK k \in 0..4 : Writes(k)
    BY <1>2, CrashWrites
  <2>2. UNCHANGED <<offset, from, seen, again>> /\ acked' = acked /\ written' = written + 1
        /\ crashes' = crashes + 1 /\ crashes < MaxCrashes
    BY <1>2 DEF CrashInAppend
  <2>3. LogType'
    <3>1. acked' \subseteq 1..written' /\ crashes' \in 0..MaxCrashes
      BY <2>2, LogBounds DEF LogType
    <3> QED BY <2>1, <2>2, <3>1, WriteKeepsType
  <2>4. FileInv' /\ ReaderInv'
    BY <2>1, <2>2, FileGrows, WriteKeepsReaders
  <2> QED BY <1>2, <2>3, <2>4, CrashIsCounted
<1>3. ASSUME NEW f \in Followers, Poll(f) PROVE LogInv'
  <2>1. UNCHANGED <<file, written, acked, crashes>>
    BY <1>3 DEF Poll
  <2>2. FileInv' /\ LossInv'
    BY <2>1 DEF FileInv, LossInv, Lost, Solid, Reached, BeforeCut, Broken, Starts, At, Torn, size
  <2> QED BY <1>3, <2>2, PollKeepsType, PollKeepsReaders
<1>4. CASE UNCHANGED logVars
  <2>1. UNCHANGED <<file, written, acked, crashes, offset, from, seen, again>>
    BY <1>4 DEF logVars
  <2>2. LogType'
    BY <2>1 DEF LogType, size, Never
  <2>3. FileInv' /\ LossInv'
    BY <2>1 DEF FileInv, LossInv, Lost, Solid, Reached, BeforeCut, Broken, Starts, At, Torn, size
  <2>4. ReaderInv'
    BY <2>1 DEF ReaderInv, SeenBefore, SeenAll, Tailed, Starts, At, size, Never
  <2> QED BY <2>2, <2>3, <2>4
<1> QED BY <1>1, <1>2, <1>3, <1>4 DEF LogNext

\* The log, its followers and the cells on the disk keep their types, for any
\* number of followers, records and crashes.
THEOREM LogTypeCorrect == LogSpec => []LogType
<1>1. LogInv => LogType
  BY DEF LogInv
<1> QED BY InitialLog, LogStep, <1>1, PTL DEF LogSpec

\* However often the daemon dies inside a line, each crash costs the readers at
\* most one acknowledged record of those before the first line that was cut
\* inside a character (trajectory.py:46-50, 163-168).
THEOREM CrashesLoseLittle == LogSpec => []CrashLosesAtMostOne
<1>1. LogInv => CrashLosesAtMostOne
  BY LossBoundsReaders DEF LogInv
<1> QED BY InitialLog, LogStep, <1>1, PTL DEF LogSpec

\* A follower that polls with the offset it was given gets every readable
\* record once, also over crashes (trajectory.py:177-196).
THEOREM FollowersMissNothing == LogSpec => []FollowerMissesNothing
<1>1. LogInv => FollowerMissesNothing
  <2> SUFFICES ASSUME LogInv, NEW f \in Followers, NEW x \in Scan(0), from[f] <= x[1], x[1] < offset[f]
               PROVE  again = {} /\ x[2] \in seen[f]
    BY DEF FollowerMissesNothing, LogInv, ReaderInv
  <2>1. size \in Nat /\ LogType
    BY CellsOfFile DEF LogInv
  <2>2. x[2] \in 1..written /\ x[1] \in 0..(size - 1) /\ Starts(x[1]) /\ At(x[1], x[2])
    BY <2>1, InScan DEF Starts
  <2> QED BY <2>2 DEF LogInv, ReaderInv, SeenAll
<1> QED BY InitialLog, LogStep, <1>1, PTL DEF LogSpec

-----------------------------------------------------------------------------
(* The log of cells implements a log of records. *)

EndedAreSolid == EndedRecords = {r \in 1..written : Solid(r)}

LEMMA EndedIsSolid == LogType => EndedAreSolid
<1> SUFFICES ASSUME LogType PROVE EndedAreSolid
  OBVIOUS
<1>0. size \in Nat
  BY CellsOfFile
<1>1. ASSUME NEW x \in Scan(0), x[1] + 2 < size PROVE x[2] \in 1..written /\ Solid(x[2])
  <2>1. x[2] \in 1..written /\ x[1] \in 0..(size - 1) /\ Starts(x[1]) /\ At(x[1], x[2])
    BY <1>0, InScan DEF Starts
  <2>2. Reached(x[1])
    BY DEF Scan, Reached
  <2> QED BY <1>1, <2>1, <2>2 DEF Solid
<1>2. ASSUME NEW r \in 1..written, Solid(r) PROVE \E x \in Scan(0) : x[1] + 2 < size /\ x[2] = r
  <2>1. PICK o \in 0..(size - 1) : Starts(o) /\ At(o, r) /\ o + 2 < size /\ Reached(o)
    BY <1>2 DEF Solid
  <2>2. <<o, r>> \in Scan(0)
    BY <1>0, <2>1, ScanHas DEF Starts, Reached
  <2> QED BY <2>1, <2>2
<1> QED BY <1>1, <1>2 DEF EndedRecords, EndedAreSolid

LEMMA EndedStaySolid == LogType' => EndedAreSolid'
BY EndedIsSolid, PTL

\* Behind an unended end nothing is complete before its newline, behind a cut
\* nothing is read.
LEMMA TornKeepsNothing ==
    ASSUME LogType, FileInv, NEW k \in 0..4, Writes(k), Torn \/ Broken(0) # {} \/ k # 3,
           NEW n, n = written + 1
    PROVE  ~Solid(n)'
<1> SUFFICES ASSUME NEW o \in 0..(size' - 1), Starts(o)', At(o, n)', o + 2 < size', Reached(o)'
             PROVE  FALSE
  BY DEF Solid
<1>0. /\ size \in Nat /\ size' = size + (IF k = 4 THEN 2 ELSE k) /\ written \in Nat /\ o \in Nat
      /\ \A p \in 1..size : file'[p] = file[p]
  BY Grown
<1>1. CASE o < size
  <2>1. file'[o + 1] = <<n, 1>> /\ o + 1 \in 1..size
    BY <1>0, <1>1 DEF At
  <2>2. file[o + 1] = <<n, 1>> /\ file[o + 1] # Newline
    BY <1>0, <2>1 DEF Newline
  <2>3. file[o + 1][1] <= written
    BY <2>1, <2>2 DEF FileInv
  <2> QED BY <1>0, <2>2, <2>3
<1>2. CASE o = size
  <2>1. k = 3
    BY <1>0, <1>2
  <2>2. Torn /\ size \in 1..size
    <3>1. Broken(0) = {}
      <4> SUFFICES ASSUME NEW j \in Broken(0) PROVE FALSE
        OBVIOUS
      <4>1. j \in 1..size /\ j \in Broken(0)'
        BY CutsOfWrite
      <4>2. o < j
        BY <4>1 DEF Reached
      <4> QED BY <1>0, <1>2, <4>1, <4>2
    <3> QED BY <1>0, <2>1, <3>1 DEF Torn
  <2>3. file'[size] = file[size] /\ size # 0
    BY <1>0, <2>2
  <2> QED BY <1>2, <2>2, <2>3 DEF Starts, Torn
<1>3. CASE o > size
  BY <1>0, <1>3
<1> QED BY <1>0, <1>1, <1>2, <1>3

\* What a write does to the records that are there for good, and to the end.
LEMMA WriteAsRecord ==
    ASSUME LogInv, NEW k \in 0..4, Writes(k), LogType'
    PROVE  /\ k = 3 /\ ~Torn /\ Broken(0) = {} => EndedRecords' = EndedRecords \cup {written + 1}
           /\ k # 3 \/ Torn \/ Broken(0) # {} => EndedRecords' = EndedRecords
           /\ k = 3 => ~Torn'
           /\ k \in {1, 2} => Torn'
           /\ k = 0 => Torn' = Torn
           /\ k # 4 => Broken(0)' = Broken(0)
           /\ k = 4 => Broken(0)' # {}
<1> PICK n : n = written + 1
  OBVIOUS
<1>0. /\ size \in Nat /\ size' = size + (IF k = 4 THEN 2 ELSE k) /\ written \in Nat /\ written' = n
      /\ \A p \in 1..size : file'[p] = file[p]
      /\ LogType /\ FileInv
  BY Grown DEF Writes, LogInv
<1>1. /\ EndedRecords = {r \in 1..written : Solid(r)}
      /\ EndedRecords' = {r \in 1..n : Solid(r)'}
  BY <1>0, EndedIsSolid, EndedStaySolid DEF EndedAreSolid
<1>2. \A r \in 1..n : r \in 1..written \/ r = n
  BY <1>0
<1>3. 1..written \subseteq 1..n /\ n \in 1..n
  BY <1>0
<1>4. \A r \in 1..written : Solid(r) => Solid(r)'
  BY <1>0, SolidKept
<1>5. ASSUME NEW r \in 1..written, Solid(r)' PROVE Solid(r)
  <2>1. PICK o \in 0..(size' - 1) : Starts(o)' /\ At(o, r)' /\ o + 2 < size' /\ Reached(o)'
    BY <1>5 DEF Solid
  <2>2. o < size
    <3> SUFFICES ASSUME o >= size PROVE FALSE
      BY <1>0, <2>1
    <3>1. o = size /\ k = 3
      BY <1>0, <2>1
    <3>2. file'[o + 1] = <<n, 1>>
      BY <1>0, <3>1, Grown
    <3>3. file'[o + 1] = <<r, 1>>
      BY <2>1 DEF At
    <3>4. <<n, 1>> = <<r, 1>> => n = r
      OBVIOUS
    <3> QED BY <1>0, <3>2, <3>3, <3>4
  <2>3. o \in 0..(size - 1) /\ r \in 1..(written + 1)
    BY <1>0, <2>1, <2>2
  <2>4. Starts(o) /\ At(o, r)
    BY <1>0, <2>1, <2>3, NothingOldAppears
  <2>5. o + 2 < size
    <3> SUFFICES ASSUME o + 2 >= size PROVE FALSE
      BY <1>0, <2>1
    <3>1. o + 2 = size /\ k >= 1
      BY <1>0, <2>1, <2>4 DEF At
    <3>2. file'[size + 1] = <<n, 1>> /\ <<n, 1>> # Newline
      BY <1>0, <3>1, Grown DEF Newline
    <3>3. file'[o + 3] = Newline /\ o + 3 = size + 1
      BY <1>0, <2>1, <3>1 DEF At
    <3> QED BY <3>2, <3>3
  <2>6. Reached(o)
    <3>1. Broken(0) \subseteq Broken(0)'
      BY <1>0, CutsOfWrite
    <3>2. \A j \in Broken(0) : o < j
      BY <2>1, <3>1 DEF Reached
    <3> QED BY <3>2 DEF Reached
  <2> QED BY <2>3, <2>4, <2>5, <2>6 DEF Solid
<1>6. k = 3 /\ ~Torn /\ Broken(0) = {} => Solid(n)'
  BY <1>0, NewIsSolid
<1>7. k # 3 \/ Torn \/ Broken(0) # {} => ~Solid(n)'
  BY <1>0, TornKeepsNothing
<1>8. k = 3 /\ ~Torn /\ Broken(0) = {} => EndedRecords' = EndedRecords \cup {n}
  BY <1>1, <1>2, <1>3, <1>4, <1>5, <1>6
<1>9. k # 3 \/ Torn \/ Broken(0) # {} => EndedRecords' = EndedRecords
  BY <1>1, <1>2, <1>3, <1>4, <1>5, <1>7
<1>10. /\ k = 3 => file'[size'] = Newline
       /\ k \in {1, 2} => file'[size'] # Newline /\ size' > 0
  <2>1. /\ k = 3 => file'[size + 3] = Newline
        /\ k = 1 => file'[size + 1] = <<written + 1, 1>>
        /\ k = 2 => file'[size + 2] = <<written + 1, 2>>
    BY <1>0, Grown
  <2>2. <<written + 1, 1>> # Newline /\ <<written + 1, 2>> # Newline
    BY DEF Newline
  <2> QED BY <1>0, <2>1, <2>2
<1>11. k = 0 => Torn' = Torn
  BY <1>0 DEF Torn
<1>12. (k = 3 => ~Torn') /\ (k \in {1, 2} => Torn')
  BY <1>10 DEF Torn
<1>13. (k # 4 => Broken(0)' = Broken(0)) /\ (k = 4 => Broken(0)' # {})
  BY <1>0, CutsOfWrite
<1> QED BY <1>8, <1>9, <1>11, <1>12, <1>13

LEMMA RecordLogStep == LogInv /\ LogInv' /\ [LogNext]_logVars => [AsRecords!Next]_(AsRecords!vars)
<1> SUFFICES ASSUME LogInv, LogInv', [LogNext]_logVars PROVE [AsRecords!Next]_(AsRecords!vars)
  OBVIOUS
<1>0. LogType /\ LogType' /\ size \in Nat
  BY CellsOfFile DEF LogInv
<1>1. ASSUME NEW k \in 0..4, Writes(k)
      PROVE  /\ written + 1 \in 1..MaxLines
             /\ AsRecords!New(written + 1)
             /\ k = 3 => \/ AsRecords!Keep(written + 1)
                         \/ AsRecords!Lose(written + 1)
                         \/ AsRecords!Unread(written + 1)
             /\ k # 3 => /\ EndedRecords' = EndedRecords
                         /\ LogEnd' = LogEnd \/ (LogEnd # "cut" /\ LogEnd' \in {"torn", "cut"})
             /\ LogEnd = "cut" => EndedRecords' = EndedRecords /\ LogEnd' = LogEnd
  <2>1. written + 1 \in 1..MaxLines /\ written \in Nat
    BY <1>0, <1>1, Grown
  <2>2. EndedRecords \subseteq 1..written /\ acked \subseteq 1..written
    BY <1>0, EndedIsSolid DEF EndedAreSolid, LogType
  <2>3. AsRecords!New(written + 1)
    BY <2>1, <2>2 DEF AsRecords!New
  <2>4. /\ k = 3 /\ ~Torn /\ Broken(0) = {} => EndedRecords' = EndedRecords \cup {written + 1}
        /\ k # 3 \/ Torn \/ Broken(0) # {} => EndedRecords' = EndedRecords
        /\ k = 3 => ~Torn'
        /\ k \in {1, 2} => Torn'
        /\ k = 0 => Torn' = Torn
        /\ k # 4 => Broken(0)' = Broken(0)
        /\ k = 4 => Broken(0)' # {}
    BY <1>0, <1>1, WriteAsRecord
  <2>5. Broken(0) # {} => Broken(0)' # {}
    BY <1>0, <1>1, CutsOfWrite
  <2>6. /\ LogEnd = "cut" <=> Broken(0) # {}
        /\ LogEnd = "torn" <=> Broken(0) = {} /\ Torn
        /\ LogEnd = "whole" <=> Broken(0) = {} /\ ~Torn
        /\ LogEnd \in {"cut", "torn", "whole"}
    BY DEF LogEnd
  <2>7. /\ LogEnd' = "cut" <=> Broken(0)' # {}
        /\ LogEnd' = "torn" <=> Broken(0)' = {} /\ Torn'
        /\ LogEnd' = "whole" <=> Broken(0)' = {} /\ ~Torn'
    BY DEF LogEnd
  <2>8. CASE k = 3
    <3>1. LogEnd = "whole" => LogEnd' = "whole" /\ EndedRecords' = EndedRecords \cup {written + 1}
      BY ONLY <2>4, <2>6, <2>7, <2>8
    <3>2. LogEnd = "torn" => LogEnd' = "whole" /\ EndedRecords' = EndedRecords
      BY ONLY <2>4, <2>6, <2>7, <2>8
    <3>3. LogEnd = "cut" => LogEnd' = "cut" /\ EndedRecords' = EndedRecords
      BY ONLY <2>4, <2>5, <2>6, <2>7, <2>8
    <3> QED BY <2>1, <2>3, <2>6, <2>8, <3>1, <3>2, <3>3
            DEF AsRecords!Keep, AsRecords!Lose, AsRecords!Unread
  <2>9. CASE k # 3
    <3>1. EndedRecords' = EndedRecords
      BY ONLY <2>4, <2>9
    <3>2. k \in {1, 2} \/ k = 4 \/ k = 0
      BY <2>9
    <3>3. LogEnd = "cut" => LogEnd' = "cut"
      BY ONLY <2>5, <2>6, <2>7
    <3>4. k \in {1, 2} => LogEnd' \in {"torn", "cut"}
      BY <2>4, <2>7
    <3>5. k = 4 => LogEnd' = "cut"
      BY <2>4, <2>7
    <3>6. k = 0 => LogEnd' = LogEnd
      <4> SUFFICES ASSUME k = 0 PROVE LogEnd' = LogEnd
        OBVIOUS
      <4>1. Torn' = Torn /\ Broken(0)' = Broken(0)
        BY <2>4
      <4> QED BY ONLY <2>6, <2>7, <4>1
    <3> QED BY <2>1, <2>3, <2>9, <3>1, <3>2, <3>3, <3>4, <3>5, <3>6
  <2> QED BY <2>8, <2>9
<1>2. CASE AppendRaw
  <2>1. Writes(3) /\ acked' = acked \cup {written + 1}
    BY <1>0, <1>2, AppendWrites DEF AppendRaw
  <2>2. AsRecords!Append(written + 1)
    BY <1>1, <2>1 DEF AsRecords!Append
  <2> QED BY <1>1, <2>1, <2>2 DEF AsRecords!Next
<1>3. CASE CrashInAppend
  <2>1. PICK k \in 0..4 : Writes(k)
    BY <1>0, <1>3, CrashWrites
  <2>2. acked' = acked
    BY <1>3 DEF CrashInAppend
  <2>3. \/ UNCHANGED <<EndedRecords, acked, LogEnd>>
        \/ AsRecords!Crash(written + 1)
    BY <1>1, <2>1, <2>2 DEF AsRecords!Crash, AsRecords!Unread
  <2>4. written + 1 \in 1..MaxLines
    BY <1>1, <2>1
  <2> QED BY <2>3, <2>4 DEF AsRecords!Next, AsRecords!vars
<1>4. CASE UNCHANGED <<file, written, acked>>
  <2>1. size' = size
    BY <1>4 DEF size
  <2>2. EndedRecords' = {r \in 1..written : Solid(r)'}
    BY <1>0, <1>4, EndedStaySolid DEF EndedAreSolid
  <2>3. Broken(0)' = Broken(0) /\ Torn' = Torn
    BY <1>4, <2>1 DEF Broken, Torn
  <2>4. \A r : Solid(r)' = Solid(r)
    BY <1>4, <2>1, <2>3 DEF Solid, Reached, Starts, At
  <2>5. EndedRecords' = EndedRecords
    BY <1>0, <1>4, <2>2, <2>4, EndedIsSolid DEF EndedAreSolid
  <2>6. LogEnd' = LogEnd
    BY <2>3 DEF LogEnd
  <2> QED BY <1>4, <2>5, <2>6 DEF AsRecords!vars
<1> QED BY <1>2, <1>3, <1>4 DEF LogNext, Poll, logVars

\* The cells and offsets of the file implement a log of records: what is read
\* and ended stays; of the appends that return, one is lost behind a torn end,
\* and all behind a line that was cut inside a character (trajectory.py:46-50,
\* 163-168).
THEOREM LogKeepsRecords == LogSpec => RecordLogSpec
<1>1. LogInit => AsRecords!Init
  <2> SUFFICES ASSUME LogInit PROVE AsRecords!Init
    OBVIOUS
  <2>1. size = 0
    BY DEF LogInit, size
  <2>2. LogType
    BY InitialLog DEF LogInv
  <2>3. EndedRecords = {}
    BY <2>1, <2>2, EndedIsSolid DEF EndedAreSolid, Solid
  <2>4. LogEnd = "whole"
    BY <2>1 DEF LogEnd, Broken, Torn
  <2> QED BY <2>3, <2>4 DEF AsRecords!Init, LogInit
<1> QED BY <1>1, InitialLog, LogStep, RecordLogStep, PTL DEF LogSpec, RecordLogSpec, AsRecords!Spec

-----------------------------------------------------------------------------
(* Feedback, for all payloads and every size of the index. *)

\* What an answer's index entry may hold.
Indexable(v) == v # Absent

IsSeq(s) == \E S : s \in Seq(S)

\* Each record of the log is what some content of the index made of its
\* payload, and the live path was given the same content.
RecordInv ==
    /\ IsSeq(logged) /\ sentBy \in Seq(Payloads) /\ IsSeq(live)
    /\ Len(sentBy) = Len(logged) /\ Len(live) = Len(logged)
    /\ \A i \in 1..Len(logged) : \E prompt, response :
         /\ Indexable(prompt) /\ Indexable(response)
         /\ logged[i] = Materialized(sentBy[i], prompt, response)
         /\ live[i] = FeedbackToBatch(sentBy[i], prompt, response)

-----------------------------------------------------------------------------
(* Routing. *)

\* A spec is built from the kind, what the client corrected, and the prompt and
\* response that are given or known.
LEMMA SameSpec ==
    ASSUME NEW r, NEW p, NEW prompt, NEW response,
           r.kind = p.kind, r.value = p.value, r.better = p.better, r.critique = p.critique,
           Or(r.prompt, Empty) = Or(p.prompt, prompt),
           Or(r.response, Empty) = Or(p.response, response)
    PROVE  FeedbackToBatch(r, Empty, Empty) = FeedbackToBatch(p, prompt, response)
BY DEF FeedbackToBatch

\* The log keeps of a payload what routing needs of it.
LEMMA LogKeepsSpec ==
    ASSUME NEW p \in Payloads, p.prompt # Empty, p.response # Empty,
           NEW prompt, Indexable(prompt), NEW response, Indexable(response)
    PROVE  FeedbackToBatch(Materialized(p, prompt, response), Empty, Empty)
             = FeedbackToBatch(p, prompt, response)
<1> DEFINE r == Materialized(p, prompt, response)
<1>1. p = [f \in Fields |-> p[f]]
  BY FeedbackBounds
<1>2. /\ r.prompt = IF p.prompt = Absent /\ prompt # Empty THEN prompt ELSE p.prompt
      /\ r.response = IF p.response = Absent /\ response # Empty THEN response ELSE p.response
      /\ r.kind = p.kind /\ r.value = p.value /\ r.better = p.better /\ r.critique = p.critique
  BY <1>1 DEF Materialized, Fields
<1> HIDE DEF r
<1>3. Absent # Empty
  BY DEF Absent, Empty
<1>4. Or(r.prompt, Empty) = Or(p.prompt, prompt)
  BY <1>2, <1>3 DEF Or, Given, Indexable
<1>5. Or(r.response, Empty) = Or(p.response, response)
  BY <1>2, <1>3 DEF Or, Given, Indexable
<1>6. FeedbackToBatch(r, Empty, Empty) = FeedbackToBatch(p, prompt, response)
  BY <1>2, <1>4, <1>5, SameSpec
<1> QED BY <1>6 DEF r

-----------------------------------------------------------------------------
(* The log. *)

LEMMA Extended ==
    ASSUME NEW s, IsSeq(s), NEW e
    PROVE  /\ IsSeq(Append(s, e)) /\ Len(s) \in Nat /\ Len(Append(s, e)) = Len(s) + 1
           /\ \A i \in 1..Len(s) : Append(s, e)[i] = s[i]
           /\ Append(s, e)[Len(s) + 1] = e
<1>1. PICK S : s \in Seq(S)
  BY DEF IsSeq
<1>2. s \in Seq(S \cup {e}) /\ e \in S \cup {e}
  BY <1>1, SeqMonotonic
<1>3. Append(s, e) \in Seq(S \cup {e})
  BY <1>2, AppendProperties
<1> QED BY <1>2, <1>3, AppendProperties DEF IsSeq

LEMMA RecordStep == ASSUME RecordInv, [FeedbackNext]_feedbackVars PROVE RecordInv'
<1>1. CASE UNCHANGED <<logged, sentBy, live>>
  BY <1>1 DEF RecordInv
<1>2. CASE Answer \/ RestartDaemon \/ UNCHANGED feedbackVars
  BY <1>1, <1>2 DEF Answer, RestartDaemon, feedbackVars
<1>3. CASE SubmitFeedback
  <2>1. PICK p \in Payloads :
          LET known == Indexed(p.rid)
              prompt == IF known THEN PromptOf(p.rid) ELSE Empty
              response == IF known THEN ResponseOf(p.rid) ELSE Empty
          IN  /\ logged' = Append(logged, Materialized(p, prompt, response))
              /\ sentBy' = Append(sentBy, p)
              /\ live' = Append(live, FeedbackToBatch(p, prompt, response))
    BY <1>3 DEF SubmitFeedback
  <2> DEFINE prompt == IF Indexed(p.rid) THEN PromptOf(p.rid) ELSE Empty
  <2> DEFINE response == IF Indexed(p.rid) THEN ResponseOf(p.rid) ELSE Empty
  <2>2. Indexable(prompt) /\ Indexable(response)
    <3>1. \A rid : PromptOf(rid) # Absent /\ ResponseOf(rid) # Absent
      BY DEF PromptOf, ResponseOf, Absent
    <3>2. Empty # Absent
      BY DEF Absent, Empty
    <3> QED BY <3>1, <3>2 DEF Indexable
  <2>3. /\ logged' = Append(logged, Materialized(p, prompt, response))
        /\ sentBy' = Append(sentBy, p)
        /\ live' = Append(live, FeedbackToBatch(p, prompt, response))
    BY <2>1
  <2> HIDE DEF prompt, response
  <2>4. /\ IsSeq(logged') /\ IsSeq(live') /\ sentBy' \in Seq(Payloads)
        /\ Len(logged) \in Nat /\ Len(sentBy) = Len(logged) /\ Len(live) = Len(logged)
        /\ Len(logged') = Len(logged) + 1 /\ Len(live') = Len(logged) + 1
        /\ Len(sentBy') = Len(logged) + 1
    BY <2>3, Extended, AppendProperties DEF RecordInv
  <2>5. /\ \A i \in 1..Len(logged) : logged'[i] = logged[i] /\ live'[i] = live[i]
                                      /\ sentBy'[i] = sentBy[i]
        /\ logged'[Len(logged) + 1] = Materialized(p, prompt, response)
        /\ live'[Len(logged) + 1] = FeedbackToBatch(p, prompt, response)
        /\ sentBy'[Len(logged) + 1] = p
    BY <2>3, <2>4, Extended, AppendProperties DEF RecordInv
  <2>6. ASSUME NEW i \in 1..Len(logged')
        PROVE  \E a, b : /\ Indexable(a) /\ Indexable(b)
                         /\ logged'[i] = Materialized(sentBy'[i], a, b)
                         /\ live'[i] = FeedbackToBatch(sentBy'[i], a, b)
    <3>1. CASE i \in 1..Len(logged)
      BY <2>5, <3>1 DEF RecordInv
    <3>2. CASE i = Len(logged) + 1
      BY <2>2, <2>5, <3>2
    <3> QED BY <2>4, <3>1, <3>2
  <2> QED BY <2>4, <2>6 DEF RecordInv
<1> QED BY <1>2, <1>3 DEF FeedbackNext

LEMMA InitialRecords == ASSUME FeedbackInit PROVE RecordInv
<1>1. logged = <<>> /\ sentBy = <<>> /\ live = <<>>
  BY DEF FeedbackInit
<1>2. IsSeq(<<>>)
  BY DEF IsSeq
<1> QED BY <1>1, <1>2 DEF RecordInv

\* For all payloads, every size of the index and however often the process is
\* restarted: replay rebuilds from the log what the live path trained on
\* (controller.py:607-739, replay.py:147).
THEOREM LogIsCanonical == FeedbackSpec => []TrainedAsLogged
<1>1. FeedbackInit => RecordInv
  BY InitialRecords
<1>2. RecordInv /\ [FeedbackNext]_feedbackVars => RecordInv'
  BY RecordStep
<1>3. RecordInv => TrainedAsLogged
  <2> SUFFICES ASSUME RecordInv, NEW i \in 1..Len(logged),
                      sentBy[i].prompt # Empty, sentBy[i].response # Empty
               PROVE  Replayed(i) = live[i]
    BY DEF TrainedAsLogged
  <2>1. sentBy[i] \in Payloads
    BY DEF RecordInv
  <2>2. PICK prompt, response :
          /\ Indexable(prompt) /\ Indexable(response)
          /\ logged[i] = Materialized(sentBy[i], prompt, response)
          /\ live[i] = FeedbackToBatch(sentBy[i], prompt, response)
    BY DEF RecordInv
  <2> QED BY <2>1, <2>2, LogKeepsSpec DEF Replayed
<1> QED BY <1>1, <1>2, <1>3, PTL DEF FeedbackSpec

\* The index holds the newest answers, in the order they were given.
NewestKnown ==
    /\ Len(index) <= IndexCap
    /\ \A i \in 1..Len(index) : index[i] = answers - (Len(index) - i)

IndexInv ==
    /\ answers \in 0..MaxAnswers
    /\ index \in Seq(1..answers)
    /\ NewestKnown

\* An answer adds itself, and takes the oldest out only if the index is full.
LEMMA AnswerIndexes ==
    ASSUME IndexInv, Answer
    PROVE  IndexInv' /\ Len(index') = IF Len(index) < IndexCap THEN Len(index) + 1 ELSE IndexCap
<1> PICK n : n = answers + 1
  OBVIOUS
<1> PICK grown : grown = Append(index, n)
  OBVIOUS
<1>1. /\ answers \in Nat /\ answers' = n /\ n \in 1..MaxAnswers /\ IndexCap \in Nat
      /\ Len(index) \in Nat /\ Len(index) <= IndexCap
      /\ index' = IF Len(grown) > IndexCap THEN Tail(grown) ELSE grown
  BY FeedbackBounds DEF Answer, IndexInv, NewestKnown
<1>2. grown \in Seq(1..n) /\ Len(grown) = Len(index) + 1
  <2>1. index \in Seq(1..n) /\ n \in 1..n
    <3>1. 1..answers \subseteq 1..n
      BY <1>1
    <3> QED BY <1>1, <3>1, SeqMonotonic DEF IndexInv
  <2> QED BY <2>1, AppendProperties
<1>3. \A i \in 1..Len(grown) : grown[i] = n - (Len(grown) - i)
  <2>1. ASSUME NEW i \in 1..Len(index) PROVE grown[i] = n - (Len(grown) - i)
    <3>1. grown[i] = index[i] /\ index[i] = answers - (Len(index) - i)
      BY AppendProperties DEF IndexInv, NewestKnown
    <3> QED BY <1>1, <1>2, <3>1
  <2>2. grown[Len(index) + 1] = n
    BY AppendProperties DEF IndexInv
  <2>3. \A i \in 1..Len(grown) : i \in 1..Len(index) \/ i = Len(index) + 1
    BY <1>1, <1>2
  <2> QED BY <1>1, <1>2, <2>1, <2>2, <2>3
<1>4. ASSUME index' \in Seq(1..n), Len(index') <= IndexCap,
             \A i \in 1..Len(index') : index'[i] = n - (Len(index') - i)
      PROVE  IndexInv'
  <2>1. answers' \in 0..MaxAnswers /\ index' \in Seq(1..answers')
    <3>1. n \in 0..MaxAnswers
      BY <1>1
    <3> QED BY <1>1, <1>4, <3>1
  <2>2. NewestKnown'
    BY <1>1, <1>4 DEF NewestKnown
  <2> QED BY <2>1, <2>2 DEF IndexInv
<1>5. CASE Len(index) < IndexCap
  <2>1. index' = grown /\ Len(index') = Len(index) + 1 /\ Len(index') <= IndexCap
    BY <1>1, <1>2, <1>5
  <2>2. IndexInv'
    BY <1>2, <1>3, <1>4, <2>1
  <2> QED BY <1>5, <2>1, <2>2
<1>6. CASE ~(Len(index) < IndexCap)
  <2>1. index' = Tail(grown) /\ Len(grown) > 0
    BY <1>1, <1>2, <1>6
  <2>2. /\ index' \in Seq(1..n) /\ Len(index') = Len(grown) - 1
        /\ \A i \in 1..(Len(grown) - 1) : index'[i] = grown[i + 1]
    <3> PICK S : S = 1..n
      OBVIOUS
    <3>1. grown \in Seq(S) /\ grown # <<>>
      BY <1>1, <1>2, <2>1
    <3>2. \A q \in Seq(S) : q # <<>> =>
            /\ Tail(q) \in Seq(S) /\ Len(Tail(q)) = Len(q) - 1
            /\ \A i \in 1..(Len(q) - 1) : Tail(q)[i] = q[i + 1]
      OBVIOUS
    <3> QED BY <2>1, <3>1, <3>2
  <2>3. Len(index') = Len(index) /\ Len(index') = IndexCap
    BY <1>1, <1>2, <1>6, <2>2
  <2>4. \A i \in 1..Len(index') : index'[i] = n - (Len(index') - i)
    <3> TAKE i \in 1..Len(index')
    <3>1. i + 1 \in 1..Len(grown) /\ i \in 1..(Len(grown) - 1) /\ i \in Nat
      BY <1>1, <1>2, <2>3
    <3>2. index'[i] = n - (Len(grown) - (i + 1))
      BY <1>3, <2>2, <3>1
    <3>3. PICK g, l : g = Len(grown) /\ l = Len(index')
      OBVIOUS
    <3>4. g = l + 1 /\ l \in Nat /\ n \in Nat
      BY <1>1, <1>2, <2>3, <3>3
    <3>5. n - (g - (i + 1)) = n - (l - i)
      BY <3>1, <3>4
    <3> QED BY <3>2, <3>3, <3>5
  <2>5. IndexInv'
    BY <1>1, <1>4, <2>2, <2>3, <2>4
  <2> QED BY <1>6, <2>3, <2>5
<1> QED BY <1>5, <1>6

LEMMA IndexStep ==
    ASSUME IndexInv, [FeedbackNext]_feedbackVars
    PROVE  /\ IndexInv'
           /\ Len(index') = Len(index) \/ RestartDaemon
              \/ Len(index') = IF Len(index) < IndexCap THEN Len(index) + 1 ELSE IndexCap
<1>1. CASE Answer
  BY <1>1, AnswerIndexes
<1>2. CASE RestartDaemon
  <2>1. answers' = answers /\ index' = <<>>
    BY <1>2 DEF RestartDaemon
  <2>2. Len(index') = 0 /\ index' \in Seq(1..answers)
    BY <2>1
  <2> QED BY <1>2, <2>1, <2>2, FeedbackBounds DEF IndexInv, NewestKnown
<1>3. CASE UNCHANGED <<answers, index>>
  BY <1>3 DEF IndexInv, NewestKnown
<1> QED BY <1>1, <1>2, <1>3 DEF FeedbackNext, SubmitFeedback, feedbackVars

\* An answer makes the index longer until it is full, and nothing but a restart
\* makes it shorter (controller.py:499-510).
IndexMoves ==
    /\ Answer => Len(index') = IF Len(index) < IndexCap THEN Len(index) + 1 ELSE IndexCap
    /\ RestartDaemon \/ Len(index') >= Len(index)

\* For every size of the index: it forgets the oldest answers only, and only
\* when it is full or the process restarts; what it holds are the last answers
\* given, in their order (controller.py:499-510).
THEOREM NewestAnswersAreKnown == FeedbackSpec => []NewestKnown /\ [][IndexMoves]_feedbackVars
<1>1. FeedbackInit => IndexInv
  BY FeedbackBounds DEF FeedbackInit, IndexInv, NewestKnown
<1>2. IndexInv /\ [FeedbackNext]_feedbackVars => IndexInv' /\ [IndexMoves]_feedbackVars
  <2> SUFFICES ASSUME IndexInv, [FeedbackNext]_feedbackVars
               PROVE  IndexInv' /\ (IndexMoves \/ UNCHANGED feedbackVars)
    OBVIOUS
  <2>1. Len(index) \in Nat /\ Len(index) <= IndexCap /\ IndexCap \in Nat
    BY FeedbackBounds DEF IndexInv, NewestKnown
  <2>2. IndexInv' /\ (RestartDaemon \/ Len(index') >= Len(index))
    BY <2>1, IndexStep
  <2>3. Answer => Len(index') = IF Len(index) < IndexCap THEN Len(index) + 1 ELSE IndexCap
    BY AnswerIndexes
  <2> QED BY <2>2, <2>3 DEF IndexMoves
<1>3. IndexInv => NewestKnown
  BY DEF IndexInv
<1> QED BY <1>1, <1>2, <1>3, PTL DEF FeedbackSpec

\* The state of the index and of the feedback log keeps its type, for all
\* payloads (controller.py:499-510, 607-739).
THEOREM FeedbackTypeCorrect == FeedbackSpec => []FeedbackType
<1>1. FeedbackInit => IndexInv /\ RecordInv /\ Len(logged) <= MaxFeedbacks
  BY FeedbackBounds, InitialRecords DEF FeedbackInit, IndexInv, NewestKnown
<1>2. IndexInv /\ RecordInv /\ Len(logged) <= MaxFeedbacks /\ [FeedbackNext]_feedbackVars
        => (IndexInv /\ RecordInv /\ Len(logged) <= MaxFeedbacks)'
  <2> SUFFICES ASSUME IndexInv, RecordInv, Len(logged) <= MaxFeedbacks,
                      [FeedbackNext]_feedbackVars
               PROVE  IndexInv' /\ RecordInv' /\ Len(logged') <= MaxFeedbacks
    OBVIOUS
  <2>1. Len(logged') <= MaxFeedbacks
    <3>1. CASE SubmitFeedback
      <4>1. PICK e : logged' = Append(logged, e) /\ Len(logged) < MaxFeedbacks
        BY <3>1 DEF SubmitFeedback
      <4>2. Len(logged') = Len(logged) + 1 /\ Len(logged) \in Nat
        BY <4>1, Extended DEF RecordInv
      <4> QED BY <4>1, <4>2, FeedbackBounds
    <3>2. CASE logged' = logged
      BY <3>2
    <3> QED BY <3>1, <3>2 DEF FeedbackNext, Answer, RestartDaemon, feedbackVars
  <2> QED BY <2>1, IndexStep, RecordStep
<1>3. IndexInv /\ RecordInv /\ Len(logged) <= MaxFeedbacks => FeedbackType
  <2> SUFFICES ASSUME IndexInv, RecordInv, Len(logged) <= MaxFeedbacks
               PROVE  FeedbackType
    OBVIOUS
  <2>1. \A i \in 1..Len(index) : index[i] \in 1..answers
    BY DEF IndexInv
  <2>2. \A i \in 1..Len(sentBy) : sentBy[i] \in Payloads
    BY DEF RecordInv
  <2> QED BY <2>1, <2>2 DEF FeedbackType, IndexInv, NewestKnown, RecordInv
<1> QED BY <1>1, <1>2, <1>3, PTL DEF FeedbackSpec

-----------------------------------------------------------------------------
(* IdleLearning, for every depth of the queue, every cap and every number *)
(* of rollouts.                                                            *)

Who == {"live", "replay", "ttrl"}
Kinds == FeedbackRecords \cup InferenceRecords \cup CutLines

\* BackgroundIsBounded index by index; while TTRL rolls out none of its labels
\* is queued, since it found the queue empty and submits at the end only.
BoundedAt ==
    /\ \A i, j \in 1..Len(queue) : queue[i] = "ttrl" /\ queue[j] = "ttrl" => i = j
    /\ \A i \in 1..Len(queue) : queue[i] = "replay" => i = 1
    /\ ttrl = "rolling" => \A i \in 1..Len(queue) : queue[i] # "ttrl"

\* A round was begun for a prompt under its cap, and nobody else counts labels.
RoundUnderCap == ttrl = "rolling" => target \in Offsets /\ labelled[target] < LabelCap

CapsInv == LearnType /\ RoundUnderCap /\ CapsHold

-----------------------------------------------------------------------------
(* The queue and the log. *)

LEMMA Appended ==
    ASSUME NEW w \in Who, queue \in Seq(Who), queue' = Append(queue, w)
    PROVE  /\ queue' \in Seq(Who) /\ Len(queue') = Len(queue) + 1 /\ Len(queue) \in Nat
           /\ \A i \in 1..Len(queue) : queue'[i] = queue[i]
           /\ queue'[Len(queue) + 1] = w
BY AppendProperties

LEMMA Taken ==
    ASSUME queue \in Seq(Who), queue # <<>>, queue' = Tail(queue)
    PROVE  /\ queue' \in Seq(Who) /\ Len(queue) \in Nat /\ Len(queue') = Len(queue) - 1
           /\ \A i \in 1..Len(queue') : i + 1 \in 1..Len(queue) /\ queue'[i] = queue[i + 1]
BY HeadTailProperties

\* What a step does to the queue and to the log.
QueueMoves ==
    \/ queue' = queue \/ queue' = <<>>
    \/ queue # <<>> /\ queue' = Tail(queue)
    \/ Len(queue) < QueueDepth /\ \E w \in Who : queue' = Append(queue, w)

LogMoves ==
    \/ records' = records
    \/ Len(records) < MaxRecords /\ \E k \in Kinds : records' = Append(records, k)

LEMMA QueueTyped ==
    ASSUME queue \in Seq(Who), Len(queue) <= QueueDepth, QueueMoves
    PROVE  queue' \in Seq(Who) /\ Len(queue') <= QueueDepth
<1>1. CASE queue' = queue
  BY <1>1
<1>2. CASE queue' = <<>>
  BY <1>2, LearningBounds
<1>3. CASE queue # <<>> /\ queue' = Tail(queue)
  BY <1>3, Taken, LearningBounds
<1>4. CASE Len(queue) < QueueDepth /\ \E w \in Who : queue' = Append(queue, w)
  BY <1>4, Appended, LearningBounds
<1> QED BY <1>1, <1>2, <1>3, <1>4 DEF QueueMoves

LEMMA LogTyped ==
    ASSUME records \in Seq(Kinds), Len(records) <= MaxRecords, LogMoves
    PROVE  /\ records' \in Seq(Kinds) /\ Len(records') <= MaxRecords
           /\ Len(records) <= Len(records')
<1>1. CASE records' = records
  BY <1>1
<1>2. CASE Len(records) < MaxRecords /\ \E k \in Kinds : records' = Append(records, k)
  <2>1. PICK k \in Kinds : records' = Append(records, k)
    BY <1>2
  <2> QED BY <1>2, <2>1, AppendProperties, LearningBounds
<1> QED BY <1>1, <1>2 DEF LogMoves

LEMMA Moves ==
    ASSUME [LearnNext]_learnVars
    PROVE  QueueMoves /\ LogMoves
<1> USE DEF QueueMoves, LogMoves, Who, Kinds
<1>1. CASE LiveTrain
  BY <1>1 DEF LiveTrain, Submit, Accepts
<1>2. CASE CommitTask \/ Drain
  BY <1>2 DEF CommitTask, Drain
<1>3. CASE TimePasses \/ ReplayCrashes \/ TtrlCrashes \/ TtrlPicks \/ RolloutFails \/ ShutdownBegins
            \/ StopTtrl \/ StopReplay
  BY <1>3 DEF TimePasses, ReplayCrashes, TtrlCrashes, TtrlPicks, RolloutFails, ShutdownBegins, StopTtrl, StopReplay
<1>4. CASE LogFeedback
  BY <1>4 DEF LogFeedback, Submit, Accepts
<1>5. CASE Chat
  BY <1>5 DEF Chat
<1>6. ASSUME NEW o \in Offsets, ReplayBurns(o) \/ ReplaySubmits(o)
      PROVE  QueueMoves /\ LogMoves
  BY <1>6 DEF ReplayBurns, ReplaySubmits, Submit, Accepts
<1>7. CASE Rollout
  BY <1>7 DEF Rollout, InferenceRecords
<1>8. CASE TtrlVotes
  BY <1>8 DEF TtrlVotes, Submit, Accepts
<1>9. CASE UNCHANGED learnVars
  BY <1>9 DEF learnVars
<1> QED BY <1>1, <1>2, <1>3, <1>4, <1>5, <1>6, <1>7, <1>8, <1>9 DEF LearnNext, StopSteps

-----------------------------------------------------------------------------
(* The types. *)

CountersTyped ==
    /\ replayed \in [Offsets -> Nat] /\ nReplays \in [Offsets -> Nat]
    /\ labelled \in [Offsets -> Nat] /\ nLabels \in [Offsets -> Nat]
    /\ target \in 0..MaxRecords

TasksTyped ==
    /\ replay \in {"sleep", "crashed", "stopped"}
    /\ ttrl \in {"sleep", "rolling", "crashed", "stopped"}
    /\ shutdown \in {"no", "ttrl", "replay", "drain", "done", "raised"}
    /\ quiet \in BOOLEAN

RoundTyped ==
    /\ keys \in Seq(Answers \cup {NoKey}) /\ Len(keys) <= tries
    /\ tries \in 0..Rollouts

\* The offsets the schedulers choose are offsets of the log.
LEMMA Chosen ==
    ASSUME LearnType
    PROVE  Promptable \subseteq Offsets /\ Replayable \subseteq Offsets
BY LearningBounds DEF LearnType, Promptable, Replayable, Offsets

\* One more at an offset; there is nothing to count at another.
LEMMA Bump ==
    ASSUME NEW f \in [Offsets -> Nat], NEW o
    PROVE  [f EXCEPT ![o] = @ + 1] \in [Offsets -> Nat]
<1>1. CASE o \in Offsets
  BY <1>1
<1>2. CASE o \notin Offsets
  BY <1>2
<1> QED BY <1>1, <1>2

LEMMA CountersStep ==
    ASSUME LearnType, [LearnNext]_learnVars PROVE CountersTyped'
<1>0. CountersTyped
  BY DEF LearnType, CountersTyped
<1>1. CASE UNCHANGED <<replayed, labelled, target, nReplays, nLabels>>
  BY <1>0, <1>1 DEF CountersTyped
<1>2. ASSUME NEW o \in Offsets, ReplayBurns(o) \/ ReplaySubmits(o) PROVE CountersTyped'
  BY <1>0, <1>2, LearningBounds DEF ReplayBurns, ReplaySubmits, CountersTyped
<1>3. CASE TtrlPicks
  <2>1. target' \in Offsets /\ UNCHANGED <<replayed, labelled, nReplays, nLabels>>
    BY <1>3, Chosen DEF TtrlPicks
  <2> QED BY <1>0, <2>1 DEF CountersTyped, Offsets
<1>4. CASE TtrlVotes
  <2>1. labelled' \in [Offsets -> Nat] /\ target' = 0 /\ UNCHANGED <<replayed, nReplays>>
    BY <1>0, <1>4, Bump DEF TtrlVotes, RoundEnds, CountersTyped
  <2>2. nLabels' \in {nLabels, [nLabels EXCEPT ![target] = @ + 1]}
    BY <1>4 DEF TtrlVotes
  <2>3. nLabels' \in [Offsets -> Nat]
    BY <1>0, <2>2, Bump DEF CountersTyped
  <2> QED BY <1>0, <2>1, <2>3, LearningBounds DEF CountersTyped
<1>5. CASE TtrlCrashes \/ StopTtrl
  <2>1. target' = 0 /\ UNCHANGED <<replayed, labelled, nReplays, nLabels>>
    BY <1>5 DEF TtrlCrashes, StopTtrl, RoundEnds
  <2> QED BY <1>0, <2>1, LearningBounds DEF CountersTyped
<1>6. CASE LiveTrain \/ CommitTask \/ TimePasses \/ LogFeedback \/ Chat \/ ShutdownBegins
           \/ ReplayCrashes \/ RolloutFails \/ Rollout \/ StopReplay \/ Drain \/ UNCHANGED learnVars
  BY <1>1, <1>6 DEF LiveTrain, CommitTask, TimePasses, LogFeedback, Chat, ShutdownBegins,
                    ReplayCrashes, RolloutFails, Rollout, StopReplay,
                    Drain, learnVars, schedVars
<1> QED BY <1>2, <1>3, <1>4, <1>5, <1>6 DEF LearnNext, StopSteps

LEMMA TasksStep ==
    ASSUME LearnType, [LearnNext]_learnVars PROVE TasksTyped'
<1>0. TasksTyped
  BY DEF LearnType, TasksTyped
<1>1. CASE LiveTrain \/ CommitTask \/ TimePasses \/ LogFeedback \/ Chat \/ ShutdownBegins
  BY <1>0, <1>1 DEF LiveTrain, CommitTask, TimePasses, LogFeedback, Chat, ShutdownBegins,
                    Submit, schedVars, TasksTyped
<1>2. CASE ReplayCrashes \/ TtrlCrashes \/ TtrlPicks \/ RolloutFails \/ Rollout \/ TtrlVotes
  BY <1>0, <1>2 DEF ReplayCrashes, TtrlCrashes, TtrlPicks, RolloutFails, Rollout, TtrlVotes, Submit, TasksTyped
<1>3. ASSUME NEW o \in Offsets, ReplayBurns(o) \/ ReplaySubmits(o) PROVE TasksTyped'
  BY <1>0, <1>3 DEF ReplayBurns, ReplaySubmits, Submit, TasksTyped
<1>4. CASE StopSteps
  BY <1>0, <1>4 DEF StopSteps, StopTtrl, StopReplay, Drain, schedVars, TasksTyped
<1>5. CASE UNCHANGED learnVars
  BY <1>0, <1>5 DEF learnVars, schedVars, TasksTyped
<1> QED BY <1>1, <1>2, <1>3, <1>4, <1>5 DEF LearnNext

LEMMA RoundStep ==
    ASSUME LearnType, [LearnNext]_learnVars PROVE RoundTyped'
<1>0. RoundTyped /\ tries \in Nat /\ Len(keys) \in Nat
  BY LearningBounds DEF LearnType, RoundTyped
<1>1. CASE UNCHANGED <<keys, tries>>
  BY <1>0, <1>1 DEF RoundTyped
<1>2. CASE TtrlPicks
  <2>1. keys' = <<>> /\ tries' = 0
    BY <1>2 DEF TtrlPicks
  <2> QED BY <2>1, LearningBounds DEF RoundTyped
<1>3. CASE RolloutFails
  <2>1. tries' = tries + 1 /\ tries < Rollouts /\ keys' = keys
    BY <1>3 DEF RolloutFails
  <2> QED BY <1>0, <2>1, LearningBounds DEF RoundTyped
<1>4. CASE Rollout
  <2>1. tries' = tries + 1 /\ tries < Rollouts
    BY <1>4 DEF Rollout
  <2>2. PICK k \in Answers \cup {NoKey} : keys' = Append(keys, k)
    BY <1>4 DEF Rollout
  <2>3. keys' \in Seq(Answers \cup {NoKey}) /\ Len(keys') = Len(keys) + 1
    BY <1>0, <2>2, AppendProperties DEF RoundTyped
  <2>4. tries' \in 0..Rollouts /\ Len(keys') <= tries'
    BY <1>0, <2>1, <2>3, LearningBounds DEF RoundTyped
  <2> QED BY <2>3, <2>4 DEF RoundTyped
<1>5. CASE TtrlCrashes \/ TtrlVotes \/ StopTtrl
  <2>1. keys' = <<>> /\ tries' = 0
    BY <1>5 DEF TtrlCrashes, TtrlVotes, StopTtrl, RoundEnds
  <2> QED BY <2>1, LearningBounds DEF RoundTyped
<1>6. CASE LiveTrain \/ CommitTask \/ TimePasses \/ LogFeedback \/ Chat \/ ShutdownBegins
           \/ ReplayCrashes \/ StopReplay \/ Drain \/ UNCHANGED learnVars
  BY <1>1, <1>6 DEF LiveTrain, CommitTask, TimePasses, LogFeedback, Chat, ShutdownBegins,
                    ReplayCrashes, StopReplay,
                    Drain, learnVars, schedVars
<1>7. ASSUME NEW o \in Offsets, ReplayBurns(o) \/ ReplaySubmits(o) PROVE RoundTyped'
  BY <1>1, <1>7 DEF ReplayBurns, ReplaySubmits
<1> QED BY <1>2, <1>3, <1>4, <1>5, <1>6, <1>7 DEF LearnNext, StopSteps

LEMMA TypeParts ==
    LearnType <=> /\ queue \in Seq(Who) /\ Len(queue) <= QueueDepth
                  /\ records \in Seq(Kinds) /\ Len(records) <= MaxRecords
                  /\ CountersTyped /\ TasksTyped /\ RoundTyped
BY DEF LearnType, Who, Kinds, CountersTyped, TasksTyped, RoundTyped

LEMMA LearnTypeStep == LearnType /\ [LearnNext]_learnVars => LearnType'
<1> SUFFICES ASSUME LearnType, [LearnNext]_learnVars PROVE LearnType'
  OBVIOUS
<1>1. queue' \in Seq(Who) /\ Len(queue') <= QueueDepth
  BY Moves, QueueTyped, TypeParts
<1>2. records' \in Seq(Kinds) /\ Len(records') <= MaxRecords
  BY Moves, LogTyped, TypeParts
<1>3. CountersTyped' /\ TasksTyped' /\ RoundTyped'
  BY CountersStep, TasksStep, RoundStep
<1> QED BY <1>1, <1>2, <1>3 DEF LearnType, Who, Kinds, CountersTyped, TasksTyped, RoundTyped

LEMMA LearnTypeInit == LearnInit => LearnType
<1> SUFFICES ASSUME LearnInit PROVE LearnType
  OBVIOUS
<1>1. CountersTyped
  BY LearningBounds DEF LearnInit, CountersTyped
<1>2. TasksTyped
  BY DEF LearnInit, TasksTyped
<1>3. RoundTyped
  BY LearningBounds DEF LearnInit, RoundTyped
<1>4. queue \in Seq(Who) /\ Len(queue) <= QueueDepth
  BY LearningBounds DEF LearnInit
<1>5. records \in Seq(Kinds) /\ Len(records) <= MaxRecords
  <2>1. CASE records = <<>>
    BY <2>1, LearningBounds
  <2>2. ASSUME NEW l \in CutLines, records = <<l>> PROVE records \in Seq(Kinds) /\ Len(records) <= MaxRecords
    BY <2>2, LearningBounds DEF Kinds
  <2> QED BY <2>1, <2>2 DEF LearnInit
<1> QED BY <1>1, <1>2, <1>3, <1>4, <1>5, TypeParts

\* The queue, the log, the counters per offset and the two tasks keep their
\* types; the queue never holds more than its size.
THEOREM LearnTypeCorrect == LearnSpec => []LearnType
BY LearnTypeInit, LearnTypeStep, PTL DEF LearnSpec

-----------------------------------------------------------------------------
(* Background work in the queue. *)

\* Taking the head, or emptying the queue, keeps who is where.
LEMMA ShorterStaysBounded ==
    ASSUME LearnType, BoundedAt, ttrl' = "rolling" => ttrl = "rolling",
           \/ queue' = queue \/ queue' = <<>>
           \/ queue # <<>> /\ queue' = Tail(queue)
    PROVE  BoundedAt'
<1>1. CASE queue' = queue
  BY <1>1 DEF BoundedAt
<1>2. CASE queue' = <<>>
  BY <1>2 DEF BoundedAt
<1>3. CASE queue # <<>> /\ queue' = Tail(queue)
  <2>1. /\ Len(queue) \in Nat /\ Len(queue') = Len(queue) - 1
        /\ \A i \in 1..Len(queue') : i + 1 \in 1..Len(queue) /\ queue'[i] = queue[i + 1]
    BY <1>3, Taken, TypeParts
  <2>2. \A i, j \in 1..Len(queue') : queue'[i] = "ttrl" /\ queue'[j] = "ttrl" => i = j
    <3>1. SUFFICES ASSUME NEW i \in 1..Len(queue'), NEW j \in 1..Len(queue'),
                          queue'[i] = "ttrl", queue'[j] = "ttrl"
                   PROVE  i = j
      OBVIOUS
    <3>2. i + 1 = j + 1
      BY <2>1, <3>1 DEF BoundedAt
    <3> QED BY <3>2
  <2>3. \A i \in 1..Len(queue') : queue'[i] = "replay" => i = 1
    <3>1. \A i \in 1..Len(queue') : queue'[i] # "replay"
      BY <2>1 DEF BoundedAt
    <3> QED BY <3>1
  <2>4. ttrl' = "rolling" => \A i \in 1..Len(queue') : queue'[i] # "ttrl"
    BY <2>1 DEF BoundedAt
  <2> QED BY <2>2, <2>3, <2>4 DEF BoundedAt
<1> QED BY <1>1, <1>2, <1>3

\* A submission; replay's finds the queue empty, TTRL's none of its own there.
LEMMA LongerStaysBounded ==
    ASSUME LearnType, BoundedAt, NEW w \in Who, queue' = Append(queue, w),
           w = "replay" => queue = <<>>,
           w = "ttrl" => ttrl = "rolling" /\ ttrl' # "rolling",
           ttrl' = "rolling" => ttrl = "rolling"
    PROVE  BoundedAt'
<1>1. /\ Len(queue') = Len(queue) + 1 /\ Len(queue) \in Nat
      /\ \A i \in 1..Len(queue) : queue'[i] = queue[i]
      /\ queue'[Len(queue) + 1] = w
  BY Appended, TypeParts
<1>2. \A i \in 1..Len(queue') : i \in 1..Len(queue) \/ i = Len(queue) + 1
  BY <1>1
<1>3. \A i, j \in 1..Len(queue') : queue'[i] = "ttrl" /\ queue'[j] = "ttrl" => i = j
  BY <1>1, <1>2 DEF BoundedAt
<1>4. \A i \in 1..Len(queue') : queue'[i] = "replay" => i = 1
  <2>1. w = "replay" => Len(queue) = 0
    OBVIOUS
  <2> QED BY <1>1, <1>2, <2>1 DEF BoundedAt
<1>5. ttrl' = "rolling" => \A i \in 1..Len(queue') : queue'[i] # "ttrl"
  BY <1>1, <1>2 DEF BoundedAt
<1> QED BY <1>3, <1>4, <1>5 DEF BoundedAt

LEMMA BoundedStep ==
    ASSUME LearnType, BoundedAt, [LearnNext]_learnVars PROVE BoundedAt'
<1>1. CASE LiveTrain
  <2>1. queue' = Append(queue, "live") /\ ttrl' = ttrl
    BY <1>1 DEF LiveTrain, Submit, schedVars
  <2> QED BY <2>1, LongerStaysBounded DEF Who
<1>2. CASE LogFeedback
  <2>1. (queue' = Append(queue, "live") \/ queue' = queue) /\ ttrl' = ttrl
    BY <1>2 DEF LogFeedback, Submit, schedVars
  <2> QED BY <2>1, LongerStaysBounded, ShorterStaysBounded DEF Who
<1>3. ASSUME NEW o \in Offsets, ReplaySubmits(o) PROVE BoundedAt'
  <2>1. queue' = Append(queue, "replay") /\ ttrl' = ttrl /\ queue = <<>>
    BY <1>3 DEF ReplaySubmits, PicksRecord, Idle, Submit
  <2> QED BY <2>1, LongerStaysBounded DEF Who
<1>4. ASSUME NEW o \in Offsets, ReplayBurns(o) PROVE BoundedAt'
  <2>1. queue' = queue /\ ttrl' = ttrl
    BY <1>4 DEF ReplayBurns
  <2> QED BY <2>1, ShorterStaysBounded
<1>5. CASE TtrlVotes
  <2>1. /\ queue' = queue \/ queue' = Append(queue, "ttrl")
        /\ ttrl = "rolling" /\ ttrl' = "sleep"
    BY <1>5 DEF TtrlVotes, Submit
  <2> QED BY <2>1, LongerStaysBounded, ShorterStaysBounded DEF Who
<1>6. CASE TtrlPicks
  <2>1. queue = <<>> /\ queue' = queue
    BY <1>6 DEF TtrlPicks, Idle
  <2> QED BY <2>1 DEF BoundedAt
<1>7. CASE CommitTask \/ TimePasses \/ Chat \/ ReplayCrashes \/ TtrlCrashes \/ RolloutFails \/ Rollout
           \/ ShutdownBegins \/ StopSteps \/ UNCHANGED learnVars
  <2>1. /\ \/ queue' = queue \/ queue' = <<>>
           \/ queue # <<>> /\ queue' = Tail(queue)
        /\ ttrl' = "rolling" => ttrl = "rolling"
    BY <1>7 DEF CommitTask, TimePasses, Chat, ReplayCrashes, TtrlCrashes, RolloutFails, Rollout, ShutdownBegins,
                StopSteps, StopTtrl, StopReplay, Drain, learnVars, schedVars
  <2> QED BY <2>1, ShorterStaysBounded
<1> QED BY <1>1, <1>2, <1>3, <1>4, <1>5, <1>6, <1>7 DEF LearnNext

\* A set of indices with at most one member.
LEMMA AtMostOne ==
    ASSUME NEW S, \A i, j \in S : i = j
    PROVE  Cardinality(S) <= 1
<1>1. CASE S = {}
  BY <1>1, FS_EmptySet
<1>2. CASE S # {}
  <2>1. PICK x \in S : TRUE
    BY <1>2
  <2>2. S = {x}
    BY <2>1
  <2> QED BY <2>2, FS_Singleton
<1> QED BY <1>1, <1>2

\* Whatever the idle threshold and however stale TTRL's test for idleness is
\* when it submits, each scheduler has at most one task in the queue and
\* nothing is ahead of replay's (replay.py:130-132, ttrl_mv.py:218, 260).
THEOREM BackgroundStaysBounded == LearnSpec => []BackgroundIsBounded
<1>1. LearnInit => BoundedAt
  BY DEF LearnInit, BoundedAt
<1>2. LearnType /\ BoundedAt /\ [LearnNext]_learnVars => BoundedAt'
  BY BoundedStep
<1>3. BoundedAt => BackgroundIsBounded
  <2> SUFFICES ASSUME BoundedAt PROVE BackgroundIsBounded
    OBVIOUS
  <2>1. Cardinality(QueuedBy("ttrl")) <= 1
    BY AtMostOne DEF BoundedAt, QueuedBy
  <2>2. \A i \in QueuedBy("replay") : i = 1
    BY DEF BoundedAt, QueuedBy
  <2>3. Cardinality(QueuedBy("replay")) <= 1
    BY <2>2, AtMostOne
  <2> QED BY <2>1, <2>2, <2>3 DEF BackgroundIsBounded
<1> QED BY LearnTypeCorrect, <1>1, <1>2, <1>3, PTL DEF LearnSpec

-----------------------------------------------------------------------------
(* The caps. *)

LEMMA CapsStep == ASSUME CapsInv, [LearnNext]_learnVars PROVE RoundUnderCap' /\ CapsHold'
<1>0. CountersTyped /\ LearnType /\ RoundUnderCap /\ CapsHold
  BY TypeParts DEF CapsInv
<1>1. CASE /\ UNCHANGED <<replayed, nReplays, labelled, nLabels>>
           /\ ttrl' = "rolling" => ttrl = "rolling" /\ target' = target
  BY <1>0, <1>1 DEF RoundUnderCap, CapsHold
<1>2. ASSUME NEW o \in Offsets, ReplayBurns(o)
      PROVE  RoundUnderCap' /\ CapsHold'
  <2>1. /\ replayed' = [replayed EXCEPT ![o] = ReplayCap]
        /\ UNCHANGED <<nReplays, labelled, nLabels, target, ttrl>>
    BY <1>2 DEF ReplayBurns
  <2> QED BY <1>0, <2>1, LearningBounds DEF RoundUnderCap, CapsHold, CountersTyped
<1>3. ASSUME NEW o \in Offsets, ReplaySubmits(o)
      PROVE  RoundUnderCap' /\ CapsHold'
  <2>1. /\ replayed' = [replayed EXCEPT ![o] = @ + 1]
        /\ nReplays' = [nReplays EXCEPT ![o] = @ + 1]
        /\ UNCHANGED <<labelled, nLabels, target, ttrl>>
    BY <1>3 DEF ReplaySubmits
  <2>2. replayed[o] < ReplayCap
    BY <1>3 DEF ReplaySubmits, PicksRecord, Replayable
  <2> QED BY <1>0, <2>1, <2>2, LearningBounds DEF RoundUnderCap, CapsHold, CountersTyped
<1>4. CASE TtrlPicks
  <2>1. /\ target' \in Promptable
        /\ UNCHANGED <<replayed, nReplays, labelled, nLabels>>
    BY <1>4 DEF TtrlPicks
  <2>2. target' \in Offsets /\ labelled'[target'] < LabelCap
    BY <1>0, <2>1, Chosen DEF Promptable
  <2> QED BY <1>0, <2>1, <2>2 DEF RoundUnderCap, CapsHold
<1>5. CASE TtrlVotes
  <2>1. /\ ttrl = "rolling" /\ ttrl' = "sleep"
        /\ labelled' = [labelled EXCEPT ![target] = @ + 1]
        /\ nLabels' = nLabels \/ nLabels' = [nLabels EXCEPT ![target] = @ + 1]
        /\ UNCHANGED <<replayed, nReplays>>
    BY <1>5 DEF TtrlVotes
  <2>2. target \in Offsets /\ labelled[target] < LabelCap
    BY <1>0, <2>1 DEF RoundUnderCap
  <2> QED BY <1>0, <2>1, <2>2, LearningBounds DEF RoundUnderCap, CapsHold, CountersTyped
<1>6. CASE LiveTrain \/ CommitTask \/ TimePasses \/ LogFeedback \/ Chat \/ ReplayCrashes \/ TtrlCrashes
           \/ RolloutFails \/ Rollout \/ ShutdownBegins \/ StopSteps \/ UNCHANGED learnVars
  BY <1>1, <1>6 DEF LiveTrain, CommitTask, TimePasses, LogFeedback, Chat, ReplayCrashes, TtrlCrashes,
                    RolloutFails, Rollout, ShutdownBegins, StopSteps, StopTtrl, StopReplay,
                    Drain, learnVars, schedVars
<1> QED BY <1>2, <1>3, <1>4, <1>5, <1>6 DEF LearnNext

\* No record is replayed and no logged prompt labelled more often than its cap,
\* whichever submission is refused and whenever a shutdown comes between
\* (replay.py:147-174, ttrl_mv.py:242-264).
THEOREM CapsAreKept == LearnSpec => []CapsHold
<1>1. LearnInit => RoundUnderCap /\ CapsHold
  BY LearningBounds DEF LearnInit, RoundUnderCap, CapsHold
<1>2. CapsInv /\ [LearnNext]_learnVars => RoundUnderCap' /\ CapsHold'
  BY CapsStep
<1> QED BY LearnTypeInit, LearnTypeStep, <1>1, <1>2, PTL DEF LearnSpec, CapsInv
=============================================================================
