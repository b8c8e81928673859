-------------------------- MODULE ChunkFilesProofs --------------------------
(***************************************************************************)
(* Proofs about ChunkFiles, for any number of chunks, rows and attempts,   *)
(* any results of the queries and any limit on the size of files.          *)
(***************************************************************************)
EXTENDS ChunkFiles, TLAPS

USE NumbersAssumption, ConfigsAssumption, ResultsAssumption

LEMMA ConfigFields ==
  ASSUME conf \in Configs
  PROVE  /\ RowsSet \in BOOLEAN /\ Splits \in BOOLEAN /\ Concat \in BOOLEAN
         /\ FileLimit \in Nat
         /\ Concat => Splits /\ ~RowsSet /\ Chunks = {0}
         /\ Splits => ~RowsSet
         /\ Chunks \subseteq Nat /\ (~RowsSet => Chunks = {0})
  BY DEF RowsSet, Splits, Concat, FileLimit, Chunks

(* The configuration is settled at the start. *)
LEMMA ConfStable == [Next]_vars => conf' = conf
  BY DEF Next, WriteTableData, TakeChunk, Start, StartFails, WriteFile, NothingLeft,
     WriteFileFails, AdjustRows, RestoreRows, Terminated, vars

-----------------------------------------------------------------------------
(* Arithmetic of the files of a chunk: the k-th one begins after Offset(k) rows. *)
Offset(k) == k * FileLimit

LEMMA OffsetNat ==
  ASSUME FileLimit \in Nat, NEW k \in Nat
  PROVE  /\ Offset(k) \in Nat /\ Offset(0) = 0
         /\ Offset(k + 1) = Offset(k) + FileLimit
  BY DEF Offset

LEMMA OffsetMonotonic ==
  ASSUME FileLimit \in Nat, NEW k \in Nat, NEW l \in Nat, k < l
  PROVE  Offset(k) + FileLimit <= Offset(l)
<1> DEFINE d == l - (k + 1)
<1>1. d \in Nat
  OBVIOUS
<1>2. d * FileLimit \in Nat
  BY <1>1
<1>3. l = d + (k + 1)
  OBVIOUS
<1> HIDE DEF d
<1>4. l * FileLimit = d * FileLimit + (k * FileLimit + FileLimit)
  BY <1>1, <1>3
<1> QED BY <1>1, <1>2, <1>4 DEF Offset

-----------------------------------------------------------------------------
(* What holds in every configuration.                                      *)

Types ==
  /\ conf \in Configs
  /\ confRows \in BOOLEAN
  /\ st \in [Chunks -> {"queued", "start", "write", "ok", "err"}]
  /\ format \in [Chunks -> {"both", "file", "chunk"}]
  /\ fileIndex \in [Chunks -> Nat]
  /\ result \in [Chunks -> Results]
  /\ pos \in [Chunks -> Nat] /\ \A c \in Chunks : pos[c] <= Size(c)
  /\ broken \in [Chunks -> BOOLEAN]
  /\ unclosed \in [Chunks -> BOOLEAN]

\* the names of the files of a table with several chunks
TableFormat == IF FileLimit > 0 THEN "both" ELSE "chunk"

(* The names of a table with several chunks contain the chunk, and those of files of a *)
(* limited size the file.                                                              *)
FormatInv ==
  /\ ~Splits => confRows = RowsSet
  /\ \A c \in Chunks : st[c] \in {"write", "ok"} =>
       /\ FileLimit > 0 => format[c] # "chunk"
       /\ RowsSet => format[c] = TableFormat

Intact == Concat => ~broken[0]

(* A concatenated chunk whose iterator is whole has not read anything before. *)
FreshInv == Concat /\ Intact /\ st[0] \in {"queued", "start"} => pos[0] = 0

(* The rows the iterator has given are those of the files so far ... *)
PosInv(c) ==
  /\ st[c] = "ok" => ~broken[c] /\ pos[c] = Size(c)
  /\ st[c] = "write" /\ ~Concat => ~broken[c]
  /\ st[c] = "write" /\ ~broken[c] =>
       /\ FileLimit = 0 => pos[c] = 0 /\ fileIndex[c] = 0
       /\ FileLimit > 0 =>
            pos[c] = IF Offset(fileIndex[c]) < Size(c) THEN Offset(fileIndex[c]) ELSE Size(c)

InFile(n, c, i) ==
  n \in DOMAIN files /\ \E j \in 1 .. Len(files[n]) : files[n][j] = Row(c, i)

\* the i-th row is in a file that this attempt has finished
Written(c, i) ==
  \E k \in Nat : /\ FileLimit > 0 => k < fileIndex[c]
                 /\ InFile(Index(format[c], c, k), c, i)

(* ... and are in them, if all of these were closed. *)
RowsInv(c) ==
  st[c] \in {"write", "ok"} /\ ~broken[c] /\ ~unclosed[c] =>
    \A i \in 1 .. pos[c] : Written(c, i)

ProgressInv == \A c \in Chunks : PosInv(c) /\ RowsInv(c)

ChunkInv == Types /\ FormatInv /\ FreshInv /\ ProgressInv

LEMMA ChunkFields ==
  ASSUME Types, NEW c \in Chunks
  PROVE  /\ Size(c) \in Nat /\ pos[c] \in 0 .. Size(c) /\ fileIndex[c] \in Nat
         /\ FileLimit \in Nat /\ Concat \in BOOLEAN /\ RowsSet \in BOOLEAN
         /\ Concat => Chunks = {0} /\ c = 0
<1>1. result[c] \in Seq(Nat)
  BY DEF Types
<1>2. Size(c) \in Nat
  BY <1>1 DEF Size
<1>3. pos[c] \in Nat /\ pos[c] <= Size(c) /\ fileIndex[c] \in Nat
  BY Zenon DEF Types
<1> QED BY <1>2, <1>3, ConfigFields DEF Types

LEMMA ConfigStable ==
  ASSUME [Next]_vars
  PROVE  /\ conf' = conf
         /\ RowsSet' = RowsSet /\ Splits' = Splits /\ Concat' = Concat
         /\ FileLimit' = FileLimit /\ Chunks' = Chunks
         /\ Repeatable' = Repeatable /\ NamesSettled' = NamesSettled
         /\ \A k : Offset(k)' = Offset(k)
         /\ TableFormat' = TableFormat
         /\ \A b : NewOutputFileNamer(b)' = NewOutputFileNamer(b)
  BY ConfStable DEF RowsSet, Splits, Concat, FileLimit, Chunks, Repeatable, NamesSettled,
     Offset, TableFormat, NewOutputFileNamer

(* What an attempt has written stays so while nothing of it changes. *)
LEMMA WrittenStable ==
  ASSUME [Next]_vars, NEW c, format'[c] = format[c], fileIndex'[c] = fileIndex[c],
         result'[c] = result[c], files' = files, NEW i, Written(c, i)
  PROVE  Written(c, i)'
<1>1. FileLimit' = FileLimit
  BY ConfigStable
<1>2. Row(c, i)' = Row(c, i)
  BY DEF Row
<1>3. \A n : InFile(n, c, i) => InFile(n, c, i)'
  BY <1>2 DEF InFile
<1>4. \A k : Index(format[c], c, k)' = Index(format[c], c, k)
  BY DEF Index
<1> QED BY <1>1, <1>3, <1>4 DEF Written

-----------------------------------------------------------------------------
(* Names.                                                                  *)

(* Two chunks of a table have no file in common. *)
LEMMA NamesApart ==
  ASSUME NEW c, NEW d, c # d, NEW k, NEW l
  PROVE  Index(TableFormat, c, k) # Index(TableFormat, d, l)
  BY DEF TableFormat, Index

LEMMA FilesApart ==
  ASSUME NEW f \in {"both", "file"}, NEW c, NEW k, NEW l, k # l
  PROVE  Index(f, c, k) # Index(f, c, l)
  BY DEF Index

(* A writer overwrites no row of another chunk, nor one its attempt has written. *)
LEMMA StoreKeepsWritten ==
  ASSUME Types, FormatInv, NEW d \in Chunks, st[d] = "write", PosInv(d), ~broken[d],
         NEW s, files' = Store(Name(d), s), conf' = conf,
         NEW c \in Chunks, st[c] \in {"write", "ok"},
         format'[c] = format[c], result'[c] = result[c],
         fileIndex'[c] \in {fileIndex[c], fileIndex[c] + 1},
         NEW i \in 1 .. pos[c], Written(c, i)
  PROVE  Written(c, i)'
<1>1. PICK k \in Nat : /\ FileLimit > 0 => k < fileIndex[c]
                       /\ InFile(Index(format[c], c, k), c, i)
  BY DEF Written
<1> DEFINE n == Index(format[c], c, k)
<1>2. n # Name(d)
  <2>1. CASE c = d
    <3>1. FileLimit > 0
      BY <2>1, ChunkFields DEF PosInv
    <3>2. format[c] \in {"both", "file"}
      BY <3>1 DEF FormatInv, Types
    <3>3. k # fileIndex[c]
      BY <1>1, <3>1, ChunkFields
    <3> QED BY <2>1, <3>2, <3>3, FilesApart DEF Name
  <2>2. CASE c # d
    <3>1. RowsSet
      BY <2>2, ConfigFields DEF Types
    <3>2. format[c] = TableFormat /\ format[d] = TableFormat
      BY <3>1 DEF FormatInv
    <3> QED BY <2>2, <3>2, NamesApart DEF Name
  <2> QED BY <2>1, <2>2
<1>3. InFile(n, c, i)
  BY <1>1
<1>4. n' = n
  BY DEF Index
<1> HIDE DEF n
<1>5. n \in DOMAIN files' /\ files'[n] = files[n] /\ Row(c, i)' = Row(c, i)
  BY <1>2, <1>3 DEF InFile, Store, Row
<1>6. InFile(n, c, i)'
  BY <1>3, <1>4, <1>5 DEF InFile
<1>7. FileLimit' = FileLimit /\ (FileLimit > 0 => k < fileIndex'[c])
  <2>1. FileLimit' = FileLimit
    BY DEF FileLimit
  <2> QED BY <1>1, <2>1, ChunkFields
<1> QED BY <1>6, <1>7 DEF Written, n

LEMMA LenFrom ==
  ASSUME NEW c, NEW m \in Nat
  PROVE  /\ Len(RowsFrom(c, m)) = m
         /\ \A j \in 1 .. m : RowsFrom(c, m)[j] = Row(c, pos[c] + j)
  BY DEF RowsFrom

(* The rows that a writer puts into its next file are those the file should have. *)
LEMMA PortionFits ==
  ASSUME Types, NEW c \in Chunks, PosInv(c), st[c] = "write", ~broken[c]
  PROVE  /\ Portion(c) \in Nat /\ pos[c] + Portion(c) \in 0 .. Size(c)
         /\ FileLimit > 0 => Portion(c) <= FileLimit
         /\ FileLimit = 0 => fileIndex[c] = 0 /\ Portion(c) = Size(c) /\ pos[c] = 0
         /\ Portion(c) > 0 => pos[c] = Offset(fileIndex[c])
         /\ FileLimit > 0 /\ Left(c) > 0 =>
              pos[c] + Portion(c) = IF Offset(fileIndex[c] + 1) < Size(c)
                                    THEN Offset(fileIndex[c] + 1) ELSE Size(c)
<1>1. FileLimit \in Nat /\ Size(c) \in Nat /\ pos[c] \in 0 .. Size(c) /\ fileIndex[c] \in Nat
  BY ChunkFields
<1>2. /\ Offset(fileIndex[c]) \in Nat /\ Offset(0) = 0
      /\ Offset(fileIndex[c] + 1) = Offset(fileIndex[c]) + FileLimit
  BY <1>1, OffsetNat, Zenon
<1>3. Left(c) \in Nat /\ pos[c] + Left(c) = Size(c)
  BY <1>1 DEF Left
<1>4. Portion(c) \in Nat /\ Portion(c) <= Left(c) /\ (FileLimit > 0 => Portion(c) <= FileLimit)
  BY <1>1, <1>3 DEF Portion
<1>5. FileLimit = 0 => fileIndex[c] = 0 /\ Portion(c) = Size(c) /\ pos[c] = 0
  BY <1>1, <1>3 DEF Portion, PosInv
<1>6. Left(c) > 0 => pos[c] = Offset(fileIndex[c])
  BY <1>1, <1>2, <1>3 DEF PosInv
<1>7. FileLimit > 0 /\ Left(c) > 0 =>
        pos[c] + Portion(c) = IF Offset(fileIndex[c] + 1) < Size(c)
                              THEN Offset(fileIndex[c] + 1) ELSE Size(c)
  BY <1>1, <1>2, <1>3, <1>6 DEF Portion, Left
<1>8. pos[c] + Portion(c) \in 0 .. Size(c)
  BY <1>1, <1>3, <1>4
<1>9. Portion(c) > 0 => pos[c] = Offset(fileIndex[c])
  BY <1>3, <1>4, <1>6
<1> QED BY <1>4, <1>5, <1>7, <1>8, <1>9

(* A whole portion extends the rows that are in the files. *)
LEMMA PortionIsWritten ==
  ASSUME Types, NEW c \in Chunks, PosInv(c), st[c] = "write", ~broken[c],
         files' = Store(Name(c), RowsFrom(c, Portion(c))),
         UNCHANGED <<conf, format, result>>,
         FileLimit > 0 => fileIndex'[c] = fileIndex[c] + 1,
         NEW i \in pos[c] + 1 .. pos[c] + Portion(c)
  PROVE  Written(c, i)'
<1> DEFINE n == Name(c)
           j == i - pos[c]
<1>1. Portion(c) \in Nat /\ pos[c] \in Nat /\ fileIndex[c] \in Nat
  BY PortionFits, ChunkFields
<1>2. n \in DOMAIN files' /\ files'[n] = RowsFrom(c, Portion(c))
  BY DEF Store
<1>3. j \in 1 .. Portion(c) /\ pos[c] + j = i
  BY <1>1
<1>4. n = Index(format[c], c, fileIndex[c]) /\ FileLimit' = FileLimit
  BY DEF Name, FileLimit
<1> HIDE DEF n, j
<1>5. /\ Len(RowsFrom(c, Portion(c))) = Portion(c)
      /\ \A x \in 1 .. Portion(c) : RowsFrom(c, Portion(c))[x] = Row(c, pos[c] + x)
  BY <1>1, LenFrom, Zenon
<1>6. Row(c, i)' = Row(c, i)
  BY DEF Row
<1>7. Len(files'[n]) = Portion(c) /\ files'[n][j] = Row(c, i)'
  BY <1>2, <1>3, <1>5, <1>6
<1>8. \E y \in 1 .. Len(files'[n]) : files'[n][y] = Row(c, i)'
  BY <1>3, <1>7
<1>9. \A k : (k = fileIndex[c]) => Index(format[c], c, k)' = n
  BY <1>4 DEF Index
<1>10. FileLimit > 0 => fileIndex[c] < fileIndex'[c]
  BY <1>1
<1> QED BY <1>1, <1>2, <1>4, <1>8, <1>9, <1>10, Zenon DEF Written, InFile

-----------------------------------------------------------------------------
(* The invariant: one lemma for every kind of step.                        *)

LEMMA ChunkInvInit == Init => ChunkInv
<1> SUFFICES ASSUME Init PROVE ChunkInv
  OBVIOUS
<1>1. Types
  <2>1. \A c \in Chunks : Len(result[c]) \in Nat
    BY DEF Init
  <2> QED BY <2>1, ConfigFields DEF Init, Types, Size
<1>2. \A c \in Chunks : st[c] = "queued" /\ pos[c] = 0
  BY DEF Init
<1>3. Concat => 0 \in Chunks
  BY <1>1, ConfigFields DEF Types
<1>4. FormatInv /\ FreshInv
  BY <1>2, <1>3 DEF Init, FormatInv, FreshInv
<1>5. ProgressInv
  BY <1>2 DEF ProgressInv, PosInv, RowsInv
<1> QED BY <1>1, <1>4, <1>5 DEF ChunkInv

(* The other chunks of a step. *)
LEMMA OtherChunk ==
  ASSUME [Next]_vars, NEW d, PosInv(d), RowsInv(d),
         st'[d] = st[d], format'[d] = format[d], fileIndex'[d] = fileIndex[d],
         result'[d] = result[d], pos'[d] = pos[d], broken'[d] = broken[d],
         unclosed'[d] = unclosed[d],
         st[d] \in {"write", "ok"} => \A i \in 1 .. pos[d] : Written(d, i) => Written(d, i)'
  PROVE  PosInv(d)' /\ RowsInv(d)'
<1>1. /\ Concat' = Concat /\ FileLimit' = FileLimit /\ Size(d)' = Size(d)
      /\ \A k : Offset(k)' = Offset(k)
  BY ConfigStable DEF Size
<1>2. PosInv(d)'
  BY <1>1, Zenon DEF PosInv
<1>3. RowsInv(d)'
  BY Zenon DEF RowsInv
<1> QED BY <1>2, <1>3

(* A step that writes nothing and starts no attempt. *)
LEMMA QuietStep ==
  ASSUME ChunkInv, [Next]_vars,
         UNCHANGED <<format, fileIndex, result, pos, broken, unclosed, files>>,
         confRows' \in BOOLEAN, ~Splits => confRows' = confRows,
         st' \in [Chunks -> {"queued", "start", "write", "ok", "err"}],
         \A c \in Chunks : /\ st'[c] \in {"write", "ok"} => st[c] = st'[c]
                           /\ st'[c] \in {"queued", "start"} => st[c] \in {"queued", "start"}
  PROVE  ChunkInv'
<1>0. /\ conf' = conf
      /\ RowsSet' = RowsSet /\ Splits' = Splits /\ Concat' = Concat
      /\ FileLimit' = FileLimit /\ Chunks' = Chunks
      /\ TableFormat' = TableFormat
  BY ConfigStable
<1>1. Types'
  <2>1. \A c : Size(c)' = Size(c)
    BY DEF Size
  <2> QED BY <1>0, <2>1 DEF ChunkInv, Types
<1>2. FormatInv'
  BY <1>0, Zenon DEF ChunkInv, FormatInv
<1>3. FreshInv'
  <2>1. Concat => 0 \in Chunks
    BY ConfigFields DEF ChunkInv, Types
  <2> QED BY <1>0, <2>1, Zenon DEF ChunkInv, FreshInv, Intact
<1>4. ASSUME NEW d \in Chunks PROVE PosInv(d)' /\ RowsInv(d)'
  <2>1. PosInv(d) /\ RowsInv(d)
    BY DEF ChunkInv, ProgressInv
  <2>2. \A i \in 1 .. pos[d] : Written(d, i) => Written(d, i)'
    BY WrittenStable, Zenon
  <2>3. CASE st'[d] = st[d]
    BY <2>1, <2>2, <2>3, OtherChunk, Zenon
  <2>4. CASE st'[d] \notin {"write", "ok"}
    BY <2>4 DEF PosInv, RowsInv
  <2> QED BY <2>3, <2>4, Zenon
<1> QED BY <1>0, <1>1, <1>2, <1>3, <1>4, Zenon DEF ChunkInv, ProgressInv

(* An attempt starts with the first row, or with a broken iterator. *)
LEMMA StartStep ==
  ASSUME ChunkInv, [Next]_vars, NEW c \in Chunks, Start(c)
  PROVE  ChunkInv'
<1>0. /\ conf' = conf
      /\ RowsSet' = RowsSet /\ Splits' = Splits /\ Concat' = Concat
      /\ FileLimit' = FileLimit /\ Chunks' = Chunks
      /\ \A k : Offset(k)' = Offset(k)
      /\ TableFormat' = TableFormat
  BY ConfigStable
<1>1. /\ RowsSet \in BOOLEAN /\ Splits \in BOOLEAN /\ Concat \in BOOLEAN
      /\ FileLimit \in Nat /\ (Concat => Chunks = {0} /\ c = 0) /\ (RowsSet => ~Splits)
  BY ConfigFields DEF ChunkInv, Types
<1>2. /\ Types /\ FormatInv /\ FreshInv
      /\ \A d \in Chunks : PosInv(d) /\ RowsInv(d)
  BY DEF ChunkInv, ProgressInv
<1>3. /\ st[c] = "start" /\ st'[c] = "write" /\ fileIndex'[c] = 0 /\ unclosed'[c] = FALSE
      /\ format'[c] = NewOutputFileNamer(confRows)
      /\ confRows' = confRows /\ files' = files
  BY <1>2 DEF Start, Types
<1>4. /\ Concat => pos' = pos /\ broken' = broken /\ result' = result
      /\ ~Concat => pos'[c] = 0 /\ broken'[c] = FALSE /\ result' \in [Chunks -> Results]
  BY <1>2 DEF Start, Types
<1>5. \A d \in Chunks \ {c} :
        /\ st'[d] = st[d] /\ fileIndex'[d] = fileIndex[d] /\ unclosed'[d] = unclosed[d]
        /\ format'[d] = format[d] /\ pos'[d] = pos[d] /\ broken'[d] = broken[d]
        /\ result'[d] = result[d]
  BY <1>2 DEF Start, Types
<1>6. Types'
  <2>1. /\ st' \in [Chunks -> {"queued", "start", "write", "ok", "err"}]
        /\ format' \in [Chunks -> {"both", "file", "chunk"}]
        /\ fileIndex' \in [Chunks -> Nat]
        /\ unclosed' \in [Chunks -> BOOLEAN]
    <3>1. NewOutputFileNamer(confRows) \in {"both", "file", "chunk"}
      BY DEF NewOutputFileNamer
    <3> QED BY <1>2, <3>1 DEF Start, Types
  <2>2. /\ pos' \in [Chunks -> Nat] /\ broken' \in [Chunks -> BOOLEAN]
        /\ result' \in [Chunks -> Results]
    <3>1. CASE Concat
      BY <1>2, <1>4, <3>1 DEF Types
    <3>2. CASE ~Concat
      <4>1. pos' = [pos EXCEPT ![c] = 0] /\ broken' = [broken EXCEPT ![c] = FALSE]
        BY <3>2 DEF Start
      <4> QED BY <1>2, <1>4, <3>2, <4>1 DEF Types
    <3> QED BY <1>1, <3>1, <3>2
  <2>3. ASSUME NEW d \in Chunks PROVE pos'[d] <= Size(d)'
    <3>1. result'[d] \in Seq(Nat)
      BY <2>2
    <3>2. CASE d = c /\ ~Concat
      BY <1>4, <3>1, <3>2 DEF Size
    <3>3. CASE d # c \/ Concat
      <4>1. pos'[d] = pos[d] /\ Size(d)' = Size(d)
        BY <1>4, <1>5, <3>3 DEF Size
      <4> QED BY <1>2, <4>1 DEF Types
    <3> QED BY <3>2, <3>3
  <2> QED BY <1>0, <1>2, <1>3, <2>1, <2>2, <2>3 DEF Types
<1>7. FormatInv'
  <2>1. FileLimit > 0 => format'[c] # "chunk"
    BY <1>3 DEF NewOutputFileNamer
  <2>2. RowsSet => format'[c] = TableFormat
    BY <1>1, <1>2, <1>3 DEF FormatInv, NewOutputFileNamer, TableFormat
  <2> QED BY <1>0, <1>2, <1>3, <1>5, <2>1, <2>2, ZenonT(30) DEF FormatInv
<1>8. FreshInv'
  BY <1>0, <1>1, <1>3 DEF FreshInv
<1>9. ASSUME NEW d \in Chunks PROVE PosInv(d)' /\ RowsInv(d)'
  <2>1. CASE d = c
    <3>1. Offset(0) = 0
      BY <1>1, OffsetNat
    <3>2. ~broken'[c] => pos'[c] = 0
      BY <1>1, <1>2, <1>3, <1>4 DEF FreshInv, Intact
    <3>3. ~Concat => ~broken'[c]
      BY <1>4
    <3>4. Size(c)' \in Nat
      BY <1>6 DEF Types, Size
    <3>5. PosInv(c)'
      BY <1>0, <1>1, <1>3, <3>1, <3>2, <3>3, <3>4 DEF PosInv
    <3>6. RowsInv(c)'
      BY <1>3, <3>2 DEF RowsInv
    <3> QED BY <2>1, <3>5, <3>6
  <2>2. CASE d # c
    <3>1. \A i \in 1 .. pos[d] : Written(d, i) => Written(d, i)'
      BY <1>3, <1>5, <2>2, WrittenStable, Zenon
    <3> QED BY <1>2, <1>5, <2>2, <3>1, OtherChunk, Zenon
  <2> QED BY <2>1, <2>2
<1> QED BY <1>0, <1>6, <1>7, <1>8, <1>9, Zenon DEF ChunkInv, ProgressInv

(* A round that writes a file. *)
LEMMA WriteFileStep ==
  ASSUME ChunkInv, [Next]_vars, NEW c \in Chunks, WriteFile(c)
  PROVE  ChunkInv'
<1>0. /\ conf' = conf
      /\ RowsSet' = RowsSet /\ Splits' = Splits /\ Concat' = Concat
      /\ FileLimit' = FileLimit /\ Chunks' = Chunks
      /\ \A k : Offset(k)' = Offset(k)
      /\ TableFormat' = TableFormat
  BY ConfigStable
<1>1. /\ Types /\ FormatInv /\ FreshInv
      /\ \A d \in Chunks : PosInv(d) /\ RowsInv(d)
  BY DEF ChunkInv, ProgressInv
<1>2. /\ FileLimit \in Nat /\ Concat \in BOOLEAN /\ (Concat => Chunks = {0} /\ c = 0)
      /\ fileIndex[c] \in Nat /\ Size(c) \in Nat /\ pos[c] \in 0 .. Size(c)
  BY <1>1, ChunkFields
<1>3. /\ st[c] = "write" /\ ~broken[c] /\ Left(c) > 0
      /\ format' = format /\ broken' = broken /\ confRows' = confRows /\ result' = result
      /\ pos' = [pos EXCEPT ![c] = @ + Portion(c)]
      /\ FileLimit = 0 => st' = [st EXCEPT ![c] = "ok"] /\ fileIndex' = fileIndex
      /\ FileLimit > 0 => st' = st /\ fileIndex' = [fileIndex EXCEPT ![c] = @ + 1]
  BY <1>2 DEF WriteFile
<1>4. /\ Portion(c) \in Nat /\ pos[c] + Portion(c) \in 0 .. Size(c)
      /\ FileLimit = 0 => fileIndex[c] = 0 /\ Portion(c) = Size(c) /\ pos[c] = 0
      /\ FileLimit > 0 => pos[c] + Portion(c) = IF Offset(fileIndex[c] + 1) < Size(c)
                                                THEN Offset(fileIndex[c] + 1) ELSE Size(c)
  BY <1>1, <1>3, PortionFits
<1>5. \A d : Size(d)' = Size(d)
  BY <1>3 DEF Size
<1>6. PICK s : files' = Store(Name(c), s)
  BY DEF WriteFile
<1>7. ~unclosed'[c] => ~unclosed[c] /\ files' = Store(Name(c), RowsFrom(c, Portion(c)))
  BY <1>1 DEF WriteFile, Types
<1>8. \A d \in Chunks : /\ d # c => st'[d] = st[d] /\ pos'[d] = pos[d]
                                    /\ fileIndex'[d] = fileIndex[d] /\ unclosed'[d] = unclosed[d]
                        /\ pos'[c] = pos[c] + Portion(c)
                        /\ FileLimit = 0 => st'[c] = "ok" /\ fileIndex'[c] = fileIndex[c]
                        /\ FileLimit > 0 => st'[c] = "write" /\ fileIndex'[c] = fileIndex[c] + 1
  <2>1. \A d \in Chunks : d # c => unclosed'[d] = unclosed[d]
    BY <1>1 DEF WriteFile, Types
  <2>2. \A d \in Chunks : d # c => pos'[d] = pos[d]
    BY <1>1, <1>3 DEF Types
  <2>3. pos'[c] = pos[c] + Portion(c)
    BY <1>1, <1>3 DEF Types
  <2>4. CASE FileLimit = 0
    BY <1>1, <1>3, <2>1, <2>2, <2>3, <2>4 DEF Types
  <2>5. CASE FileLimit > 0
    BY <1>1, <1>3, <2>1, <2>2, <2>3, <2>5 DEF Types
  <2> QED BY <1>2, <2>4, <2>5
<1>9. Types'
  <2>1. unclosed' \in [Chunks -> BOOLEAN]
    BY <1>1, Zenon DEF WriteFile, Types
  <2>2. pos' \in [Chunks -> Nat]
    BY <1>1, <1>2, <1>3, <1>4 DEF Types
  <2>3. st' \in [Chunks -> {"queued", "start", "write", "ok", "err"}]
    <3>1. CASE FileLimit = 0
      BY <1>1, <1>3, <3>1, ZenonT(30) DEF Types
    <3>2. CASE FileLimit > 0
      BY <1>1, <1>3, <3>2, Zenon DEF Types
    <3> QED BY <1>2, <3>1, <3>2
  <2>4. fileIndex' \in [Chunks -> Nat]
    BY <1>1, <1>2, <1>3, SMTT(30) DEF Types
  <2>5. ASSUME NEW d \in Chunks PROVE pos'[d] <= Size(d)'
    <3>1. CASE d = c
      BY <1>4, <1>5, <1>8, <3>1
    <3>2. CASE d # c
      BY <1>1, <1>5, <1>8, <3>2, Zenon DEF Types
    <3> QED BY <3>1, <3>2
  <2> QED BY <1>0, <1>1, <1>3, <2>1, <2>2, <2>3, <2>4, <2>5, Zenon DEF Types
<1>10. \A d \in Chunks : st'[d] \in {"write", "ok"} => st[d] \in {"write", "ok"}
  BY <1>3, <1>8, Zenon
<1>11. FormatInv'
  BY <1>0, <1>1, <1>3, <1>10, Zenon DEF FormatInv
<1>12. FreshInv'
  <2>1. st'[c] \notin {"queued", "start"}
    BY <1>2, <1>8
  <2> QED BY <1>0, <1>2, <2>1, Zenon DEF FreshInv
<1>13. ASSUME NEW d \in Chunks, st[d] \in {"write", "ok"}, NEW i \in 1 .. pos[d], Written(d, i)
       PROVE  Written(d, i)'
  <2>1. fileIndex'[d] \in {fileIndex[d], fileIndex[d] + 1}
    BY <1>2, <1>8
  <2>2. format'[d] = format[d] /\ result'[d] = result[d] /\ PosInv(c)
    BY <1>1, <1>3
  <2> QED BY <1>0, <1>1, <1>3, <1>6, <1>13, <2>1, <2>2, StoreKeepsWritten, Zenon
<1>14. ASSUME NEW d \in Chunks, d # c PROVE PosInv(d)' /\ RowsInv(d)'
  <2>1. /\ st'[d] = st[d] /\ format'[d] = format[d] /\ fileIndex'[d] = fileIndex[d]
        /\ result'[d] = result[d] /\ pos'[d] = pos[d] /\ broken'[d] = broken[d]
        /\ unclosed'[d] = unclosed[d]
    BY <1>3, <1>8, <1>14, Zenon
  <2>2. st[d] \in {"write", "ok"} => \A i \in 1 .. pos[d] : Written(d, i) => Written(d, i)'
    BY <1>13, Zenon
  <2> QED BY <1>1, <2>1, <2>2, OtherChunk, Zenon
<1>15. PosInv(c)'
  <2>1. CASE FileLimit = 0
    <3>1. st'[c] = "ok" /\ pos'[c] = 0 + Size(c)
      BY <1>4, <1>8, <2>1, Zenon
    <3>2. pos'[c] = Size(c)'
      BY <1>2, <1>5, <3>1
    <3> QED BY <1>3, <3>1, <3>2, Zenon DEF PosInv
  <2>2. CASE FileLimit > 0
    <3>1. /\ st'[c] = "write" /\ fileIndex'[c] = fileIndex[c] + 1
          /\ pos'[c] = IF Offset(fileIndex[c] + 1) < Size(c) THEN Offset(fileIndex[c] + 1)
                       ELSE Size(c)
      BY <1>4, <1>8, <2>2, Zenon
    <3>2. FileLimit # 0
      BY <2>2
    <3> QED BY <1>0, <1>3, <1>5, <2>2, <3>1, <3>2, Zenon DEF PosInv
  <2> QED BY <1>2, <2>1, <2>2
<1>16. RowsInv(c)'
  <2>1. SUFFICES ASSUME ~unclosed'[c], NEW i \in 1 .. pos'[c] PROVE Written(c, i)'
    BY DEF RowsInv
  <2>2. i \in 1 .. pos[c] + Portion(c)
    BY <1>8
  <2>3. CASE i \in 1 .. pos[c]
    <3>1. Written(c, i)
      BY <1>1, <1>3, <1>7, <2>1, <2>3, Zenon DEF RowsInv
    <3> QED BY <1>3, <1>13, <2>3, <3>1, Zenon
  <2>4. CASE i \in pos[c] + 1 .. pos[c] + Portion(c)
    <3>1. PosInv(c) /\ (FileLimit > 0 => fileIndex'[c] = fileIndex[c] + 1)
      BY <1>1, <1>8, Zenon
    <3> QED BY <1>0, <1>1, <1>3, <1>7, <2>1, <2>4, <3>1, PortionIsWritten, Zenon
  <2> QED BY <1>2, <1>4, <2>2, <2>3, <2>4
<1> QED BY <1>0, <1>9, <1>11, <1>12, <1>14, <1>15, <1>16, Zenon DEF ChunkInv, ProgressInv

(* The round that finds no rows ends the attempt with all of them read. *)
LEMMA NothingLeftStep ==
  ASSUME ChunkInv, [Next]_vars, NEW c \in Chunks, NothingLeft(c)
  PROVE  ChunkInv'
<1>0. /\ conf' = conf
      /\ RowsSet' = RowsSet /\ Splits' = Splits /\ Concat' = Concat
      /\ FileLimit' = FileLimit /\ Chunks' = Chunks
      /\ TableFormat' = TableFormat
  BY ConfigStable
<1>1. /\ Types /\ FormatInv /\ FreshInv
      /\ \A d \in Chunks : PosInv(d) /\ RowsInv(d)
  BY DEF ChunkInv, ProgressInv
<1>2. /\ st[c] = "write" /\ st'[c] = "ok" /\ ~broken[c] /\ Left(c) = 0
      /\ \A d \in Chunks : d # c => st'[d] = st[d]
      /\ UNCHANGED <<confRows, format, fileIndex, result, pos, broken, unclosed, files>>
  BY <1>1 DEF NothingLeft, Types
<1>3. \A d : Size(d)' = Size(d)
  BY <1>2 DEF Size
<1>4. Types'
  <2>1. st' \in [Chunks -> {"queued", "start", "write", "ok", "err"}]
    BY <1>1 DEF NothingLeft, Types
  <2> QED BY <1>0, <1>1, <1>2, <1>3, <2>1 DEF Types
<1>5. FormatInv'
  <2>1. \A d \in Chunks : st'[d] \in {"write", "ok"} => st[d] \in {"write", "ok"}
    BY <1>2, Zenon
  <2> QED BY <1>0, <1>1, <1>2, <2>1, Zenon DEF FormatInv
<1>6. FreshInv'
  <2>1. Concat => c = 0
    BY <1>1, ChunkFields
  <2> QED BY <1>0, <1>2, <2>1 DEF FreshInv
<1>7. \A d, i : Written(d, i) => Written(d, i)'
  BY <1>2, WrittenStable, Zenon
<1>8. ASSUME NEW d \in Chunks PROVE PosInv(d)' /\ RowsInv(d)'
  <2>1. CASE d = c
    <3>1. pos[c] = Size(c)
      BY <1>1, <1>2, ChunkFields DEF Left
    <3>2. PosInv(c)'
      BY <1>2, <1>3, <3>1 DEF PosInv
    <3>3. RowsInv(c)'
      BY <1>1, <1>2, <1>7, Zenon DEF RowsInv
    <3> QED BY <2>1, <3>2, <3>3
  <2>2. CASE d # c
    <3>1. /\ st'[d] = st[d] /\ format'[d] = format[d] /\ fileIndex'[d] = fileIndex[d]
          /\ result'[d] = result[d] /\ pos'[d] = pos[d] /\ broken'[d] = broken[d]
          /\ unclosed'[d] = unclosed[d]
      BY <1>2, <2>2, Zenon
    <3> QED BY <1>1, <1>7, <3>1, OtherChunk, Zenon
  <2> QED BY <2>1, <2>2
<1> QED BY <1>0, <1>4, <1>5, <1>6, <1>8, Zenon DEF ChunkInv, ProgressInv

(* A round that fails breaks the iterator and may leave a part of a file behind. *)
LEMMA WriteFileFailsStep ==
  ASSUME ChunkInv, [Next]_vars, NEW c \in Chunks, WriteFileFails(c)
  PROVE  ChunkInv'
<1>0. /\ conf' = conf
      /\ RowsSet' = RowsSet /\ Splits' = Splits /\ Concat' = Concat
      /\ FileLimit' = FileLimit /\ Chunks' = Chunks
      /\ TableFormat' = TableFormat
  BY ConfigStable
<1>1. /\ Types /\ FormatInv /\ FreshInv
      /\ \A d \in Chunks : PosInv(d) /\ RowsInv(d)
  BY DEF ChunkInv, ProgressInv
<1>2. /\ Concat \in BOOLEAN /\ (Concat => Chunks = {0} /\ c = 0)
      /\ Size(c) \in Nat /\ pos[c] \in 0 .. Size(c)
  BY <1>1, ChunkFields
<1>3. /\ st[c] = "write" /\ st'[c] \in {"start", "err"} /\ broken'[c] = TRUE
      /\ st' \in [Chunks -> {"queued", "start", "write", "ok", "err"}]
      /\ broken' \in [Chunks -> BOOLEAN]
      /\ \A d \in Chunks : d # c => st'[d] = st[d] /\ broken'[d] = broken[d]
      /\ UNCHANGED <<confRows, format, fileIndex, result, unclosed>>
  BY <1>1, Zenon DEF WriteFileFails, Failed, Types
<1>4. /\ pos' \in [Chunks -> Nat] /\ pos'[c] <= Size(c)
      /\ \A d \in Chunks : d # c => pos'[d] = pos[d]
  <2>1. CASE UNCHANGED <<files, pos>>
    BY <1>1, <1>2, <2>1 DEF Types
  <2>2. CASE /\ ~broken[c]
             /\ \E n \in 0 .. Portion(c) :
                  \E read \in n .. Portion(c) : pos' = [pos EXCEPT ![c] = @ + read]
    <3>1. Portion(c) \in Nat /\ pos[c] + Portion(c) \in 0 .. Size(c)
      BY <1>1, <1>3, <2>2, PortionFits
    <3>2. PICK read \in 0 .. Portion(c) : pos' = [pos EXCEPT ![c] = @ + read]
      <4>1. PICK n \in 0 .. Portion(c) :
              \E read \in n .. Portion(c) : pos' = [pos EXCEPT ![c] = @ + read]
        BY <2>2, Zenon
      <4>2. n .. Portion(c) \subseteq 0 .. Portion(c)
        BY <3>1
      <4> QED BY <4>1, <4>2, Zenon
    <3>3. pos[c] + read \in 0 .. Size(c) /\ pos[c] + read \in Nat
      BY <1>2, <3>1
    <3>4. pos'[c] = pos[c] + read
      BY <1>1, <3>2 DEF Types
    <3> QED BY <1>1, <3>2, <3>3, <3>4 DEF Types
  <2> QED BY <2>1, <2>2 DEF WriteFileFails
<1>5. Types'
  <2>1. \A d : Size(d)' = Size(d)
    BY <1>3 DEF Size
  <2>2. \A d \in Chunks : pos'[d] <= Size(d)'
    BY <1>1, <1>4, <2>1, Zenon DEF Types
  <2> QED BY <1>0, <1>1, <1>3, <1>4, <2>2 DEF Types
<1>6. \A d \in Chunks : st'[d] \in {"write", "ok"} => d # c /\ st[d] = st'[d]
  BY <1>3
<1>7. FormatInv'
  BY <1>0, <1>1, <1>3, <1>6, Zenon DEF FormatInv
<1>8. FreshInv'
  BY <1>0, <1>2, <1>3 DEF FreshInv, Intact
<1>9. ASSUME NEW d \in Chunks, d # c, st[d] \in {"write", "ok"}, NEW i \in 1 .. pos[d],
             Written(d, i)
      PROVE  Written(d, i)'
  <2>1. CASE files' = files
    BY <1>3, <1>9, <2>1, WrittenStable, Zenon
  <2>2. CASE ~broken[c] /\ \E s : files' = Store(Name(c), s)
    <3>1. PICK s : files' = Store(Name(c), s)
      BY <2>2
    <3>2. /\ fileIndex'[d] \in {fileIndex[d], fileIndex[d] + 1}
          /\ format'[d] = format[d] /\ result'[d] = result[d] /\ PosInv(c)
      BY <1>1, <1>3
    <3> QED BY <1>0, <1>1, <1>3, <1>9, <2>2, <3>1, <3>2, StoreKeepsWritten, Zenon
  <2> QED BY <2>1, <2>2, Zenon DEF WriteFileFails
<1>10. ASSUME NEW d \in Chunks PROVE PosInv(d)' /\ RowsInv(d)'
  <2>1. CASE d = c
    BY <1>3, <2>1 DEF PosInv, RowsInv
  <2>2. CASE d # c
    <3>1. /\ st'[d] = st[d] /\ format'[d] = format[d] /\ fileIndex'[d] = fileIndex[d]
          /\ result'[d] = result[d] /\ pos'[d] = pos[d] /\ broken'[d] = broken[d]
          /\ unclosed'[d] = unclosed[d]
      BY <1>3, <1>4, <2>2, Zenon
    <3>2. st[d] \in {"write", "ok"} => \A i \in 1 .. pos[d] : Written(d, i) => Written(d, i)'
      BY <1>9, <2>2, Zenon
    <3> QED BY <1>1, <3>1, <3>2, OtherChunk, Zenon
  <2> QED BY <2>1, <2>2
<1> QED BY <1>0, <1>5, <1>7, <1>8, <1>10, Zenon DEF ChunkInv, ProgressInv

LEMMA ChunkInvStep == ChunkInv /\ [Next]_vars => ChunkInv'
<1> SUFFICES ASSUME ChunkInv, [Next]_vars PROVE ChunkInv'
  OBVIOUS
<1>0. Types
  BY DEF ChunkInv
<1>1. ASSUME NEW c \in Chunks, TakeChunk(c) PROVE ChunkInv'
  <2>1. /\ st' \in [Chunks -> {"queued", "start", "write", "ok", "err"}]
        /\ st'[c] = "start" /\ st[c] = "queued"
        /\ \A d \in Chunks : d # c => st'[d] = st[d]
        /\ UNCHANGED <<confRows, format, fileIndex, result, pos, broken, unclosed, files>>
    BY <1>0, <1>1 DEF TakeChunk, Types
  <2> QED BY <1>0, <2>1, QuietStep DEF Types
<1>2. ASSUME NEW c \in Chunks, StartFails(c) PROVE ChunkInv'
  <2>1. /\ st' \in [Chunks -> {"queued", "start", "write", "ok", "err"}]
        /\ st'[c] \in {"start", "err"} /\ st[c] = "start"
        /\ \A d \in Chunks : d # c => st'[d] = st[d]
        /\ UNCHANGED <<confRows, format, fileIndex, result, pos, broken, unclosed, files>>
    BY <1>0, <1>2, Zenon DEF StartFails, Failed, Types
  <2> QED BY <1>0, <2>1, QuietStep DEF Types
<1>3. CASE AdjustRows
  BY <1>0, <1>3, QuietStep DEF AdjustRows, Types
<1>4. CASE RestoreRows
  BY <1>0, <1>4, QuietStep, Zenon DEF RestoreRows, Types
<1>5. CASE UNCHANGED vars
  <2>1. UNCHANGED <<st, confRows, format, fileIndex, result, pos, broken, unclosed, files>>
    BY <1>5 DEF vars
  <2> QED BY <1>0, <2>1, QuietStep DEF Types
<1> QED BY <1>1, <1>2, <1>3, <1>4, <1>5, StartStep, WriteFileStep, NothingLeftStep,
           WriteFileFailsStep DEF Next, WriteTableData, Terminated

LEMMA ChunkInvHolds == Spec => []ChunkInv
  BY ChunkInvInit, ChunkInvStep, PTL DEF Spec

-----------------------------------------------------------------------------
(* What holds if the attempts of a chunk have the same result and the same names: *)
(* the files are those of one attempt.                                            *)

Exact == Repeatable /\ NamesSettled

\* the first m rows of the k-th file
RowsAt(c, k, m) == [j \in 1 .. m |-> Row(c, Offset(k) + j)]

LEMMA LenRows ==
  ASSUME NEW c, NEW k, NEW m \in Nat
  PROVE  /\ Len(RowsAt(c, k, m)) = m
         /\ \A j \in 1 .. m : RowsAt(c, k, m)[j] = Row(c, Offset(k) + j)
  BY DEF RowsAt

LEMMA RowsDiffer ==
  ASSUME Types, NEW c \in Chunks, NEW i \in 1 .. Size(c), NEW j \in 1 .. Size(c),
         Row(c, i) = Row(c, j)
  PROVE  i = j
<1>1. result[c] \in Results
  BY DEF Types
<1> QED BY <1>1 DEF Row, Size

(* The format of the files of a chunk: a concatenated chunk writes in one attempt *)
(* only, because its iterator is never renewed; the attempts of any other chunk   *)
(* use the same format.                                                           *)
Format(c) == IF Concat THEN format[c] ELSE NewOutputFileNamer(RowsSet)

(* File n is the k-th one of chunk c and holds its rows, up to some point. *)
FileOf(n, c, k) ==
  /\ n = Index(Format(c), c, k)
  /\ FileLimit = 0 => k = 0
  /\ \E m \in Nat : /\ FileLimit > 0 => m <= FileLimit
                    /\ m > 0 => Offset(k) + m <= Size(c)
                    /\ files[n] = RowsAt(c, k, m)

FilesInv ==
  /\ \A c \in Chunks : st[c] \in {"write", "ok"} => format[c] = Format(c)
  /\ Concat /\ Intact /\ st[0] \in {"queued", "start"} => DOMAIN files = {}
  /\ Intact => \A n \in DOMAIN files : \E c \in Chunks, k \in Nat : FileOf(n, c, k)

LEMMA ResultStable ==
  ASSUME Types, Repeatable, [Next]_vars
  PROVE  result' = result
<1>1. ASSUME NEW c \in Chunks, Start(c) PROVE result' = result
  <2>1. CASE Concat
    BY <1>1, <2>1, Zenon DEF Start
  <2>2. CASE ~Concat
    <3>1. result' = [result EXCEPT ![c] = result[c]]
      BY <1>1, <2>2 DEF Start
    <3> QED BY <3>1 DEF Types
  <2> QED BY <2>1, <2>2
<1> QED BY <1>1 DEF Next, WriteTableData, TakeChunk, StartFails, WriteFile, NothingLeft,
           WriteFileFails, AdjustRows, RestoreRows, Terminated, vars

LEMMA FileStable ==
  ASSUME conf' = conf, result' = result, NEW n, files'[n] = files[n], NEW c, NEW k,
         Format(c)' = Format(c), FileOf(n, c, k)
  PROVE  FileOf(n, c, k)'
<1>1. /\ FileLimit' = FileLimit /\ Offset(k)' = Offset(k) /\ Size(c)' = Size(c)
      /\ \A m : RowsAt(c, k, m)' = RowsAt(c, k, m)
  BY DEF FileLimit, RowsAt, Offset, Row, Size
<1>2. Index(Format(c), c, k)' = Index(Format(c), c, k)
  BY DEF Index
<1> QED BY <1>1, <1>2, Zenon DEF FileOf

LEMMA FormatStable ==
  ASSUME [Next]_vars, NEW c, Concat => format'[c] = format[c]
  PROVE  Format(c)' = Format(c)
  BY ConfigStable DEF Format

(* Writing a file keeps the names and contents of all files in order. *)
LEMMA StoreKeepsFiles ==
  ASSUME Types, FilesInv, Intact, NEW c \in Chunks, PosInv(c), st[c] = "write",
         ~broken[c], NEW n \in 0 .. Portion(c), [Next]_vars,
         files' = Store(Name(c), RowsFrom(c, n)), UNCHANGED <<format, result>>
  PROVE  \A x \in DOMAIN files' : \E d \in Chunks, k \in Nat : FileOf(x, d, k)'
<1> SUFFICES ASSUME NEW x \in DOMAIN files'
             PROVE  \E d \in Chunks, k \in Nat : FileOf(x, d, k)'
  OBVIOUS
<1>1. DOMAIN files' = DOMAIN files \cup {Name(c)}
  BY DEF Store
<1>2. conf' = conf /\ \A d : Format(d)' = Format(d)
  BY ConfStable, FormatStable, Zenon
<1>3. CASE x = Name(c)
  <2>1. /\ Portion(c) \in Nat /\ fileIndex[c] \in Nat
        /\ FileLimit > 0 => Portion(c) <= FileLimit
        /\ FileLimit = 0 => fileIndex[c] = 0
        /\ Portion(c) > 0 => pos[c] = Offset(fileIndex[c])
        /\ pos[c] + Portion(c) \in 0 .. Size(c)
        /\ FileLimit \in Nat /\ Size(c) \in Nat /\ pos[c] \in Nat
    BY PortionFits, ChunkFields
  <2>2. /\ n \in Nat /\ (FileLimit > 0 => n <= FileLimit)
        /\ n > 0 => pos[c] = Offset(fileIndex[c]) /\ Offset(fileIndex[c]) + n <= Size(c)
    BY <2>1
  <2>3. RowsFrom(c, n) = RowsAt(c, fileIndex[c], n)
    <3>1. CASE n = 0
      <4>1. \A i \in 1 .. n : FALSE
        BY <3>1
      <4> QED BY <4>1, Zenon DEF RowsFrom, RowsAt
    <3>2. CASE n > 0
      BY <2>2, <3>2, Zenon DEF RowsFrom, RowsAt
    <3> QED BY <2>2, <3>1, <3>2
  <2>4. files'[x] = RowsAt(c, fileIndex[c], n)
    BY <1>1, <1>3, <2>3, Zenon DEF Store
  <2>5. x = Index(Format(c), c, fileIndex[c])
    BY <1>3, Zenon DEF Name, FilesInv
  <2>6. /\ FileLimit' = FileLimit /\ Size(c)' = Size(c)
        /\ \A k : Offset(k)' = Offset(k) /\ \A m : RowsAt(c, k, m)' = RowsAt(c, k, m)
    BY <1>2, Zenon DEF FileLimit, Size, Offset, RowsAt, Row
  <2>7. PICK k \in Nat : k = fileIndex[c]
    BY <2>1, Zenon
  <2>8. Index(Format(c), c, k)' = Index(Format(c), c, k)
    BY <1>2, Zenon DEF Index
  <2>9. FileOf(x, c, k)'
    BY <2>1, <2>2, <2>4, <2>5, <2>6, <2>7, <2>8, Zenon DEF FileOf
  <2> QED BY <2>9
<1>4. CASE x # Name(c)
  <2>1. x \in DOMAIN files /\ files'[x] = files[x]
    BY <1>1, <1>4, Zenon DEF Store
  <2>2. PICK d \in Chunks, k \in Nat : FileOf(x, d, k)
    BY <2>1, Zenon DEF FilesInv
  <2>3. FileOf(x, d, k)'
    BY <1>2, <2>1, <2>2, FileStable, Zenon
  <2> QED BY <2>2, <2>3, Zenon
<1> QED BY <1>3, <1>4

(* A step that writes nothing and starts no attempt. *)
LEMMA FilesQuiet ==
  ASSUME Types, FilesInv, [Next]_vars, UNCHANGED <<format, result, broken, files>>,
         \A c \in Chunks : /\ st'[c] \in {"write", "ok"} => st[c] \in {"write", "ok"}
                           /\ st'[c] \in {"queued", "start"} => st[c] \in {"queued", "start"}
  PROVE  FilesInv'
<1>1. conf' = conf /\ Concat' = Concat /\ Chunks' = Chunks
  BY ConfigStable, Zenon
<1>2. \A c : Format(c)' = Format(c)
  BY FormatStable, Zenon
<1>3. \A n, c, k : FileOf(n, c, k) => FileOf(n, c, k)'
  BY <1>1, <1>2, FileStable, Zenon
<1>4. Concat => 0 \in Chunks
  BY ConfigFields DEF Types
<1>5. \A c \in Chunks : st'[c] \in {"write", "ok"} => format'[c] = Format(c)'
  BY <1>2, Zenon DEF FilesInv
<1>6. Concat /\ Intact /\ st'[0] \in {"queued", "start"} => DOMAIN files = {}
  BY <1>4, Zenon DEF FilesInv
<1>7. Intact => \A n \in DOMAIN files : \E c \in Chunks, k \in Nat : FileOf(n, c, k)'
  BY <1>3, Zenon DEF FilesInv
<1>8. Intact' = Intact
  BY <1>1 DEF Intact
<1> QED BY <1>1, <1>5, <1>6, <1>7, <1>8, Zenon DEF FilesInv

LEMMA FilesStart ==
  ASSUME Exact, ChunkInv, FilesInv, [Next]_vars, NEW c \in Chunks, Start(c)
  PROVE  FilesInv'
<1>0. /\ conf' = conf /\ Splits' = Splits /\ Concat' = Concat /\ Chunks' = Chunks
      /\ FileLimit' = FileLimit
      /\ \A b : NewOutputFileNamer(b)' = NewOutputFileNamer(b)
  BY ConfigStable
<1>1. /\ Types /\ Splits \in BOOLEAN /\ Concat \in BOOLEAN /\ FileLimit \in Nat
      /\ Concat => Chunks = {0} /\ c = 0
  BY ConfigFields DEF ChunkInv, Types
<1>2. result' = result
  BY <1>1, ResultStable DEF Exact
<1>3. /\ st[c] = "start" /\ st'[c] = "write" /\ files' = files
      /\ format'[c] = NewOutputFileNamer(confRows)
      /\ Concat => broken' = broken
      /\ \A d \in Chunks \ {c} : st'[d] = st[d] /\ format'[d] = format[d]
  BY <1>1 DEF Start, Types
<1>4. ~Concat => NewOutputFileNamer(confRows) = NewOutputFileNamer(RowsSet)
  BY <1>1 DEF Exact, NamesSettled, ChunkInv, FormatInv, NewOutputFileNamer
<1>5. CASE Concat
  <2>1. Intact' => DOMAIN files = {}
    BY <1>0, <1>1, <1>3, <1>5, Zenon DEF FilesInv, Intact
  <2>2. format'[c] = Format(c)' /\ Chunks = {c} /\ st'[0] = "write"
    BY <1>0, <1>1, <1>3, <1>5, Zenon DEF Format
  <2> QED BY <1>0, <1>3, <2>1, <2>2, Zenon DEF FilesInv
<1>6. CASE ~Concat
  <2>1. \A d : Format(d)' = Format(d)
    BY <1>6, FormatStable, Zenon
  <2>2. \A n, d, k : FileOf(n, d, k) => FileOf(n, d, k)'
    BY <1>0, <1>2, <1>3, <2>1, FileStable, Zenon
  <2>3. format'[c] = Format(c)
    BY <1>3, <1>4, <1>6, Zenon DEF Format
  <2>4. \A d \in Chunks : st'[d] \in {"write", "ok"} => format'[d] = Format(d)'
    BY <1>3, <2>1, <2>3, Zenon DEF FilesInv
  <2>5. \A n \in DOMAIN files : \E d \in Chunks, k \in Nat : FileOf(n, d, k)'
    BY <1>6, <2>2, Zenon DEF FilesInv, Intact
  <2> QED BY <1>0, <1>3, <1>6, <2>4, <2>5, Zenon DEF FilesInv
<1> QED BY <1>1, <1>5, <1>6

(* A round that writes to a file. *)
LEMMA FilesWrite ==
  ASSUME Exact, ChunkInv, FilesInv, [Next]_vars, NEW c \in Chunks,
         WriteFile(c) \/ WriteFileFails(c), ~broken[c],
         NEW n \in 0 .. Portion(c), files' = Store(Name(c), RowsFrom(c, n))
  PROVE  FilesInv'
<1>0. conf' = conf /\ Concat' = Concat /\ Chunks' = Chunks
  BY ConfigStable
<1>1. Types /\ PosInv(c) /\ (Concat => Chunks = {0} /\ c = 0)
  BY ChunkFields DEF ChunkInv, ProgressInv
<1>2. /\ st[c] = "write" /\ format' = format /\ result' = result
      /\ \A d \in Chunks \ {c} : st'[d] = st[d] /\ broken'[d] = broken[d]
      /\ st'[c] \in {"queued", "start"} => broken'[c]
  BY <1>1, SMTT(30) DEF WriteFile, WriteFileFails, Failed, Types
<1>3. Intact
  BY <1>1 DEF Intact
<1>4. \A x \in DOMAIN files' : \E d \in Chunks, k \in Nat : FileOf(x, d, k)'
  BY <1>1, <1>2, <1>3, StoreKeepsFiles, Zenon
<1>5. \A d : Format(d)' = Format(d)
  BY <1>2, FormatStable, Zenon
<1>6. \A d \in Chunks : st'[d] \in {"write", "ok"} => format'[d] = Format(d)'
  BY <1>2, <1>5, Zenon DEF FilesInv
<1>7. ~(Concat /\ Intact' /\ st'[0] \in {"queued", "start"})
  BY <1>0, <1>1, <1>2, Zenon DEF Intact
<1> QED BY <1>0, <1>4, <1>6, <1>7, Zenon DEF FilesInv

LEMMA FilesInvStep == Exact /\ ChunkInv /\ FilesInv /\ [Next]_vars => FilesInv'
<1> SUFFICES ASSUME Exact, ChunkInv, FilesInv, [Next]_vars PROVE FilesInv'
  OBVIOUS
<1>0. Types /\ result' = result
  BY ResultStable DEF ChunkInv, Exact
<1>1. ASSUME NEW c \in Chunks, TakeChunk(c) \/ StartFails(c) \/ NothingLeft(c)
      PROVE  FilesInv'
  <2>1. /\ UNCHANGED <<format, result, broken, files>>
        /\ \A d \in Chunks : /\ st'[d] \in {"write", "ok"} => st[d] \in {"write", "ok"}
                             /\ st'[d] \in {"queued", "start"} => st[d] \in {"queued", "start"}
    BY <1>0, <1>1 DEF TakeChunk, StartFails, NothingLeft, Failed, Types
  <2> QED BY <1>0, <2>1, FilesQuiet, Zenon
<1>2. ASSUME NEW c \in Chunks, WriteFile(c) PROVE FilesInv'
  <2>1. ~broken[c] /\ st[c] = "write" /\ PosInv(c)
    BY <1>2 DEF WriteFile, ChunkInv, ProgressInv
  <2>2. Portion(c) \in Nat
    BY <1>0, <2>1, PortionFits, Zenon
  <2>3. Portion(c) \in 0 .. Portion(c) /\ 0 .. Portion(c) - 1 \subseteq 0 .. Portion(c)
    BY <2>2
  <2>4. PICK n \in 0 .. Portion(c) : files' = Store(Name(c), RowsFrom(c, n))
    BY <1>2, <2>3, Zenon DEF WriteFile
  <2> QED BY <1>2, <2>1, <2>4, FilesWrite, Zenon
<1>3. ASSUME NEW c \in Chunks, WriteFileFails(c) PROVE FilesInv'
  <2>1. CASE ~broken[c] /\ \E n \in 0 .. Portion(c) : files' = Store(Name(c), RowsFrom(c, n))
    BY <1>3, <2>1, FilesWrite, Zenon
  <2>2. CASE files' = files
    <3>1. /\ conf' = conf /\ Concat' = Concat /\ Chunks' = Chunks
          /\ Concat => Chunks = {0} /\ c = 0
      BY <1>0, ConfigStable, ChunkFields
    <3>2. /\ format' = format /\ broken'[c] /\ st[c] = "write" /\ st'[c] \notin {"write", "ok"}
          /\ \A d \in Chunks \ {c} : st'[d] = st[d]
      BY <1>0, <1>3 DEF WriteFileFails, Failed, Types
    <3>3. \A d : Format(d)' = Format(d)
      BY <3>2, FormatStable, Zenon
    <3>4. \A n, d, k : FileOf(n, d, k) => FileOf(n, d, k)'
      BY <1>0, <2>2, <3>1, <3>3, FileStable, Zenon
    <3>5. Intact' => Intact /\ ~Concat
      BY <3>1, <3>2 DEF Intact
    <3>6. \A d \in Chunks : st'[d] \in {"write", "ok"} => format'[d] = Format(d)'
      BY <3>2, <3>3, Zenon DEF FilesInv
    <3>7. Intact' => \A n \in DOMAIN files : \E d \in Chunks, k \in Nat : FileOf(n, d, k)'
      BY <3>4, <3>5, Zenon DEF FilesInv
    <3> QED BY <2>2, <3>1, <3>5, <3>6, <3>7, Zenon DEF FilesInv
  <2> QED BY <1>3, <2>1, <2>2, Zenon DEF WriteFileFails
<1>4. CASE AdjustRows \/ RestoreRows \/ UNCHANGED vars
  <2>1. UNCHANGED <<format, result, broken, files, st>>
    BY <1>4 DEF AdjustRows, RestoreRows, vars
  <2> QED BY <1>0, <2>1, FilesQuiet, Zenon
<1> QED BY <1>1, <1>2, <1>3, <1>4, FilesStart, Zenon DEF Next, WriteTableData, Terminated

LEMMA FilesInvHolds == Spec => [](Exact => FilesInv)
<1>1. Init => (Exact => FilesInv)
  <2> SUFFICES ASSUME Init PROVE FilesInv
    OBVIOUS
  <2>1. DOMAIN files = {} /\ \A c \in Chunks : st[c] = "queued"
    BY DEF Init
  <2> QED BY <2>1 DEF FilesInv
<1>2. ChunkInv /\ (Exact => FilesInv) /\ [Next]_vars => (Exact => FilesInv)'
  <2>1. [Next]_vars => (Exact' <=> Exact)
    BY ConfigStable, Zenon DEF Exact
  <2> QED BY <2>1, FilesInvStep
<1> QED BY <1>1, <1>2, ChunkInvHolds, PTL DEF Spec

-----------------------------------------------------------------------------
(* A place of the files and what is there. *)
LEMMA PlaceOf ==
  ASSUME NEW p
  PROVE  p \in Places <=> /\ p = <<p[1], p[2]>> /\ p[1] \in DOMAIN files
                          /\ p[2] \in 1 .. Len(files[p[1]])
<1>1. ASSUME p \in Places
      PROVE  p = <<p[1], p[2]>> /\ p[1] \in DOMAIN files /\ p[2] \in 1 .. Len(files[p[1]])
  <2>1. PICK n \in DOMAIN files : p \in {n} \X (1 .. Len(files[n]))
    BY <1>1 DEF Places
  <2> QED BY <2>1
<1>2. ASSUME p = <<p[1], p[2]>>, p[1] \in DOMAIN files, p[2] \in 1 .. Len(files[p[1]])
      PROVE  p \in Places
  <2>1. p \in {p[1]} \X (1 .. Len(files[p[1]]))
    BY <1>2
  <2> QED BY <1>2, <2>1 DEF Places
<1> QED BY <1>1, <1>2

(* A row of a chunk tells the file and the position in it. *)
LEMMA RowAtPlace ==
  ASSUME ChunkInv, FilesInv, NEW c \in Chunks, st[c] = "ok",
         NEW p \in Places, At(p)[1] = c
  PROVE  \E k \in Nat : /\ p[1] = Index(Format(c), c, k)
                        /\ p[2] \in Nat /\ p[2] > 0
                        /\ FileLimit = 0 => k = 0
                        /\ FileLimit > 0 => p[2] <= FileLimit
                        /\ Offset(k) + p[2] \in 1 .. Size(c)
                        /\ At(p) = Row(c, Offset(k) + p[2])
<1>1. Types /\ PosInv(c) /\ FileLimit \in Nat /\ Size(c) \in Nat /\ (Concat => c = 0)
  BY ChunkFields DEF ChunkInv, ProgressInv
<1>2. Intact
  BY <1>1 DEF PosInv, Intact
<1> DEFINE x == p[1]
           y == p[2]
<1>3. x \in DOMAIN files /\ y \in 1 .. Len(files[x]) /\ files[x][y][1] = c /\ At(p) = files[x][y]
  BY PlaceOf DEF At
<1> HIDE DEF x, y
<1>4. PICK d \in Chunks, k \in Nat : FileOf(x, d, k)
  BY <1>2, <1>3, Zenon DEF FilesInv
<1>5. PICK m \in Nat : /\ FileLimit > 0 => m <= FileLimit
                       /\ m > 0 => Offset(k) + m <= Size(d)
                       /\ files[x] = RowsAt(d, k, m)
  BY <1>4, Zenon DEF FileOf
<1>6. y \in 1 .. m /\ files[x][y] = Row(d, Offset(k) + y)
  <2>1. /\ Len(RowsAt(d, k, m)) = m
        /\ \A z \in 1 .. m : RowsAt(d, k, m)[z] = Row(d, Offset(k) + z)
    BY LenRows
  <2> QED BY <1>3, <1>5, <2>1, Zenon
<1>7. d = c
  BY <1>3, <1>6 DEF Row
<1>8. Offset(k) \in Nat
  BY <1>1, OffsetNat, Zenon
<1>9. /\ y \in Nat /\ y > 0 /\ (FileLimit > 0 => y <= FileLimit)
      /\ Offset(k) + y \in 1 .. Size(c)
  BY <1>1, <1>5, <1>6, <1>7, <1>8
<1>10. x = Index(Format(c), c, k) /\ (FileLimit = 0 => k = 0)
  BY <1>4, <1>7, Zenon DEF FileOf
<1> QED BY <1>3, <1>6, <1>7, <1>9, <1>10, Zenon DEF x, y

LEMMA OnePlace ==
  ASSUME ChunkInv, FilesInv, NEW c \in Chunks, st[c] = "ok",
         NEW p \in Places, NEW q \in Places, At(p) = At(q), At(p)[1] = c
  PROVE  p = q
<1>1. Types /\ FileLimit \in Nat /\ Size(c) \in Nat
  BY ChunkFields DEF ChunkInv
<1>2. PICK k \in Nat : /\ p[1] = Index(Format(c), c, k)
                       /\ p[2] \in Nat /\ p[2] > 0
                       /\ FileLimit = 0 => k = 0
                       /\ FileLimit > 0 => p[2] <= FileLimit
                       /\ Offset(k) + p[2] \in 1 .. Size(c)
                       /\ At(p) = Row(c, Offset(k) + p[2])
  BY RowAtPlace, Zenon
<1>3. PICK h \in Nat : /\ q[1] = Index(Format(c), c, h)
                       /\ q[2] \in Nat /\ q[2] > 0
                       /\ FileLimit = 0 => h = 0
                       /\ FileLimit > 0 => q[2] <= FileLimit
                       /\ Offset(h) + q[2] \in 1 .. Size(c)
                       /\ At(q) = Row(c, Offset(h) + q[2])
  BY RowAtPlace, Zenon
<1>4. Offset(k) + p[2] = Offset(h) + q[2]
  BY <1>1, <1>2, <1>3, RowsDiffer, Zenon
<1>5. Offset(k) \in Nat /\ Offset(h) \in Nat
  BY <1>1, OffsetNat, Zenon
<1>6. k = h
  <2>1. CASE FileLimit = 0
    BY <1>2, <1>3, <2>1
  <2>2. CASE FileLimit > 0
    <3> DEFINE a == p[2]
               b == q[2]
    <3>1. /\ a \in Nat /\ a > 0 /\ a <= FileLimit
          /\ b \in Nat /\ b > 0 /\ b <= FileLimit
          /\ Offset(k) + a = Offset(h) + b
      BY <1>2, <1>3, <1>4, <2>2, Zenon
    <3> HIDE DEF a, b
    <3>2. /\ k < h => Offset(k) + FileLimit <= Offset(h)
          /\ h < k => Offset(h) + FileLimit <= Offset(k)
      BY <1>1, OffsetMonotonic, Zenon
    <3>3. ~(k < h) /\ ~(h < k)
      BY <1>1, <1>5, <3>1, <3>2
    <3> QED BY <3>3
  <2> QED BY <1>1, <2>1, <2>2
<1>7. p[1] = q[1] /\ p[2] = q[2]
  <2>1. p[1] = q[1]
    BY <1>2, <1>3, <1>6, Zenon
  <2>2. \A a, b, x \in Nat : x + a = x + b => a = b
    OBVIOUS
  <2>3. p[2] = q[2]
    BY <1>2, <1>3, <1>4, <1>5, <1>6, <2>2, Zenon
  <2> QED BY <2>1, <2>3, Zenon
<1>8. p = <<p[1], p[2]>> /\ q = <<q[1], q[2]>>
  BY PlaceOf, Zenon
<1> QED BY <1>7, <1>8, Zenon

LEMMA InvImplies == ChunkInv /\ (Exact => FilesInv) => RowsDumpedOnce
<1> SUFFICES ASSUME ChunkInv, Exact => FilesInv, NEW c \in Chunks, st[c] = "ok", ~unclosed[c]
             PROVE  /\ \A i \in 1 .. Size(c) : \E p \in Places : At(p) = Row(c, i)
                    /\ Exact =>
                         /\ \A p, q \in Places : At(p) = At(q) /\ At(p)[1] = c => p = q
                         /\ \A p \in Places : At(p)[1] = c =>
                              \E i \in 1 .. Size(c) : At(p) = Row(c, i)
  BY Zenon DEF RowsDumpedOnce, Exact
<1>1. ASSUME NEW i \in 1 .. Size(c) PROVE \E p \in Places : At(p) = Row(c, i)
  <2>1. Written(c, i)
    BY DEF ChunkInv, ProgressInv, PosInv, RowsInv
  <2>2. PICK n : InFile(n, c, i)
    BY <2>1, Zenon DEF Written
  <2>3. PICK j \in 1 .. Len(files[n]) : files[n][j] = Row(c, i)
    BY <2>2, Zenon DEF InFile
  <2>4. n \in DOMAIN files
    BY <2>2, Zenon DEF InFile
  <2>5. <<n, j>> \in Places
    BY <2>3, <2>4 DEF Places
  <2>6. At(<<n, j>>) = Row(c, i)
    BY <2>3 DEF At
  <2> QED BY <2>5, <2>6, Zenon
<1>2. ASSUME Exact, NEW p \in Places, NEW q \in Places, At(p) = At(q), At(p)[1] = c
      PROVE  p = q
  BY <1>2, OnePlace, Zenon
<1>3. ASSUME Exact, NEW p \in Places, At(p)[1] = c
      PROVE  \E i \in 1 .. Size(c) : At(p) = Row(c, i)
  BY <1>3, RowAtPlace, ZenonT(30)
<1> QED BY <1>1, <1>2, <1>3, Zenon

(* Once WriteTableData has returned nil and the storage has closed the attempt's      *)
(* files, every row the attempt's query returned is in the files, whatever earlier    *)
(* attempts and the other writers do (writer.go:155-236): for any number of chunks    *)
(* and attempts, any results of the queries, any limit on the size of files, and also *)
(* while buildConcatTask changes conf.Rows.  If all queries of the chunk have the     *)
(* same result and the names of its files do not depend on when an attempt looks at   *)
(* conf.Rows, these rows have one place each and the files no other row of the chunk. *)
THEOREM RowsAreDumpedOnce == Spec => []RowsDumpedOnce
  BY ChunkInvHolds, FilesInvHolds, InvImplies, PTL

-----------------------------------------------------------------------------
(* What a finished chunk has written is final.                             *)

FilesWith(c) ==
  {n \in DOMAIN files : \E j \in 1 .. Len(files[n]) : files[n][j][1] = c}

(* (action property) No step reopens a chunk whose WriteTableData has returned nil, *)
(* changes a file with rows of it, or puts such a row into another file.            *)
FinishedIsFinal ==
  \A c \in Chunks : st[c] = "ok" =>
    /\ st'[c] = "ok"
    /\ FilesWith(c)' = FilesWith(c)
    /\ \A n \in FilesWith(c) : files'[n] = files[n]

\* every row of s is of chunk c
RowsOf(s, c) == \A j \in 1 .. Len(s) : s[j][1] = c

(* The files of a table with several chunks, the remains of failed attempts included, *)
(* have rows of the chunk in their name.                                              *)
OwnInv ==
  RowsSet => \A n \in DOMAIN files :
    \E c \in Chunks, k \in Nat : n = Index(TableFormat, c, k) /\ RowsOf(files[n], c)

LEMMA ChunkFrom ==
  ASSUME NEW c, NEW m \in Nat
  PROVE  RowsOf(RowsFrom(c, m), c)
  BY DEF RowsOf, RowsFrom, Row

(* A writer's step on the storage. *)
LEMMA WriterStores ==
  ASSUME ChunkInv, NEW d \in Chunks, WriteFile(d) \/ WriteFileFails(d)
  PROVE  \/ files' = files
         \/ \E m \in Nat : files' = Store(Name(d), RowsFrom(d, m))
<1>1. Types /\ PosInv(d) /\ st[d] = "write"
  BY DEF ChunkInv, ProgressInv, WriteFile, WriteFileFails
<1>2. CASE broken[d]
  BY <1>2 DEF WriteFile, WriteFileFails
<1>3. CASE ~broken[d]
  <2>1. Portion(d) \in Nat
    BY <1>1, <1>3, PortionFits, Zenon
  <2>2. 0 .. Portion(d) \subseteq Nat /\ 0 .. Portion(d) - 1 \subseteq Nat
    BY <2>1
  <2> QED BY <2>1, <2>2, Zenon DEF WriteFile, WriteFileFails
<1> QED BY <1>2, <1>3

LEMMA OwnInvStep == ChunkInv /\ OwnInv /\ [Next]_vars => OwnInv'
<1> SUFFICES ASSUME ChunkInv, OwnInv, [Next]_vars, RowsSet
             PROVE  \A n \in DOMAIN files' :
                      \E c \in Chunks, k \in Nat :
                        n = Index(TableFormat, c, k)' /\ RowsOf(files'[n], c)
  BY ConfigStable, ZenonT(30) DEF OwnInv, RowsOf
<1>1. \A c, k : Index(TableFormat, c, k)' = Index(TableFormat, c, k)
  BY ConfigStable, Zenon DEF Index
<1>2. CASE files' = files
  BY <1>1, <1>2, Zenon DEF OwnInv
<1>3. ASSUME NEW d \in Chunks, WriteFile(d) \/ WriteFileFails(d), NEW m \in Nat,
             files' = Store(Name(d), RowsFrom(d, m)), NEW n \in DOMAIN files'
      PROVE  \E c \in Chunks, k \in Nat :
               n = Index(TableFormat, c, k)' /\ RowsOf(files'[n], c)
  <2>1. /\ DOMAIN files' = DOMAIN files \cup {Name(d)}
        /\ files'[Name(d)] = RowsFrom(d, m)
        /\ \A x \in DOMAIN files : x # Name(d) => files'[x] = files[x]
    BY <1>3 DEF Store
  <2>2. CASE n = Name(d)
    <3>1. st[d] = "write" /\ fileIndex[d] \in Nat
      BY <1>3 DEF WriteFile, WriteFileFails, ChunkInv, Types
    <3>2. Name(d) = Index(TableFormat, d, fileIndex[d])
      BY <3>1, Zenon DEF Name, ChunkInv, FormatInv
    <3>3. RowsOf(files'[n], d)
      <4>1. RowsOf(RowsFrom(d, m), d)
        BY ChunkFrom
      <4> QED BY <2>1, <2>2, <4>1, Zenon
    <3> QED BY <1>1, <2>2, <3>1, <3>2, <3>3, Zenon
  <2>3. CASE n # Name(d)
    <3>1. n \in DOMAIN files /\ files'[n] = files[n]
      BY <1>3, <2>1, <2>3
    <3>2. PICK c \in Chunks, k \in Nat : n = Index(TableFormat, c, k) /\ RowsOf(files[n], c)
      BY <3>1, Zenon DEF OwnInv
    <3> QED BY <1>1, <3>1, <3>2, Zenon
  <2> QED BY <2>2, <2>3
<1>4. ASSUME NEW d \in Chunks,
             TakeChunk(d) \/ Start(d) \/ StartFails(d) \/ NothingLeft(d)
      PROVE  files' = files
  BY <1>4, Zenon DEF TakeChunk, Start, StartFails, NothingLeft
<1>5. ASSUME AdjustRows \/ RestoreRows \/ UNCHANGED vars PROVE files' = files
  BY <1>5 DEF AdjustRows, RestoreRows, vars
<1> QED BY <1>2, <1>3, <1>4, <1>5, WriterStores, Zenon DEF Next, WriteTableData, Terminated

(* A writer's file has rows of its own chunk only, and so had the one it replaces. *)
LEMMA StoreKeepsOthers ==
  ASSUME ChunkInv, OwnInv, NEW d \in Chunks, st[d] = "write", NEW m \in Nat,
         files' = Store(Name(d), RowsFrom(d, m)), NEW c \in Chunks, c # d
  PROVE  FilesWith(c)' = FilesWith(c) /\ \A n \in FilesWith(c) : files'[n] = files[n]
<1>1. /\ DOMAIN files' = DOMAIN files \cup {Name(d)}
      /\ files'[Name(d)] = RowsFrom(d, m)
      /\ \A n \in DOMAIN files : n # Name(d) => files'[n] = files[n]
  BY DEF Store
<1>2. Name(d) \notin FilesWith(c)'
  <2>1. RowsOf(files'[Name(d)], d)
    BY <1>1, ChunkFrom, Zenon
  <2> QED BY <2>1, Zenon DEF RowsOf, FilesWith
<1>3. Name(d) \notin FilesWith(c)
  <2>1. RowsSet
    BY ConfigFields DEF ChunkInv, Types
  <2>2. Name(d) = Index(TableFormat, d, fileIndex[d])
    BY <2>1 DEF Name, ChunkInv, FormatInv
  <2>3. ASSUME NEW e \in Chunks, NEW k \in Nat, Name(d) = Index(TableFormat, e, k) PROVE e = d
    BY <2>2, <2>3, NamesApart, Zenon
  <2>4. Name(d) \in DOMAIN files => RowsOf(files[Name(d)], d)
    BY <2>1, <2>3, Zenon DEF OwnInv
  <2> QED BY <2>4, Zenon DEF RowsOf, FilesWith
<1>4. ASSUME NEW n \in DOMAIN files, n # Name(d)
      PROVE  n \in FilesWith(c)' <=> n \in FilesWith(c)
  BY <1>1, <1>4, Zenon DEF FilesWith
<1>5. /\ FilesWith(c) \subseteq DOMAIN files \ {Name(d)}
      /\ FilesWith(c)' \subseteq DOMAIN files \ {Name(d)}
  <2>1. FilesWith(c) \subseteq DOMAIN files /\ FilesWith(c)' \subseteq DOMAIN files'
    BY Zenon DEF FilesWith
  <2> QED BY <1>1, <1>2, <1>3, <2>1, Zenon
<1> QED BY <1>1, <1>4, <1>5, Zenon

LEMMA FinishedStep == ChunkInv /\ OwnInv /\ [Next]_vars => FinishedIsFinal
<1> SUFFICES ASSUME ChunkInv, OwnInv, [Next]_vars, NEW c \in Chunks, st[c] = "ok"
             PROVE  /\ st'[c] = "ok" /\ FilesWith(c)' = FilesWith(c)
                    /\ \A n \in FilesWith(c) : files'[n] = files[n]
  BY Zenon DEF FinishedIsFinal
<1>0. Types
  BY DEF ChunkInv
<1>1. ASSUME files' = files, st'[c] = "ok"
      PROVE  /\ st'[c] = "ok" /\ FilesWith(c)' = FilesWith(c)
             /\ \A n \in FilesWith(c) : files'[n] = files[n]
  BY <1>1 DEF FilesWith
<1>2. ASSUME NEW d \in Chunks, TakeChunk(d) \/ Start(d) \/ StartFails(d) \/ NothingLeft(d)
      PROVE  files' = files /\ st'[c] = "ok"
  BY <1>0, <1>2, Zenon DEF TakeChunk, Start, StartFails, NothingLeft, Failed, Types
<1>3. ASSUME NEW d \in Chunks, WriteFile(d) \/ WriteFileFails(d)
      PROVE  /\ st'[c] = "ok" /\ FilesWith(c)' = FilesWith(c)
             /\ \A n \in FilesWith(c) : files'[n] = files[n]
  <2>1. st[d] = "write" /\ c # d
    BY <1>3 DEF WriteFile, WriteFileFails
  <2>2. st'[c] = "ok"
    BY <1>0, <1>3, <2>1, Zenon DEF WriteFile, WriteFileFails, Failed, Types
  <2>3. CASE files' = files
    BY <1>1, <2>2, <2>3, Zenon
  <2>4. CASE \E m \in Nat : files' = Store(Name(d), RowsFrom(d, m))
    BY <2>1, <2>2, <2>4, StoreKeepsOthers, Zenon
  <2> QED BY <1>3, <2>3, <2>4, WriterStores, Zenon
<1>4. CASE AdjustRows \/ RestoreRows \/ UNCHANGED vars
  BY <1>1, <1>4 DEF AdjustRows, RestoreRows, vars
<1> QED BY <1>1, <1>2, <1>3, <1>4, Zenon DEF Next, WriteTableData, Terminated

(* Once WriteTableData has returned nil, neither a retry of another chunk nor a writer *)
(* that is behind touches what it has written, in any configuration: the names of the  *)
(* files of different chunks differ (newOutputFileNamer, writer.go:165-190; a file     *)
(* replaces one of the same name).                                                     *)
THEOREM FinishedChunksAreFinal == Spec => [][FinishedIsFinal]_vars
<1>1. Init => OwnInv
  BY DEF Init, OwnInv
<1>2. ChunkInv /\ OwnInv /\ [Next]_vars => [FinishedIsFinal]_vars
  BY FinishedStep
<1> QED BY <1>1, <1>2, OwnInvStep, ChunkInvHolds, PTL DEF Spec
=============================================================================
