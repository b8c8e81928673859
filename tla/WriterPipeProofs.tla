-------------------------- MODULE WriterPipeProofs --------------------------
(***************************************************************************)
(* WriteInsert implements RowSink, whatever the number and the sizes of    *)
(* the rows, the capacity of the channel and the limits: proofs.  Nothing  *)
(* is lost, doubled or reordered between the iterator and the file,        *)
(* because the file, the buffer that is written, those in the channel and  *)
(* the one being filled always are consecutive parts of one sequence of    *)
(* pieces (PiecesInv), as long as no write has failed.                     *)
(***************************************************************************)
EXTENDS WriterPipe, TLAPS

\* WriteInsert has not decided what to return
Active == {"start", "rows", "flush", "rowDone", "last", "close", "closed"}

\* the two goroutines and their channels
CtrlInv ==
    /\ (result = "none") <=> (pc \in Active)
    /\ pc = "start" => pipe = "none"
    /\ pipe = "none" => pc \in {"start", "done"}
    /\ pc = "done" => pipe \in {"none", "exited"}
    /\ result = "ok" => pipe \in {"none", "exited"}
    /\ ctxDone => pc \in {"join", "done"}
    /\ closedIn => pc \in {"closed", "cancel", "join", "done"}
    /\ pipe = "exited" /\ ~ctxDone => closedIn /\ input = <<>>
    /\ pipe = "none" => input = <<>> /\ file = <<>> /\ bf = <<>> /\ counter = 0
    /\ pipe = "none" => bfLen = 0 /\ fileLen = 0 /\ finished = 0 /\ newStmt
    /\ pc \in {"close", "closed"} => bf = <<>> /\ bfLen = 0
    /\ pipe # "write" => writing = NoBuffer

\* a failed write stops the writes, and its error waits in errCh or is returned
ErrInv ==
    /\ errOccurs => pipe \in {"select", "exited"}
    /\ errOccurs => errCh \/ result = "err"
    /\ result = "ok" => ~errOccurs

\* how far the iterator is, and why the loop over its rows ends
IterInv ==
    /\ counter <= NRows
    /\ iterErr => ~hasNext
    /\ hasNext => row <= NRows
    /\ ~hasNext /\ ~iterErr => row = NRows + 1
    /\ CSV /\ pc \in {"flush", "rowDone"} => hasNext /\ row = counter
    /\ ~(CSV /\ pc \in {"flush", "rowDone"}) /\ pc \in Active /\ ~iterErr
         => row = counter + 1
    /\ pc \in {"flush", "rowDone", "last", "close", "closed"} => counter > 0
    /\ pc \in {"last", "close", "closed"} => ~hasNext \/ ShouldSwitchFile
    /\ ~CSV /\ pc \in {"flush", "rowDone"} /\ (~hasNext \/ ShouldSwitchFile) => newStmt
    /\ ~CSV /\ pc \in {"last", "close", "closed"} => newStmt

\* s is all that was put into buffers, c pieces: it is the file f, the pieces w being
\* written, the buffers q in the channel and the buffer b being filled; start[k] is where
\* q[k] starts in s, the last one where b starts
Holds(s, from, b) == \A i \in 1 .. Len(b) : b[i] = s[from + i]

Parts(s, start, f, w, q, b, c) ==
    /\ Holds(s, 0, f) /\ Holds(s, Len(f), w)
    /\ start[1] = Len(f) + Len(w)
    /\ \A k \in 1 .. Len(q) :
         start[k + 1] = start[k] + Len(q[k].pieces) /\ Holds(s, start[k], q[k].pieces)
    /\ c = start[Len(q) + 1] + Len(b) /\ Holds(s, start[Len(q) + 1], b)

\* the same for the sizes: `done' was written, then comes q, and `all' with b
Sizes(size, done, q, b, all) ==
    /\ size[1] = done
    /\ \A k \in 1 .. Len(q) : size[k + 1] = size[k] + q[k].len
    /\ all = size[Len(q) + 1] + b

\* the rows of s are those of the iterator, and a statement begins where one has ended
Linked(s, c, new) ==
    /\ \A i \in 1 .. c : s[i].row = i
    /\ c > 0 => s[1].first = TRUE
    /\ \A i \in 2 .. c : s[i].first = s[i - 1].last
    /\ c > 0 => new = s[c].last
    /\ c = 0 => new = TRUE

PiecesInv ==
    errOccurs \/ \E s \in [1 .. counter -> Pieces] :
        /\ Linked(s, counter, newStmt)
        /\ \E start \in [1 .. Len(input) + 1 -> 0 .. counter] :
              Parts(s, start, file, writing.pieces, input, bf, counter)

SizesInv ==
    /\ Len(bf) <= bfLen
    /\ errOccurs \/ \E size \in [1 .. Len(input) + 1 -> Nat] :
          Sizes(size, finished + writing.len, input, bfLen, fileLen)

\* the file holds the first rows in their order, each once, also after a write failed in
\* its middle
FileInv == \A i \in 1 .. Len(file) : file[i].row = i

\* what a call without error has done
OkInv ==
    result = "ok" =>
        /\ Len(file) = NRows \/ (FileSize # UnspecifiedSize /\ file # <<>>)
        /\ finished = fileLen
        /\ ~CSV /\ file # <<>> =>
             /\ Head(file).first /\ file[Len(file)].last
             /\ \A i \in 1 .. Len(file) - 1 : file[i + 1].first = file[i].last

Inv ==
    /\ TypeOK /\ CtrlInv /\ ErrInv /\ IterInv
    /\ PiecesInv /\ SizesInv /\ FileInv /\ OkInv

-----------------------------------------------------------------------------
(* What the steps do to Boolean variables.                                 *)

LEMMA InitIter ==
    ASSUME Init
    PROVE  /\ hasNext \in BOOLEAN /\ iterErr \in BOOLEAN
           /\ iterErr => ~hasNext
           /\ hasNext => NRows > 0
           /\ ~hasNext /\ ~iterErr => ~(NRows > 0)
<1>1. \/ hasNext = (NRows > 0) /\ iterErr = FALSE
      \/ hasNext = FALSE /\ iterErr = TRUE
  BY DEF Init
<1>2. hasNext \in BOOLEAN /\ iterErr \in BOOLEAN
  <2>1. hasNext = (NRows > 0) => hasNext \in BOOLEAN
    BY SMT
  <2> QED
    BY <1>1, <2>1, Zenon
<1>3. /\ iterErr => ~hasNext
      /\ hasNext => NRows > 0
      /\ ~hasNext /\ ~iterErr => ~(NRows > 0)
  BY <1>1, Zenon
<1> QED
  BY <1>2, <1>3

LEMMA IterNextDoes ==
    ASSUME IterNext
    PROVE  \/ /\ row' = row + 1 /\ iterErr' = iterErr
              /\ hasNext' \in BOOLEAN /\ (hasNext' <=> row < NRows)
           \/ row' = row /\ hasNext' = FALSE /\ iterErr' = TRUE
<1>1. CASE row' = row + 1 /\ hasNext' = (row < NRows) /\ UNCHANGED iterErr
  <2>1. hasNext' \in BOOLEAN
    BY <1>1, SMT
  <2>2. hasNext' <=> row < NRows
    BY <1>1, Zenon
  <2> QED
    BY <1>1, <2>1, <2>2
<1>2. CASE hasNext' = FALSE /\ iterErr' = TRUE /\ UNCHANGED row
  BY <1>2, Zenon
<1> QED
  BY <1>1, <1>2, Zenon DEF IterNext

LEMMA AddRowStmt ==
    ASSUME AddRow
    PROVE  /\ newStmt' \in BOOLEAN
           /\ newStmt' <=> ShouldSwitchStatement' \/ (~CSV /\ ~hasNext')
<1>1. newStmt' = (ShouldSwitchStatement' \/ (~CSV /\ ~hasNext'))
  BY DEF AddRow
<1> QED
  BY <1>1, Zenon

-----------------------------------------------------------------------------
(* Types.                                                                  *)

LEMMA BufferType ==
    ASSUME NEW s \in Seq(Pieces), NEW n \in Nat
    PROVE  /\ Buffer(s, n) \in Buffers
           /\ Buffer(s, n).pieces = s /\ Buffer(s, n).len = n
  BY DEF Buffer, Buffers

LEMMA BufferFields ==
    ASSUME NEW b \in Buffers
    PROVE  b.pieces \in Seq(Pieces) /\ b.len \in Nat
  BY DEF Buffers

LEMMA NoBufferType ==
    NoBuffer \in Buffers /\ NoBuffer.pieces = <<>> /\ NoBuffer.len = 0
  BY DEF NoBuffer, Buffer, Buffers

\* the iterator stays in its range; nothing follows a row unless there is one
LEMMA IterStep ==
    ASSUME TypeOK, IterInv, IterNext, hasNext
    PROVE  /\ row' \in 1 .. NRows + 1 /\ hasNext' \in BOOLEAN /\ iterErr' \in BOOLEAN
           /\ iterErr' => ~hasNext'
           /\ hasNext' => row' <= NRows
           /\ ~hasNext' /\ ~iterErr' => row' = NRows + 1
           /\ ~iterErr' => row' = row + 1 /\ ~iterErr
<1>1. row \in Nat \ {0} /\ row <= NRows /\ NRows \in Nat /\ ~iterErr
  BY SizesAssumption DEF TypeOK, IterInv
<1>2. CASE /\ row' = row + 1 /\ iterErr' = iterErr
           /\ hasNext' \in BOOLEAN /\ (hasNext' <=> row < NRows)
  <2>1. iterErr' \in BOOLEAN
    BY <1>2 DEF TypeOK
  <2>2. ~iterErr'
    BY <1>1, <1>2
  <2>3. /\ row' \in 1 .. NRows + 1
        /\ hasNext' => row' <= NRows
        /\ ~hasNext' => row' = NRows + 1
    BY <1>1, <1>2
  <2> QED
    BY <1>1, <1>2, <2>1, <2>2, <2>3
<1>3. CASE row' = row /\ hasNext' = FALSE /\ iterErr' = TRUE
  <2>1. ~hasNext' /\ iterErr' /\ hasNext' \in BOOLEAN /\ iterErr' \in BOOLEAN
    BY <1>3, Zenon
  <2>2. row' \in 1 .. NRows + 1
    BY <1>1, <1>3
  <2> QED
    BY <2>1, <2>2, Zenon
<1> QED
  BY <1>2, <1>3, IterNextDoes, Zenon

LEMMA TypeInit == Init => TypeOK
<1> SUFFICES ASSUME Init PROVE TypeOK
  OBVIOUS
<1>1. hasNext \in BOOLEAN /\ iterErr \in BOOLEAN
  BY InitIter
<1>2. {hasNext, iterErr, newStmt, cancelled, closedIn, errCh, ctxDone, errOccurs} \subseteq BOOLEAN
  BY <1>1, Zenon DEF Init
<1>3. /\ bf \in Seq(Pieces) /\ file \in Seq(Pieces)
      /\ writing \in Buffers
      /\ input \in Seq(Buffers) /\ Len(input) <= Cap
  BY NoBufferType, CapAssumption DEF Init
<1>4. row \in 1 .. NRows + 1 /\ {bfLen, counter, fileLen, stmtLen, finished} \subseteq Nat
  BY SizesAssumption DEF Init
<1> QED
  BY <1>2, <1>3, <1>4 DEF Init, TypeOK

LEMMA TypeNext ==
    ASSUME TypeOK, IterInv, [Next]_vars
    PROVE  TypeOK'
<1>1. CASE Start
  BY <1>1, SizesAssumption DEF Start, TypeOK, iter, buffer, chans, pipeVars
<1>2. CASE AddRow
  <2>1. /\ row' \in 1 .. NRows + 1 /\ hasNext' \in BOOLEAN /\ iterErr' \in BOOLEAN
    BY <1>2, IterStep, Zenon DEF AddRow, TypeOK, iter
  <2>2. [row |-> row, first |-> newStmt, last |-> newStmt'] \in Pieces
    BY <1>2, AddRowStmt, SizesAssumption DEF TypeOK, Pieces
  <2>3. bf' \in Seq(Pieces)
    BY <1>2, <2>2 DEF AddRow, TypeOK
  <2>4. {counter', bfLen', fileLen', stmtLen', finished'} \subseteq Nat
    <3>1. PICK size \in RowSizes :
             LET prefix == IF newStmt /\ ~CSV THEN PrefixSize ELSE 0
             IN  /\ counter' = counter + 1
                 /\ bfLen' = bfLen + prefix + size
                 /\ fileLen' = fileLen + prefix + size
                 /\ stmtLen' = (IF CSV THEN 0
                               ELSE (IF newStmt THEN 0 ELSE stmtLen) + prefix + size)
      BY <1>2 DEF AddRow
    <3>2. size \in Nat /\ PrefixSize \in Nat
      BY SizesAssumption
    <3>3. counter \in Nat /\ bfLen \in Nat /\ fileLen \in Nat /\ stmtLen \in Nat
      BY DEF TypeOK
    <3>4. finished' \in Nat
      BY <1>2 DEF AddRow, TypeOK, pipeVars
    <3> QED
      BY <3>1, <3>2, <3>3, <3>4
  <2>5. newStmt' \in BOOLEAN
    BY <1>2, AddRowStmt
  <2>6. pc' \in {"flush", "rowDone"}
    BY <1>2 DEF AddRow
  <2> QED
    BY <1>2, <2>1, <2>3, <2>4, <2>5, <2>6 DEF AddRow, TypeOK, chans, pipeVars
<1>3. CASE DecodeFails
  BY <1>3 DEF DecodeFails, TypeOK, iter, buffer, chans, pipeVars, Leave
<1>4. CASE Flush
  <2>1. input' \in Seq(Buffers) /\ Len(input') <= Cap
    BY <1>4, BufferType, CapAssumption DEF Flush, TypeOK
  <2> QED
    BY <1>4, <2>1 DEF Flush, TypeOK, iter, pipeVars
<1>5. CASE FlushMeetsError
  BY <1>5, Zenon DEF FlushMeetsError, TypeOK, iter, buffer, chans, pipeVars, Leave
<1>6. CASE FlushMeetsCancel
  BY <1>6 DEF FlushMeetsCancel, TypeOK, iter, buffer, chans, pipeVars, Leave
<1>7. CASE RowDone
  <2>1. /\ row' \in 1 .. NRows + 1 /\ hasNext' \in BOOLEAN /\ iterErr' \in BOOLEAN
    BY <1>7, IterStep DEF RowDone, TypeOK, IterInv, iter
  <2>2. pc' \in {"rows", "last"}
    BY <1>7 DEF RowDone
  <2> QED
    BY <1>7, <2>1, <2>2 DEF RowDone, TypeOK, buffer, chans, pipeVars
<1>8. CASE SendLast
  <2>1. input' \in Seq(Buffers) /\ Len(input') <= Cap
    <3>1. CASE UNCHANGED input
      BY <3>1 DEF TypeOK
    <3>2. CASE Len(input) < Cap /\ input' = Append(input, Buffer(bf, bfLen))
      BY <3>2, BufferType, CapAssumption DEF TypeOK
    <3> QED
      BY <1>8, <3>1, <3>2 DEF SendLast
  <2> QED
    BY <1>8, <2>1 DEF SendLast, TypeOK, iter, pipeVars
<1>9. CASE CloseInput
  BY <1>9 DEF CloseInput, TypeOK, iter, buffer, chans, pipeVars
<1>10. CASE Return
  BY <1>10 DEF Return, TypeOK, iter, buffer, chans, pipeVars, Leave
<1>11. CASE CancelPipe
  BY <1>11 DEF CancelPipe, TypeOK, iter, buffer, chans, pipeVars
<1>12. CASE Join
  BY <1>12 DEF Join, TypeOK, iter, buffer, chans, pipeVars
<1>13. CASE Receive
  <2>1. Head(input) \in Buffers /\ Tail(input) \in Seq(Buffers) /\ Len(Tail(input)) <= Cap
    BY <1>13, CapAssumption DEF Receive, TypeOK
  <2>2. writing' \in Buffers /\ pipe' \in {"select", "write"}
    BY <1>13, <2>1 DEF Receive, TypeOK
  <2> QED
    BY <1>13, <2>1, <2>2 DEF Receive, TypeOK, iter, buffer
<1>14. CASE WriteBytes
  <2>1. file' \in Seq(Pieces) /\ finished' \in Nat
    BY <1>14, BufferFields, SMTT(30) DEF WriteBytes, TypeOK
  <2> QED
    BY <1>14, <2>1, NoBufferType DEF WriteBytes, TypeOK, iter, buffer, chans
<1>15. CASE WriteBytesFails
  <2>1. writing.pieces \in Seq(Pieces) /\ writing.len \in Nat
    BY BufferFields DEF TypeOK
  <2>2. file' \in Seq(Pieces)
    <3>1. CASE UNCHANGED file
      BY <3>1 DEF TypeOK
    <3>2. ASSUME NEW n \in 0 .. Len(writing.pieces),
                 file' = file \o SubSeq(writing.pieces, 1, n)
          PROVE  file' \in Seq(Pieces)
      <4>1. file \in Seq(Pieces)
        BY DEF TypeOK
      <4>2. SubSeq(writing.pieces, 1, n) \in Seq(Pieces)
        BY <2>1
      <4> QED
        BY <3>2, <4>1, <4>2
    <3>3. \/ UNCHANGED file
          \/ \E n \in 0 .. Len(writing.pieces) :
               file' = file \o SubSeq(writing.pieces, 1, n)
      BY <1>15, SMTT(30) DEF WriteBytesFails
    <3> QED
      BY <3>1, <3>2, <3>3, Zenon
  <2>3. finished' \in Nat /\ opened' \in {"open", "failed"}
    BY <1>15, <2>1, SMTT(30) DEF WriteBytesFails, TypeOK
  <2> QED
    BY <1>15, <2>2, <2>3, NoBufferType DEF WriteBytesFails, TypeOK, iter, buffer
<1>16. CASE Exit
  BY <1>16 DEF Exit, TypeOK, iter, buffer, chans, pipeVars
<1>17. CASE CancelCtx
  BY <1>17 DEF CancelCtx, TypeOK, iter, buffer, chans, pipeVars
<1>18. CASE UNCHANGED vars
  BY <1>18 DEF TypeOK, vars, iter, buffer, chans, pipeVars
<1> QED
  BY <1>1, <1>2, <1>3, <1>4, <1>5, <1>6, <1>7, <1>8, <1>9,
     <1>10, <1>11, <1>12, <1>13, <1>14, <1>15, <1>16, <1>17, <1>18, Zenon
  DEF Next, Producer, Run, Terminated

LEMMA CtrlInit == Init => CtrlInv /\ ErrInv
  BY DEF Init, CtrlInv, ErrInv, Active, NoBuffer, Buffer

LEMMA IterInit == Init => IterInv
<1> SUFFICES ASSUME Init PROVE IterInv
  OBVIOUS
<1>1. counter = 0 /\ row = 1 /\ pc = "start" /\ NRows \in Nat
  BY SizesAssumption DEF Init
<1> QED
  BY <1>1, InitIter DEF IterInv, Active

LEMMA CtrlNext ==
    ASSUME TypeOK, CtrlInv, [Next]_vars
    PROVE  CtrlInv'
<1>1. CASE Start
  BY <1>1 DEF Start, iter, chans, CtrlInv, Active, TypeOK
<1>2. CASE AddRow
  BY <1>2 DEF AddRow, iter, chans, pipeVars, CtrlInv, Active, TypeOK
<1>3. CASE DecodeFails
  BY <1>3 DEF DecodeFails, Leave, iter, buffer, chans, pipeVars, CtrlInv, Active, TypeOK
<1>4. CASE Flush
  BY <1>4 DEF Flush, iter, pipeVars, CtrlInv, Active, TypeOK
<1>5. CASE FlushMeetsError
  BY <1>5 DEF FlushMeetsError, Leave, iter, buffer, pipeVars, CtrlInv, Active, TypeOK
<1>6. CASE FlushMeetsCancel
  BY <1>6 DEF FlushMeetsCancel, Leave, iter, buffer, chans, pipeVars, CtrlInv, Active, TypeOK
<1>7. CASE RowDone
  BY <1>7 DEF RowDone, iter, buffer, chans, pipeVars, CtrlInv, Active, TypeOK
<1>8. CASE SendLast
  BY <1>8 DEF SendLast, iter, pipeVars, CtrlInv, Active, TypeOK
<1>9. CASE CloseInput
  BY <1>9 DEF CloseInput, iter, buffer, pipeVars, CtrlInv, Active, TypeOK
<1>10. CASE Return
  BY <1>10 DEF Return, Leave, iter, buffer, pipeVars, CtrlInv, Active, TypeOK
<1>11. CASE CancelPipe
  BY <1>11 DEF CancelPipe, iter, buffer, chans, pipeVars, CtrlInv, Active, TypeOK
<1>12. CASE Join
  BY <1>12 DEF Join, iter, buffer, chans, pipeVars, CtrlInv, Active, TypeOK
<1>13. CASE Receive
  BY <1>13 DEF Receive, iter, buffer, CtrlInv, Active, TypeOK
<1>14. CASE WriteBytes
  BY <1>14 DEF WriteBytes, iter, buffer, chans, CtrlInv, Active, TypeOK
<1>15. CASE WriteBytesFails
  BY <1>15 DEF WriteBytesFails, iter, buffer, CtrlInv, Active, TypeOK
<1>16. CASE Exit
  BY <1>16 DEF Exit, iter, buffer, chans, CtrlInv, Active, TypeOK
<1>17. CASE CancelCtx
  BY <1>17 DEF CancelCtx, iter, buffer, chans, pipeVars, CtrlInv, Active, TypeOK
<1>18. CASE UNCHANGED vars
  BY <1>18 DEF vars, iter, buffer, chans, pipeVars, CtrlInv, Active, TypeOK
<1> QED
  BY <1>1, <1>2, <1>3, <1>4, <1>5, <1>6, <1>7, <1>8, <1>9,
     <1>10, <1>11, <1>12, <1>13, <1>14, <1>15, <1>16, <1>17, <1>18, Zenon
  DEF Next, Producer, Run, Terminated

LEMMA ErrNext ==
    ASSUME TypeOK, CtrlInv, ErrInv, [Next]_vars
    PROVE  ErrInv'
<1>1. CASE Start
  BY <1>1 DEF Start, iter, chans, ErrInv, CtrlInv, Active, TypeOK
<1>2. CASE AddRow
  BY <1>2 DEF AddRow, iter, chans, pipeVars, ErrInv, CtrlInv, Active, TypeOK
<1>3. CASE DecodeFails
  BY <1>3 DEF DecodeFails, Leave, iter, buffer, chans, pipeVars, ErrInv, CtrlInv, Active, TypeOK
<1>4. CASE Flush
  BY <1>4 DEF Flush, iter, pipeVars, ErrInv, CtrlInv, Active, TypeOK
<1>5. CASE FlushMeetsError
  BY <1>5 DEF FlushMeetsError, Leave, iter, buffer, pipeVars, ErrInv, CtrlInv, Active, TypeOK
<1>6. CASE FlushMeetsCancel
  BY <1>6 DEF FlushMeetsCancel, Leave, iter, buffer, chans, pipeVars, ErrInv, CtrlInv, Active, TypeOK
<1>7. CASE RowDone
  BY <1>7 DEF RowDone, iter, buffer, chans, pipeVars, ErrInv, CtrlInv, Active, TypeOK
<1>8. CASE SendLast
  BY <1>8 DEF SendLast, iter, pipeVars, ErrInv, CtrlInv, Active, TypeOK
<1>9. CASE CloseInput
  BY <1>9 DEF CloseInput, iter, buffer, pipeVars, ErrInv, CtrlInv, Active, TypeOK
<1>10. CASE Return
  BY <1>10 DEF Return, Leave, iter, buffer, pipeVars, ErrInv, CtrlInv, Active, TypeOK
<1>11. CASE CancelPipe
  BY <1>11 DEF CancelPipe, iter, buffer, chans, pipeVars, ErrInv, CtrlInv, Active, TypeOK
<1>12. CASE Join
  BY <1>12 DEF Join, iter, buffer, chans, pipeVars, ErrInv, CtrlInv, Active, TypeOK
<1>13. CASE Receive
  BY <1>13 DEF Receive, iter, buffer, ErrInv, CtrlInv, Active, TypeOK
<1>14. CASE WriteBytes
  BY <1>14 DEF WriteBytes, iter, buffer, chans, ErrInv, CtrlInv, Active, TypeOK
<1>15. CASE WriteBytesFails
  BY <1>15 DEF WriteBytesFails, iter, buffer, ErrInv, CtrlInv, Active, TypeOK
<1>16. CASE Exit
  BY <1>16 DEF Exit, iter, buffer, chans, ErrInv, CtrlInv, Active, TypeOK
<1>17. CASE CancelCtx
  BY <1>17 DEF CancelCtx, iter, buffer, chans, pipeVars, ErrInv, CtrlInv, Active, TypeOK
<1>18. CASE UNCHANGED vars
  BY <1>18 DEF vars, iter, buffer, chans, pipeVars, ErrInv, CtrlInv, Active, TypeOK
<1> QED
  BY <1>1, <1>2, <1>3, <1>4, <1>5, <1>6, <1>7, <1>8, <1>9,
     <1>10, <1>11, <1>12, <1>13, <1>14, <1>15, <1>16, <1>17, <1>18, Zenon
  DEF Next, Producer, Run, Terminated

LEMMA IterInvNext ==
    ASSUME TypeOK, CtrlInv, IterInv, [Next]_vars
    PROVE  IterInv'
<1>1. CASE Start
  BY <1>1 DEF Start, iter, chans, IterInv, CSV, ShouldSwitchFile, FileSize, Active, TypeOK
<1>2. CASE AddRow
  <2>1. /\ counter' = counter + 1 /\ pc' \in {"flush", "rowDone"} /\ conf' = conf
        /\ hasNext /\ pc = "rows"
    BY <1>2 DEF AddRow
  <2>2. /\ row = counter + 1 /\ row <= NRows /\ ~iterErr
        /\ counter \in Nat /\ NRows \in Nat
    BY <2>1, SizesAssumption DEF IterInv, TypeOK, Active
  <2>3. counter' <= NRows /\ counter' > 0
    BY <2>1, <2>2
  <2>4. CASE CSV
    <3>1. UNCHANGED iter
      BY <1>2, <2>4 DEF AddRow
    <3> QED
      BY <2>1, <2>2, <2>3, <2>4, <3>1 DEF IterInv, CSV, iter, Active
  <2>5. CASE ~CSV
    <3>1. IterNext
      BY <1>2, <2>5 DEF AddRow
    <3>2. ~hasNext' \/ ShouldSwitchFile' => newStmt'
      BY <1>2, <2>5, AddRowStmt DEF ShouldSwitchStatement
    <3> QED
      BY <2>1, <2>2, <2>3, <2>5, <3>1, <3>2, IterStep DEF IterInv, CSV, Active
  <2> QED
    BY <2>4, <2>5
<1>3. CASE DecodeFails
  BY <1>3 DEF DecodeFails, Leave, iter, buffer, chans, pipeVars, IterInv, CSV, ShouldSwitchFile, FileSize, Active, TypeOK
<1>4. CASE Flush
  BY <1>4 DEF Flush, iter, pipeVars, IterInv, CSV, ShouldSwitchFile, FileSize, Active, TypeOK
<1>5. CASE FlushMeetsError
  BY <1>5 DEF FlushMeetsError, Leave, iter, buffer, pipeVars, IterInv, CSV, ShouldSwitchFile, FileSize, Active, TypeOK
<1>6. CASE FlushMeetsCancel
  BY <1>6 DEF FlushMeetsCancel, Leave, iter, buffer, chans, pipeVars, IterInv, CSV, ShouldSwitchFile, FileSize, Active, TypeOK
<1>7. CASE RowDone
  <2>1. /\ pc = "rowDone" /\ conf' = conf /\ counter' = counter /\ newStmt' = newStmt
        /\ fileLen' = fileLen
        /\ pc' = (IF ~ShouldSwitchFile /\ hasNext' THEN "rows" ELSE "last")
    BY <1>7 DEF RowDone, buffer
  <2>2. ShouldSwitchFile' <=> ShouldSwitchFile
    BY <2>1 DEF ShouldSwitchFile, FileSize
  <2>3. CASE CSV
    <3>1. IterNext
      BY <1>7, <2>3 DEF RowDone
    <3> QED
      BY <2>1, <2>2, <2>3, <3>1, IterStep DEF IterInv, CSV, Active
  <2>4. CASE ~CSV
    <3>1. UNCHANGED iter
      BY <1>7, <2>4 DEF RowDone
    <3> QED
      BY <2>1, <2>2, <2>4, <3>1 DEF IterInv, CSV, Active, iter
  <2> QED
    BY <2>3, <2>4
<1>8. CASE SendLast
  BY <1>8 DEF SendLast, iter, pipeVars, IterInv, CSV, ShouldSwitchFile, FileSize, Active, TypeOK
<1>9. CASE CloseInput
  BY <1>9, Zenon DEF CloseInput, iter, buffer, pipeVars, IterInv, CSV, ShouldSwitchFile, FileSize, Active, TypeOK
<1>10. CASE Return
  BY <1>10 DEF Return, Leave, iter, buffer, pipeVars, IterInv, CSV, ShouldSwitchFile, FileSize, Active, TypeOK
<1>11. CASE CancelPipe
  BY <1>11 DEF CancelPipe, iter, buffer, chans, pipeVars, IterInv, CSV, ShouldSwitchFile, FileSize, Active, TypeOK
<1>12. CASE Join
  BY <1>12 DEF Join, iter, buffer, chans, pipeVars, IterInv, CSV, ShouldSwitchFile, FileSize, Active, TypeOK
<1>13. CASE Receive
  BY <1>13 DEF Receive, iter, buffer, IterInv, CSV, ShouldSwitchFile, FileSize, Active, TypeOK
<1>14. CASE WriteBytes
  BY <1>14 DEF WriteBytes, iter, buffer, chans, IterInv, CSV, ShouldSwitchFile, FileSize, Active, TypeOK
<1>15. CASE WriteBytesFails
  BY <1>15 DEF WriteBytesFails, iter, buffer, IterInv, CSV, ShouldSwitchFile, FileSize, Active, TypeOK
<1>16. CASE Exit
  BY <1>16 DEF Exit, iter, buffer, chans, IterInv, CSV, ShouldSwitchFile, FileSize, Active, TypeOK
<1>17. CASE CancelCtx
  BY <1>17 DEF CancelCtx, iter, buffer, chans, pipeVars, IterInv, CSV, ShouldSwitchFile, FileSize, Active, TypeOK
<1>18. CASE UNCHANGED vars
  BY <1>18 DEF vars, iter, buffer, chans, pipeVars, IterInv, CSV, ShouldSwitchFile, FileSize, Active, TypeOK
<1> QED
  BY <1>1, <1>2, <1>3, <1>4, <1>5, <1>6, <1>7, <1>8, <1>9,
     <1>10, <1>11, <1>12, <1>13, <1>14, <1>15, <1>16, <1>17, <1>18, Zenon
  DEF Next, Producer, Run, Terminated

-----------------------------------------------------------------------------
(* The stream of pieces: what the steps do to the parts and to the sizes.  *)

LEMMA LinkedAdd ==
    ASSUME NEW c \in Nat, NEW s \in [1 .. c -> Pieces], NEW new \in BOOLEAN, NEW next \in BOOLEAN,
           Linked(s, c, new)
    PROVE  \E t \in [1 .. c + 1 -> Pieces] :
              /\ Linked(t, c + 1, next) /\ \A i \in 1 .. c : t[i] = s[i]
              /\ t[c + 1] = [row |-> c + 1, first |-> new, last |-> next]
<1> DEFINE t == [i \in 1 .. c + 1 |-> IF i <= c THEN s[i]
                                   ELSE [row |-> c + 1, first |-> new, last |-> next]]
<1>1. t \in [1 .. c + 1 -> Pieces]
  BY DEF Pieces
<1>2. /\ \A i \in 1 .. c : t[i] = s[i]
      /\ t[c + 1].row = c + 1 /\ t[c + 1].first = new /\ t[c + 1].last = next
      /\ t[c + 1] = [row |-> c + 1, first |-> new, last |-> next]
  OBVIOUS
<1> HIDE DEF t
<1>3. ASSUME NEW i \in 1 .. c + 1 PROVE t[i].row = i
  <2>1. CASE i \in 1 .. c
    BY <1>2, <2>1 DEF Linked
  <2>2. CASE i = c + 1
    BY <1>2, <2>2, Zenon
  <2>3. i \in 1 .. c \/ i = c + 1
    OBVIOUS
  <2> QED
    BY <2>1, <2>2, <2>3
<1>4. c + 1 > 0 => t[1].first = TRUE
  <2>1. CASE c = 0
    BY <1>2, <2>1 DEF Linked
  <2>2. CASE c > 0
    BY <1>2, <2>2 DEF Linked
  <2>3. c = 0 \/ c > 0
    OBVIOUS
  <2> QED
    BY <2>1, <2>2, <2>3, Zenon
<1>5. ASSUME NEW i \in 2 .. c + 1 PROVE t[i].first = t[i - 1].last
  <2>1. CASE i <= c
    BY <1>2, <2>1 DEF Linked
  <2>2. CASE i = c + 1
    BY <1>2, <2>2 DEF Linked
  <2> QED
    BY <2>1, <2>2
<1>6. Linked(t, c + 1, next)
  BY <1>2, <1>3, <1>4, <1>5 DEF Linked
<1> QED
  BY <1>1, <1>2, <1>6

LEMMA HoldsAppend ==
    ASSUME NEW from \in Nat, NEW b \in Seq(Pieces), NEW s, Holds(s, from, b)
    PROVE  Holds(s, from, Append(b, s[from + Len(b) + 1]))
  BY DEF Holds

LEMMA HoldsConcat ==
    ASSUME NEW from \in Nat, NEW a \in Seq(Pieces), NEW b \in Seq(Pieces), NEW s,
           Holds(s, from, a), Holds(s, from + Len(a), b)
    PROVE  Holds(s, from, a \o b)
<1> SUFFICES ASSUME NEW i \in 1 .. Len(a \o b) PROVE (a \o b)[i] = s[from + i]
  BY DEF Holds
<1>1. CASE i <= Len(a)
  BY <1>1 DEF Holds
<1>2. CASE i > Len(a)
  <2>1. i - Len(a) \in 1 .. Len(b) /\ (a \o b)[i] = b[i - Len(a)]
    BY <1>2
  <2>2. b[i - Len(a)] = s[(from + Len(a)) + (i - Len(a))]
    BY <2>1 DEF Holds
  <2> QED
    BY <2>1, <2>2
<1> QED
  BY <1>1, <1>2

LEMMA WithinPart ==
    ASSUME NEW c \in Nat, NEW from \in Nat, NEW n \in Nat, from + n <= c
    PROVE  \A i \in 1 .. n : from + i \in 1 .. c
  OBVIOUS

LEMMA PartsAdd ==
    ASSUME NEW c \in Nat, NEW f, Len(f) \in Nat, NEW w, Len(w) \in Nat,
           NEW q, Len(q) \in Nat, \A k \in 1 .. Len(q) : Len(q[k].pieces) \in Nat,
           NEW b \in Seq(Pieces), NEW s, NEW t, \A i \in 1 .. c : t[i] = s[i],
           NEW start \in [1 .. Len(q) + 1 -> 0 .. c], Parts(s, start, f, w, q, b, c)
    PROVE  Parts(t, start, f, w, q, Append(b, t[c + 1]), c + 1)
<1>1. /\ start[1] = Len(f) + Len(w) /\ c = start[Len(q) + 1] + Len(b)
      /\ Holds(s, 0, f) /\ Holds(s, Len(f), w) /\ Holds(s, start[Len(q) + 1], b)
  BY DEF Parts
<1>2. start[1] \in 0 .. c /\ start[Len(q) + 1] \in 0 .. c
  OBVIOUS
<1>3. Holds(t, 0, f)
  BY <1>1, <1>2 DEF Holds
<1>4. Holds(t, Len(f), w)
  BY <1>1, <1>2 DEF Holds
<1>5. ASSUME NEW k \in 1 .. Len(q)
      PROVE  start[k + 1] = start[k] + Len(q[k].pieces) /\ Holds(t, start[k], q[k].pieces)
  <2>1. start[k + 1] = start[k] + Len(q[k].pieces) /\ Holds(s, start[k], q[k].pieces)
    BY DEF Parts
  <2>2. k \in 1 .. Len(q) + 1 /\ k + 1 \in 1 .. Len(q) + 1
    OBVIOUS
  <2>3. start[k] \in 0 .. c /\ start[k + 1] \in 0 .. c
    BY <2>2, Zenon
  <2>4. Len(q[k].pieces) \in Nat
    OBVIOUS
  <2>5. \A i \in 1 .. Len(q[k].pieces) : start[k] + i \in 1 .. c
    <3>1. start[k] \in Nat /\ start[k] + Len(q[k].pieces) <= c
      BY <2>1, <2>3
    <3> QED
      BY <2>4, <3>1, WithinPart, Zenon
  <2>6. Holds(t, start[k], q[k].pieces)
    BY <2>1, <2>5, SMTT(20) DEF Holds
  <2> QED
    BY <2>1, <2>6
<1>6. Holds(t, start[Len(q) + 1], b)
  BY <1>1, <1>2, SMTT(30) DEF Holds
<1>7. Holds(t, start[Len(q) + 1], Append(b, t[c + 1]))
  <2>1. c + 1 = start[Len(q) + 1] + Len(b) + 1
    BY <1>1, <1>2
  <2> QED
    BY <1>2, <1>6, <2>1, HoldsAppend
<1>8. c + 1 = start[Len(q) + 1] + Len(Append(b, t[c + 1]))
  <2>1. Len(Append(b, t[c + 1])) = Len(b) + 1 /\ Len(b) \in Nat
    OBVIOUS
  <2> QED
    BY <1>1, <1>2, <2>1, SMTT(30)
<1> QED
  BY <1>1, <1>3, <1>4, <1>5, <1>7, <1>8 DEF Parts

LEMMA PartsSend ==
    ASSUME NEW c \in Nat, NEW f, NEW w, NEW q \in Seq(Buffers),
           NEW b, NEW buf \in Buffers, buf.pieces = b, Len(b) \in Nat, NEW s,
           NEW start \in [1 .. Len(q) + 1 -> 0 .. c], Parts(s, start, f, w, q, b, c)
    PROVE  \E new \in [1 .. Len(Append(q, buf)) + 1 -> 0 .. c] :
              Parts(s, new, f, w, Append(q, buf), <<>>, c)
<1> DEFINE new == [k \in 1 .. Len(q) + 2 |-> IF k <= Len(q) + 1 THEN start[k] ELSE c]
<1> DEFINE r == Append(q, buf)
<1>1. /\ Len(q) \in Nat /\ Len(r) = Len(q) + 1 /\ r[Len(q) + 1] = buf
      /\ \A k \in 1 .. Len(q) : r[k] = q[k]
  OBVIOUS
<1>2. new \in [1 .. Len(r) + 1 -> 0 .. c]
  BY <1>1
<1>3. /\ \A k \in 1 .. Len(q) + 1 : new[k] = start[k]
      /\ new[Len(q) + 2] = c
  BY <1>1
<1> HIDE DEF new, r
<1>4. /\ Holds(s, 0, f) /\ Holds(s, Len(f), w) /\ new[1] = Len(f) + Len(w)
  BY <1>1, <1>3 DEF Parts
<1>5. ASSUME NEW k \in 1 .. Len(r)
      PROVE  new[k + 1] = new[k] + Len(r[k].pieces) /\ Holds(s, new[k], r[k].pieces)
  <2>1. CASE k \in 1 .. Len(q)
    <3>1. start[k + 1] = start[k] + Len(q[k].pieces) /\ Holds(s, start[k], q[k].pieces)
      BY <2>1 DEF Parts
    <3>2. new[k] = start[k] /\ new[k + 1] = start[k + 1] /\ r[k] = q[k]
      BY <1>1, <1>3, <2>1
    <3> QED
      BY <3>1, <3>2
  <2>2. CASE k = Len(q) + 1
    <3>1. c = start[k] + Len(b) /\ Holds(s, start[k], b)
      BY <2>2 DEF Parts
    <3>2. k \in 1 .. Len(q) + 1 /\ k + 1 = Len(q) + 2
      BY <1>1, <2>2
    <3>3. new[k] = start[k] /\ new[k + 1] = c /\ r[k] = buf
      BY <1>1, <1>3, <2>2, <3>2
    <3> QED
      BY <3>1, <3>3
  <2>3. k \in 1 .. Len(q) \/ k = Len(q) + 1
    BY <1>1
  <2> QED
    BY <2>1, <2>2, <2>3
<1>6. c = new[Len(r) + 1] + Len(<<>>) /\ Holds(s, new[Len(r) + 1], <<>>)
  BY <1>1, <1>3 DEF Holds
<1>7. Parts(s, new, f, w, r, <<>>, c)
  BY <1>4, <1>5, <1>6 DEF Parts
<1> QED
  BY <1>2, <1>7 DEF r

LEMMA PartsReceive ==
    ASSUME NEW c \in Nat, NEW f, Len(f) \in Nat, NEW b,
           NEW q \in Seq(Buffers), q # <<>>, NEW s,
           NEW start \in [1 .. Len(q) + 1 -> 0 .. c], Parts(s, start, f, <<>>, q, b, c)
    PROVE  \E new \in [1 .. Len(Tail(q)) + 1 -> 0 .. c] :
              Parts(s, new, f, Head(q).pieces, Tail(q), b, c)
<1> DEFINE new == [k \in 1 .. Len(q) |-> start[k + 1]]
<1> DEFINE r == Tail(q)
<1>1. /\ Len(q) \in Nat /\ Len(q) > 0 /\ Head(q) = q[1] /\ Len(r) = Len(q) - 1
      /\ \A k \in 1 .. Len(r) : r[k] = q[k + 1]
  OBVIOUS
<1>2. new \in [1 .. Len(r) + 1 -> 0 .. c]
  BY <1>1
<1>3. \A k \in 1 .. Len(q) : new[k] = start[k + 1]
  BY <1>1
<1> HIDE DEF new, r
<1>4. start[1] = Len(f) /\ Holds(s, 0, f)
  BY DEF Parts
<1>5. start[1 + 1] = start[1] + Len(q[1].pieces) /\ Holds(s, start[1], q[1].pieces)
  BY <1>1 DEF Parts
<1>6. new[1] = Len(f) + Len(Head(q).pieces) /\ Holds(s, Len(f), Head(q).pieces)
  BY <1>1, <1>3, <1>4, <1>5, SMTT(30)
<1>7. ASSUME NEW k \in 1 .. Len(r)
      PROVE  new[k + 1] = new[k] + Len(r[k].pieces) /\ Holds(s, new[k], r[k].pieces)
  <2>1. k \in 1 .. Len(q) /\ k + 1 \in 1 .. Len(q)
    BY <1>1
  <2>2. /\ start[(k + 1) + 1] = start[k + 1] + Len(q[k + 1].pieces)
        /\ Holds(s, start[k + 1], q[k + 1].pieces)
    BY <2>1 DEF Parts
  <2> QED
    BY <1>1, <1>3, <2>1, <2>2
<1>8. new[Len(r) + 1] = start[Len(q) + 1]
  BY <1>1, <1>3
<1>9. c = start[Len(q) + 1] + Len(b) /\ Holds(s, start[Len(q) + 1], b)
  BY DEF Parts
<1>10. Parts(s, new, f, Head(q).pieces, r, b, c)
  BY <1>4, <1>6, <1>7, <1>8, <1>9 DEF Parts
<1> QED
  BY <1>2, <1>10 DEF r

LEMMA PartsWrite ==
    ASSUME NEW c \in Nat, NEW f \in Seq(Pieces), NEW w \in Seq(Pieces), NEW q, NEW b, NEW s,
           NEW start, Parts(s, start, f, w, q, b, c)
    PROVE  Parts(s, start, f \o w, <<>>, q, b, c)
<1>1. Holds(s, 0, f) /\ Holds(s, 0 + Len(f), w)
  BY DEF Parts
<1>2. Holds(s, 0, f \o w) /\ Holds(s, Len(f \o w), <<>>)
  BY <1>1, HoldsConcat DEF Holds
<1>3. start[1] = Len(f \o w) + Len(<<>>)
  BY DEF Parts
<1> QED
  BY <1>2, <1>3, SMTT(30) DEF Parts

LEMMA SizesSend ==
    ASSUME NEW q \in Seq(Buffers), NEW buf \in Buffers, NEW done, NEW all \in Nat,
           NEW size \in [1 .. Len(q) + 1 -> Nat], Sizes(size, done, q, buf.len, all)
    PROVE  \E new \in [1 .. Len(Append(q, buf)) + 1 -> Nat] :
              Sizes(new, done, Append(q, buf), 0, all)
<1> DEFINE new == [k \in 1 .. Len(q) + 2 |-> IF k <= Len(q) + 1 THEN size[k] ELSE all]
<1> DEFINE r == Append(q, buf)
<1>1. /\ Len(q) \in Nat /\ Len(r) = Len(q) + 1 /\ r[Len(q) + 1] = buf
      /\ \A k \in 1 .. Len(q) : r[k] = q[k]
  OBVIOUS
<1>2. new \in [1 .. Len(r) + 1 -> Nat]
  BY <1>1
<1>3. /\ \A k \in 1 .. Len(q) + 1 : new[k] = size[k]
      /\ new[Len(q) + 2] = all
  BY <1>1
<1> HIDE DEF new, r
<1>4. ASSUME NEW k \in 1 .. Len(r) PROVE new[k + 1] = new[k] + r[k].len
  <2>1. CASE k \in 1 .. Len(q)
    BY <1>1, <1>3, <2>1 DEF Sizes
  <2>2. CASE k = Len(q) + 1
    BY <1>1, <1>3, <2>2 DEF Sizes
  <2> QED
    BY <1>1, <2>1, <2>2
<1>5. new[1] = done /\ all = new[Len(r) + 1] + 0
  BY <1>1, <1>3 DEF Sizes
<1>6. Sizes(new, done, r, 0, all)
  BY <1>4, <1>5, Zenon DEF Sizes
<1> QED
  BY <1>2, <1>6 DEF r

LEMMA SizesReceive ==
    ASSUME NEW q \in Seq(Buffers), q # <<>>, NEW done, NEW b, NEW all,
           NEW size \in [1 .. Len(q) + 1 -> Nat], Sizes(size, done, q, b, all)
    PROVE  \E new \in [1 .. Len(Tail(q)) + 1 -> Nat] :
              Sizes(new, done + Head(q).len, Tail(q), b, all)
<1> DEFINE new == [k \in 1 .. Len(q) |-> size[k + 1]]
<1> DEFINE r == Tail(q)
<1>1. /\ Len(q) \in Nat /\ Len(q) > 0 /\ Head(q) = q[1] /\ Len(r) = Len(q) - 1
      /\ \A k \in 1 .. Len(r) : r[k] = q[k + 1]
  OBVIOUS
<1>2. new \in [1 .. Len(r) + 1 -> Nat]
  BY <1>1
<1>3. \A k \in 1 .. Len(q) : new[k] = size[k + 1]
  BY <1>1
<1> HIDE DEF new, r
<1>4. ASSUME NEW k \in 1 .. Len(r) PROVE new[k + 1] = new[k] + r[k].len
  <2>1. k \in 1 .. Len(q) /\ k + 1 \in 1 .. Len(q)
    BY <1>1
  <2>2. size[(k + 1) + 1] = size[k + 1] + q[k + 1].len
    BY <2>1 DEF Sizes
  <2> QED
    BY <1>1, <1>3, <2>1, <2>2
<1>5. new[1] = done + Head(q).len
  <2>1. size[1] = done /\ size[1 + 1] = size[1] + q[1].len
    BY <1>1 DEF Sizes
  <2> QED
    BY <1>1, <1>3, <2>1
<1>6. all = new[Len(r) + 1] + b
  BY <1>1, <1>3 DEF Sizes
<1>7. Sizes(new, done + Head(q).len, r, b, all)
  BY <1>4, <1>5, <1>6 DEF Sizes
<1> QED
  BY <1>2, <1>7 DEF r

-----------------------------------------------------------------------------
(* The stream of pieces: every step keeps it.                              *)

LEMMA PiecesInit == Init => PiecesInv
<1> SUFFICES ASSUME Init PROVE PiecesInv
  OBVIOUS
<1>1. /\ counter = 0 /\ input = <<>> /\ file = <<>> /\ bf = <<>>
      /\ newStmt = TRUE /\ writing.pieces = <<>>
  BY NoBufferType DEF Init
<1>2. PICK none : none = [i \in 1 .. 0 |-> [row |-> 0, first |-> TRUE, last |-> TRUE]]
  OBVIOUS
<1>3. PICK zero : zero = [k \in 1 .. 1 |-> 0]
  BY Zenon
<1>4. none \in [1 .. 0 -> Pieces] /\ zero \in [1 .. 1 -> 0 .. 0]
  BY <1>2, <1>3
<1>5. Linked(none, 0, TRUE)
  BY DEF Linked
<1>6. Parts(none, zero, <<>>, <<>>, <<>>, <<>>, 0)
  BY <1>3 DEF Parts, Holds
<1>7. Len(input) + 1 = 1
  BY <1>1
<1> QED
  BY <1>1, <1>4, <1>5, <1>6, <1>7, Zenon DEF PiecesInv

LEMMA PiecesStutter ==
    ASSUME PiecesInv, UNCHANGED <<errOccurs, counter, newStmt, input, file, writing, bf>>
    PROVE  PiecesInv'
  BY DEF PiecesInv

LEMMA PiecesAddRow ==
    ASSUME TypeOK, IterInv, PiecesInv, AddRow
    PROVE  PiecesInv'
<1>1. /\ pc = "rows" /\ hasNext /\ counter' = counter + 1
      /\ bf' = Append(bf, [row |-> row, first |-> newStmt, last |-> newStmt'])
      /\ UNCHANGED <<input, file, writing, errOccurs>>
  BY DEF AddRow, chans, pipeVars
<1>2. row = counter + 1
  BY <1>1 DEF IterInv, Active
<1>3. SUFFICES ASSUME ~errOccurs PROVE PiecesInv'
  BY <1>1 DEF PiecesInv
<1>4. PICK s \in [1 .. counter -> Pieces],
           start \in [1 .. Len(input) + 1 -> 0 .. counter] :
        /\ Linked(s, counter, newStmt)
        /\ Parts(s, start, file, writing.pieces, input, bf, counter)
  BY <1>3 DEF PiecesInv
<1>5. counter \in Nat /\ newStmt \in BOOLEAN /\ newStmt' \in BOOLEAN /\ bf \in Seq(Pieces)
  BY AddRowStmt DEF TypeOK
<1>6. \E t \in [1 .. counter + 1 -> Pieces] :
         /\ Linked(t, counter + 1, newStmt') /\ \A i \in 1 .. counter : t[i] = s[i]
         /\ t[counter + 1] = [row |-> counter + 1, first |-> newStmt, last |-> newStmt']
  <2>1. Linked(s, counter, newStmt)
    BY <1>4
  <2> QED
    BY <1>5, <2>1, LinkedAdd, ZenonT(30)
<1>7. PICK t \in [1 .. counter + 1 -> Pieces] :
        /\ Linked(t, counter + 1, newStmt') /\ \A i \in 1 .. counter : t[i] = s[i]
        /\ t[counter + 1] = [row |-> counter + 1, first |-> newStmt, last |-> newStmt']
  BY <1>6, Zenon
<1>8. /\ Len(file) \in Nat /\ Len(writing.pieces) \in Nat /\ Len(input) \in Nat
      /\ \A k \in 1 .. Len(input) : Len(input[k].pieces) \in Nat
  <2>1. file \in Seq(Pieces) /\ writing \in Buffers /\ input \in Seq(Buffers)
    BY DEF TypeOK
  <2>2. Len(file) \in Nat /\ Len(writing.pieces) \in Nat /\ Len(input) \in Nat
    BY <2>1, BufferFields
  <2>3. ASSUME NEW k \in 1 .. Len(input) PROVE Len(input[k].pieces) \in Nat
    <3>1. input[k] \in Buffers
      BY <2>1
    <3> QED
      BY <3>1, BufferFields
  <2> QED
    BY <2>2, <2>3
<1>9. Parts(t, start, file, writing.pieces, input, Append(bf, t[counter + 1]), counter + 1)
  <2>1. Parts(s, start, file, writing.pieces, input, bf, counter)
    BY <1>4
  <2>2. \A i \in 1 .. counter : t[i] = s[i]
    BY <1>7
  <2> QED
    BY <1>5, <1>8, <2>1, <2>2, PartsAdd, Zenon
<1>10. start \in [1 .. Len(input) + 1 -> 0 .. counter + 1]
  BY <1>5, <1>8
<1>11. bf' = Append(bf, t[counter + 1])
  BY <1>1, <1>2, <1>7
<1>12. Linked(t, counter', newStmt')
  BY <1>1, <1>7
<1> QED
  BY <1>1, <1>9, <1>10, <1>11, <1>12, SMTT(30) DEF PiecesInv

\* the buffer goes to the channel
LEMMA PiecesSend ==
    ASSUME TypeOK, PiecesInv, input' = Append(input, Buffer(bf, bfLen)), bf' = <<>>,
           UNCHANGED <<errOccurs, counter, newStmt, file, writing>>
    PROVE  PiecesInv'
<1>1. SUFFICES ASSUME ~errOccurs PROVE PiecesInv'
  BY DEF PiecesInv
<1>2. PICK s \in [1 .. counter -> Pieces],
           start \in [1 .. Len(input) + 1 -> 0 .. counter] :
        /\ Linked(s, counter, newStmt)
        /\ Parts(s, start, file, writing.pieces, input, bf, counter)
  BY <1>1 DEF PiecesInv
<1>3. /\ Buffer(bf, bfLen) \in Buffers /\ Buffer(bf, bfLen).pieces = bf
      /\ Len(bf) \in Nat /\ input \in Seq(Buffers) /\ counter \in Nat
  BY BufferType DEF TypeOK
<1>4. \E new \in [1 .. Len(input') + 1 -> 0 .. counter] :
         Parts(s, new, file, writing.pieces, input', <<>>, counter)
  BY <1>2, <1>3, PartsSend, Zenon
<1> QED
  BY <1>2, <1>4 DEF PiecesInv

LEMMA PiecesReceive ==
    ASSUME TypeOK, CtrlInv, PiecesInv, Receive
    PROVE  PiecesInv'
<1>1. SUFFICES ASSUME ~errOccurs PROVE PiecesInv'
  BY DEF PiecesInv, Receive
<1>2. PICK s \in [1 .. counter -> Pieces],
           start \in [1 .. Len(input) + 1 -> 0 .. counter] :
        /\ Linked(s, counter, newStmt)
        /\ Parts(s, start, file, writing.pieces, input, bf, counter)
  BY <1>1 DEF PiecesInv
<1>3. /\ input # <<>> /\ input' = Tail(input) /\ writing' = Head(input)
      /\ UNCHANGED <<counter, newStmt, file, bf, errOccurs>>
  BY <1>1 DEF Receive, buffer
<1>4. writing.pieces = <<>>
  BY NoBufferType DEF Receive, CtrlInv
<1>5. counter \in Nat /\ input \in Seq(Buffers) /\ Len(file) \in Nat
  BY DEF TypeOK
<1>6. \E new \in [1 .. Len(input') + 1 -> 0 .. counter] :
         Parts(s, new, file, writing'.pieces, input', bf, counter)
  BY <1>2, <1>3, <1>4, <1>5, PartsReceive, Zenon
<1> QED
  BY <1>2, <1>3, <1>6, Zenon DEF PiecesInv

LEMMA PiecesWrite ==
    ASSUME TypeOK, PiecesInv, WriteBytes
    PROVE  PiecesInv'
<1>1. SUFFICES ASSUME ~errOccurs PROVE PiecesInv'
  BY Zenon DEF PiecesInv, WriteBytes
<1>2. PICK s \in [1 .. counter -> Pieces],
           start \in [1 .. Len(input) + 1 -> 0 .. counter] :
        /\ Linked(s, counter, newStmt)
        /\ Parts(s, start, file, writing.pieces, input, bf, counter)
  BY <1>1 DEF PiecesInv
<1>3. /\ file' = file \o writing.pieces /\ writing' = NoBuffer
      /\ UNCHANGED <<counter, newStmt, input, bf, errOccurs>>
  BY DEF WriteBytes, buffer, chans
<1>4. writing'.pieces = <<>>
  BY <1>3, NoBufferType
<1>5. file \in Seq(Pieces) /\ writing.pieces \in Seq(Pieces) /\ counter \in Nat
  BY BufferFields DEF TypeOK
<1>6. Parts(s, start, file', <<>>, input, bf, counter)
  BY <1>2, <1>3, <1>5, PartsWrite, Zenon
<1> QED
  BY <1>2, <1>3, <1>4, <1>6, Zenon DEF PiecesInv

LEMMA PiecesNext ==
    ASSUME TypeOK, CtrlInv, IterInv, PiecesInv, SizesInv, [Next]_vars
    PROVE  PiecesInv'
<1>1. CASE Start
  BY <1>1, PiecesStutter DEF Start, iter, chans
<1>2. CASE AddRow
  BY <1>2, PiecesAddRow
<1>3. CASE DecodeFails
  BY <1>3, PiecesStutter DEF DecodeFails, Leave, iter, buffer, chans, pipeVars
<1>4. CASE Flush
  BY <1>4, PiecesSend DEF Flush, iter, pipeVars
<1>5. CASE FlushMeetsError
  BY <1>5, PiecesStutter DEF FlushMeetsError, Leave, iter, buffer, pipeVars
<1>6. CASE FlushMeetsCancel
  BY <1>6, PiecesStutter DEF FlushMeetsCancel, Leave, iter, buffer, chans, pipeVars
<1>7. CASE RowDone
  BY <1>7, PiecesStutter DEF RowDone, iter, buffer, chans, pipeVars
<1>8. CASE SendLast
  <2>1. CASE bfLen > 0
    BY <1>8, <2>1, PiecesSend DEF SendLast, iter, pipeVars
  <2>2. CASE ~(bfLen > 0)
    <3>1. bf = <<>>
      BY <2>2 DEF SizesInv, TypeOK
    <3> QED
      BY <1>8, <2>2, <3>1, PiecesStutter DEF SendLast, iter, pipeVars
  <2> QED
    BY <2>1, <2>2
<1>9. CASE CloseInput
  BY <1>9, PiecesStutter DEF CloseInput, iter, buffer, pipeVars
<1>10. CASE Return
  BY <1>10, PiecesStutter DEF Return, Leave, iter, buffer, pipeVars
<1>11. CASE CancelPipe
  BY <1>11, PiecesStutter DEF CancelPipe, iter, buffer, chans, pipeVars
<1>12. CASE Join
  BY <1>12, PiecesStutter DEF Join, iter, buffer, chans, pipeVars
<1>13. CASE Receive
  BY <1>13, PiecesReceive
<1>14. CASE WriteBytes
  BY <1>14, PiecesWrite
<1>15. CASE WriteBytesFails
  BY <1>15, Zenon DEF WriteBytesFails, PiecesInv
<1>16. CASE Exit
  BY <1>16, PiecesStutter DEF Exit, iter, buffer, chans
<1>17. CASE CancelCtx
  BY <1>17, PiecesStutter DEF CancelCtx, iter, buffer, chans, pipeVars
<1>18. CASE UNCHANGED vars
  BY <1>18, PiecesStutter DEF vars, iter, buffer, chans, pipeVars
<1> QED
  BY <1>1, <1>2, <1>3, <1>4, <1>5, <1>6, <1>7, <1>8, <1>9,
     <1>10, <1>11, <1>12, <1>13, <1>14, <1>15, <1>16, <1>17, <1>18, Zenon
  DEF Next, Producer, Run, Terminated

-----------------------------------------------------------------------------
(* The sizes: every step keeps them.                                       *)

LEMMA SizesInit == Init => SizesInv
<1> SUFFICES ASSUME Init PROVE SizesInv
  OBVIOUS
<1>1. /\ input = <<>> /\ bf = <<>> /\ bfLen = 0 /\ finished = 0 /\ fileLen = 0
      /\ writing.len = 0
  BY NoBufferType DEF Init
<1>2. PICK zero : zero = [k \in 1 .. 1 |-> 0]
  BY Zenon
<1>3. zero \in [1 .. Len(input) + 1 -> Nat]
  BY <1>1, <1>2
<1>4. Sizes(zero, finished + writing.len, input, bfLen, fileLen)
  BY <1>1, <1>2 DEF Sizes
<1> QED
  BY <1>1, <1>3, <1>4 DEF SizesInv

LEMMA SizesStutter ==
    ASSUME SizesInv, UNCHANGED <<errOccurs, finished, writing, input, bf, bfLen, fileLen>>
    PROVE  SizesInv'
  BY DEF SizesInv

\* the buffer and the file grow by the same number
LEMMA SizesAdd ==
    ASSUME TypeOK, SizesInv, NEW n \in Nat, bfLen' = bfLen + n, fileLen' = fileLen + n,
           Len(bf') <= bfLen', UNCHANGED <<errOccurs, finished, writing, input>>
    PROVE  SizesInv'
<1>1. SUFFICES ASSUME ~errOccurs PROVE SizesInv'
  BY DEF SizesInv
<1>2. PICK size \in [1 .. Len(input) + 1 -> Nat] :
        Sizes(size, finished + writing.len, input, bfLen, fileLen)
  BY <1>1 DEF SizesInv
<1>3. bfLen \in Nat /\ Len(input) \in Nat
  BY DEF TypeOK
<1>4. size[Len(input) + 1] \in Nat /\ fileLen = size[Len(input) + 1] + bfLen
  BY <1>2, <1>3 DEF Sizes
<1>5. fileLen + n = size[Len(input) + 1] + (bfLen + n)
  BY <1>3, <1>4
<1>6. Sizes(size, finished + writing.len, input, bfLen + n, fileLen + n)
  BY <1>2, <1>5 DEF Sizes
<1> QED
  BY <1>2, <1>6 DEF SizesInv

LEMMA SizesSent ==
    ASSUME TypeOK, SizesInv, input' = Append(input, Buffer(bf, bfLen)),
           bf' = <<>>, bfLen' = 0, UNCHANGED <<errOccurs, finished, writing, fileLen>>
    PROVE  SizesInv'
<1>1. Len(bf') <= bfLen'
  OBVIOUS
<1>2. SUFFICES ASSUME ~errOccurs PROVE SizesInv'
  BY <1>1 DEF SizesInv
<1>3. PICK size \in [1 .. Len(input) + 1 -> Nat] :
        Sizes(size, finished + writing.len, input, bfLen, fileLen)
  BY <1>2 DEF SizesInv
<1>4. /\ Buffer(bf, bfLen) \in Buffers /\ Buffer(bf, bfLen).len = bfLen
      /\ input \in Seq(Buffers) /\ fileLen \in Nat
  BY BufferType DEF TypeOK
<1>5. \E new \in [1 .. Len(input') + 1 -> Nat] :
         Sizes(new, finished + writing.len, input', 0, fileLen)
  BY <1>3, <1>4, SizesSend, Zenon
<1> QED
  BY <1>1, <1>5 DEF SizesInv

LEMMA SizesReceived ==
    ASSUME TypeOK, CtrlInv, SizesInv, Receive
    PROVE  SizesInv'
<1>1. UNCHANGED <<bf, bfLen, fileLen, errOccurs, finished>>
  BY DEF Receive, buffer
<1>2. SUFFICES ASSUME ~errOccurs PROVE SizesInv'
  BY <1>1 DEF SizesInv
<1>3. PICK size \in [1 .. Len(input) + 1 -> Nat] :
        Sizes(size, finished + writing.len, input, bfLen, fileLen)
  BY <1>2 DEF SizesInv
<1>4. input # <<>> /\ input' = Tail(input) /\ writing' = Head(input)
  BY <1>2 DEF Receive
<1>5. writing.len = 0
  BY NoBufferType DEF Receive, CtrlInv
<1>6. input \in Seq(Buffers) /\ finished \in Nat
  BY DEF TypeOK
<1>7. finished + writing.len = finished
  BY <1>5, <1>6
<1>8. \E new \in [1 .. Len(input') + 1 -> Nat] :
         Sizes(new, finished + writing'.len, input', bfLen, fileLen)
  BY <1>3, <1>4, <1>6, <1>7, SizesReceive
<1> QED
  BY <1>1, <1>8 DEF SizesInv

LEMMA SizesWritten ==
    ASSUME TypeOK, SizesInv, WriteBytes
    PROVE  SizesInv'
<1>1. /\ UNCHANGED <<bf, bfLen, fileLen, errOccurs, input>> /\ writing' = NoBuffer
      /\ finished' = finished + writing.len
  BY DEF WriteBytes, buffer, chans
<1>2. writing.len \in Nat /\ finished \in Nat
  BY BufferFields DEF TypeOK
<1>3. finished' + writing'.len = finished + writing.len
  BY <1>1, <1>2, NoBufferType
<1> QED
  BY <1>1, <1>3 DEF SizesInv

LEMMA SizesNext ==
    ASSUME TypeOK, CtrlInv, SizesInv, [Next]_vars
    PROVE  SizesInv'
<1>1. CASE Start
  <2>1. CASE hasNext
    <3>1. bfLen = 0 /\ fileLen = 0 /\ bf = <<>>
      BY <1>1 DEF Start, CtrlInv
    <3>2. /\ bfLen' = HeaderSize /\ fileLen' = HeaderSize
          /\ UNCHANGED <<bf, errOccurs, finished, writing, input>>
      BY <1>1, <2>1 DEF Start, chans
    <3>3. HeaderSize \in Nat
      BY SizesAssumption
    <3>4. /\ bfLen' = bfLen + HeaderSize /\ fileLen' = fileLen + HeaderSize
          /\ Len(bf') <= bfLen'
      BY <3>1, <3>2, <3>3
    <3> QED
      BY <3>2, <3>3, <3>4, SizesAdd
  <2>2. CASE ~hasNext
    BY <1>1, <2>2, SizesStutter DEF Start, chans
  <2> QED
    BY <2>1, <2>2
<1>2. CASE AddRow
  <2>1. PICK size \in RowSizes :
          LET prefix == IF newStmt /\ ~CSV THEN PrefixSize ELSE 0
          IN  bfLen' = bfLen + prefix + size /\ fileLen' = fileLen + prefix + size
    BY <1>2 DEF AddRow
  <2> DEFINE n == (IF newStmt /\ ~CSV THEN PrefixSize ELSE 0) + size
  <2>2. /\ UNCHANGED <<errOccurs, finished, writing, input>>
        /\ \E p : bf' = Append(bf, p)
    BY <1>2 DEF AddRow, chans, pipeVars
  <2>3. n \in Nat /\ n > 0
    BY SizesAssumption
  <2>4. bfLen \in Nat /\ fileLen \in Nat /\ Len(bf) \in Nat /\ Len(bf) <= bfLen
    BY DEF TypeOK, SizesInv
  <2>5. bfLen' = bfLen + n /\ fileLen' = fileLen + n
    BY <2>1, <2>4, SizesAssumption
  <2>6. Len(bf') = Len(bf) + 1
    BY <2>2 DEF TypeOK
  <2> HIDE DEF n
  <2>7. Len(bf') <= bfLen'
    BY <2>3, <2>4, <2>5, <2>6
  <2> QED
    BY <2>2, <2>3, <2>5, <2>7, SizesAdd
<1>3. CASE DecodeFails
  BY <1>3, SizesStutter DEF DecodeFails, Leave, iter, buffer, chans, pipeVars
<1>4. CASE Flush
  BY <1>4, SizesSent DEF Flush, iter, pipeVars
<1>5. CASE FlushMeetsError
  BY <1>5, SizesStutter DEF FlushMeetsError, Leave, iter, buffer, pipeVars
<1>6. CASE FlushMeetsCancel
  BY <1>6, SizesStutter DEF FlushMeetsCancel, Leave, iter, buffer, chans, pipeVars
<1>7. CASE RowDone
  BY <1>7, SizesStutter DEF RowDone, iter, buffer, chans, pipeVars
<1>8. CASE SendLast
  <2>1. CASE bfLen > 0
    BY <1>8, <2>1, SizesSent DEF SendLast, iter, pipeVars
  <2>2. CASE ~(bfLen > 0)
    <3>1. bf = <<>> /\ bfLen = 0
      BY <2>2 DEF SizesInv, TypeOK
    <3> QED
      BY <1>8, <2>2, <3>1, SizesStutter DEF SendLast, iter, pipeVars
  <2> QED
    BY <2>1, <2>2
<1>9. CASE CloseInput
  BY <1>9, SizesStutter DEF CloseInput, iter, buffer, pipeVars
<1>10. CASE Return
  BY <1>10, SizesStutter DEF Return, Leave, iter, buffer, pipeVars
<1>11. CASE CancelPipe
  BY <1>11, SizesStutter DEF CancelPipe, iter, buffer, chans, pipeVars
<1>12. CASE Join
  BY <1>12, SizesStutter DEF Join, iter, buffer, chans, pipeVars
<1>13. CASE Receive
  BY <1>13, SizesReceived
<1>14. CASE WriteBytes
  BY <1>14, SizesWritten
<1>15. CASE WriteBytesFails
  BY <1>15 DEF WriteBytesFails, SizesInv, buffer
<1>16. CASE Exit
  BY <1>16, SizesStutter DEF Exit, iter, buffer, chans
<1>17. CASE CancelCtx
  BY <1>17, SizesStutter DEF CancelCtx, iter, buffer, chans, pipeVars
<1>18. CASE UNCHANGED vars
  BY <1>18, SizesStutter DEF vars, iter, buffer, chans, pipeVars
<1> QED
  BY <1>1, <1>2, <1>3, <1>4, <1>5, <1>6, <1>7, <1>8, <1>9,
     <1>10, <1>11, <1>12, <1>13, <1>14, <1>15, <1>16, <1>17, <1>18, Zenon
  DEF Next, Producer, Run, Terminated

-----------------------------------------------------------------------------
(* The file.                                                               *)

LEMMA PartsRows ==
    ASSUME NEW c \in Nat, NEW f \in Seq(Pieces), NEW w \in Seq(Pieces), NEW q, Len(q) \in Nat,
           NEW b, NEW s, NEW new, Linked(s, c, new),
           NEW start \in [1 .. Len(q) + 1 -> 0 .. c], Parts(s, start, f, w, q, b, c)
    PROVE  /\ Len(f) + Len(w) <= c
           /\ \A i \in 1 .. Len(w) : w[i].row = Len(f) + i
<1>1. start[1] \in 0 .. c /\ start[1] = Len(f) + Len(w)
  <2>1. start[1] \in 0 .. c
    OBVIOUS
  <2>2. start[1] = Len(f) + Len(w)
    BY DEF Parts
  <2> QED
    BY <2>1, <2>2
<1>2. Len(f) \in Nat /\ Len(w) \in Nat
  OBVIOUS
<1>3. Len(f) + Len(w) <= c
  BY <1>1, <1>2
<1>4. ASSUME NEW i \in 1 .. Len(w) PROVE w[i].row = Len(f) + i
  <2>1. w[i] = s[Len(f) + i]
    BY DEF Parts, Holds
  <2>2. Len(f) + i \in 1 .. c
    BY <1>2, <1>3
  <2> QED
    BY <2>1, <2>2, Zenon DEF Linked
<1> QED
  BY <1>3, <1>4

\* rows are only appended, and no more than there are
LEMMA FileWrite ==
    ASSUME TypeOK, ErrInv, IterInv, PiecesInv, FileInv, WriteBytes \/ WriteBytesFails
    PROVE  /\ Len(file) \in Nat /\ Len(file') \in Nat
           /\ Len(file) <= Len(file') /\ Len(file') <= NRows
           /\ FileInv'
<1> DEFINE w == writing.pieces
<1>1. ~errOccurs
  BY DEF ErrInv, WriteBytes, WriteBytesFails
<1>2. PICK s \in [1 .. counter -> Pieces],
           start \in [1 .. Len(input) + 1 -> 0 .. counter] :
        /\ Linked(s, counter, newStmt)
        /\ Parts(s, start, file, w, input, bf, counter)
  BY <1>1 DEF PiecesInv
<1>3. /\ file \in Seq(Pieces) /\ w \in Seq(Pieces) /\ Len(input) \in Nat
      /\ counter \in Nat /\ counter <= NRows /\ NRows \in Nat
  <2>1. /\ file \in Seq(Pieces) /\ writing \in Buffers /\ input \in Seq(Buffers)
        /\ counter \in Nat
    BY DEF TypeOK
  <2>2. counter <= NRows /\ NRows \in Nat
    BY SizesAssumption DEF IterInv
  <2> QED
    BY <2>1, <2>2, BufferFields
<1>4. Len(file) + Len(w) <= counter /\ \A i \in 1 .. Len(w) : w[i].row = Len(file) + i
  BY <1>2, <1>3, PartsRows, Zenon
<1>5. \E v \in Seq(Pieces) :
         /\ file' = file \o v /\ Len(v) <= Len(w)
         /\ \A i \in 1 .. Len(v) : v[i] = w[i]
  <2>1. CASE WriteBytes
    <3>1. file' = file \o w /\ Len(w) \in Nat
      BY <1>3, <2>1 DEF WriteBytes
    <3>2. w \in Seq(Pieces)
      BY <1>3
    <3> HIDE DEF w
    <3>3. Len(w) <= Len(w)
      BY <3>1
    <3> QED
      BY <3>1, <3>2, <3>3, Zenon
  <2>2. CASE file' = file
    <3>1. file' = file \o <<>> /\ <<>> \in Seq(Pieces) /\ Len(<<>>) = 0
      BY <1>3, <2>2
    <3>2. Len(w) \in Nat
      BY <1>3
    <3> HIDE DEF w
    <3>3. /\ <<>> \in Seq(Pieces) /\ file' = file \o <<>> /\ Len(<<>>) <= Len(w)
          /\ \A i \in 1 .. Len(<<>>) : <<>>[i] = w[i]
      BY <3>1, <3>2
    <3> QED
      BY <3>3, Zenon
  <2>3. ASSUME NEW n \in 0 .. Len(w), file' = file \o SubSeq(w, 1, n)
        PROVE  \E v \in Seq(Pieces) :
                  /\ file' = file \o v /\ Len(v) <= Len(w)
                  /\ \A i \in 1 .. Len(v) : v[i] = w[i]
    <3>1. /\ SubSeq(w, 1, n) \in Seq(Pieces) /\ Len(SubSeq(w, 1, n)) = n
          /\ \A i \in 1 .. n : SubSeq(w, 1, n)[i] = w[i]
      BY <1>3
    <3> HIDE DEF w
    <3>2. /\ file' = file \o SubSeq(w, 1, n) /\ Len(SubSeq(w, 1, n)) <= Len(w)
          /\ \A i \in 1 .. Len(SubSeq(w, 1, n)) : SubSeq(w, 1, n)[i] = w[i]
      BY <2>3, <3>1
    <3> QED
      BY <3>1, <3>2, Zenon
  <2> QED
    BY <2>1, <2>2, <2>3, Zenon DEF WriteBytesFails
<1>6. PICK v \in Seq(Pieces) :
         /\ file' = file \o v /\ Len(v) <= Len(w)
         /\ \A i \in 1 .. Len(v) : v[i] = w[i]
  BY <1>5, Zenon
<1>7. /\ Len(file) \in Nat /\ Len(v) \in Nat /\ Len(w) \in Nat
      /\ Len(file') = Len(file) + Len(v)
      /\ \A i \in 1 .. Len(file) : file'[i] = file[i]
      /\ \A i \in 1 .. Len(v) : file'[Len(file) + i] = v[i]
  BY <1>3, <1>6
<1> HIDE DEF w
<1>8. ASSUME NEW i \in 1 .. Len(file') PROVE file'[i].row = i
  <2>1. CASE i <= Len(file)
    BY <1>7, <2>1 DEF FileInv
  <2>2. CASE i > Len(file)
    <3>1. PICK j \in 1 .. Len(v) : i = Len(file) + j
      <4>1. i - Len(file) \in 1 .. Len(v) /\ i = Len(file) + (i - Len(file))
        BY <1>7, <2>2
      <4> QED
        BY <4>1, Zenon
    <3>2. j \in 1 .. Len(w)
      BY <1>6, <1>7
    <3> QED
      BY <1>4, <1>6, <1>7, <3>1, <3>2, Zenon
  <2> QED
    BY <1>7, <2>1, <2>2
<1>9. Len(file) <= Len(file') /\ Len(file') <= NRows /\ Len(file') \in Nat
  BY <1>3, <1>4, <1>6, <1>7
<1> QED
  BY <1>7, <1>8, <1>9 DEF FileInv

LEMMA FileNext ==
    ASSUME TypeOK, ErrInv, IterInv, PiecesInv, FileInv, [Next]_vars
    PROVE  FileInv'
<1>1. CASE Start
  BY <1>1 DEF Start, iter, chans, FileInv
<1>2. CASE AddRow
  BY <1>2, Zenon DEF AddRow, iter, chans, pipeVars, FileInv
<1>3. CASE DecodeFails
  BY <1>3 DEF DecodeFails, Leave, iter, buffer, chans, pipeVars, FileInv
<1>4. CASE Flush
  BY <1>4 DEF Flush, iter, pipeVars, FileInv
<1>5. CASE FlushMeetsError
  BY <1>5 DEF FlushMeetsError, Leave, iter, buffer, pipeVars, FileInv
<1>6. CASE FlushMeetsCancel
  BY <1>6 DEF FlushMeetsCancel, Leave, iter, buffer, chans, pipeVars, FileInv
<1>7. CASE RowDone
  BY <1>7 DEF RowDone, iter, buffer, chans, pipeVars, FileInv
<1>8. CASE SendLast
  BY <1>8 DEF SendLast, iter, pipeVars, FileInv
<1>9. CASE CloseInput
  BY <1>9 DEF CloseInput, iter, buffer, pipeVars, FileInv
<1>10. CASE Return
  BY <1>10 DEF Return, Leave, iter, buffer, pipeVars, FileInv
<1>11. CASE CancelPipe
  BY <1>11 DEF CancelPipe, iter, buffer, chans, pipeVars, FileInv
<1>12. CASE Join
  BY <1>12 DEF Join, iter, buffer, chans, pipeVars, FileInv
<1>13. CASE Receive
  BY <1>13 DEF Receive, iter, buffer, FileInv
<1>14. CASE WriteBytes
  BY <1>14, FileWrite
<1>15. CASE WriteBytesFails
  BY <1>15, FileWrite
<1>16. CASE Exit
  BY <1>16 DEF Exit, iter, buffer, chans, FileInv
<1>17. CASE CancelCtx
  BY <1>17 DEF CancelCtx, iter, buffer, chans, pipeVars, FileInv
<1>18. CASE UNCHANGED vars
  BY <1>18 DEF vars, iter, buffer, chans, pipeVars, FileInv
<1> QED
  BY <1>1, <1>2, <1>3, <1>4, <1>5, <1>6, <1>7, <1>8, <1>9,
     <1>10, <1>11, <1>12, <1>13, <1>14, <1>15, <1>16, <1>17, <1>18, Zenon
  DEF Next, Producer, Run, Terminated

-----------------------------------------------------------------------------
(* The end of the call.                                                    *)

\* all pieces are in the file when the pipe has emptied the channel
LEMMA PartsAllWritten ==
    ASSUME NEW c \in Nat, NEW f \in Seq(Pieces), NEW s, NEW start \in [1 .. 1 -> 0 .. c],
           Parts(s, start, f, <<>>, <<>>, <<>>, c)
    PROVE  Len(f) = c /\ \A i \in 1 .. Len(f) : f[i] = s[i]
<1>1. Holds(s, 0, f)
  BY DEF Parts
<1>2. start[1] = Len(f) + 0 /\ c = start[0 + 1] + 0
  BY DEF Parts
<1>3. Len(f) \in Nat
  OBVIOUS
<1>4. Len(f) = c
  BY <1>2, <1>3
<1>5. ASSUME NEW i \in 1 .. Len(f) PROVE f[i] = s[i]
  <2>1. f[i] = s[0 + i] /\ 0 + i = i
    BY <1>1, <1>3 DEF Holds
  <2> QED
    BY <2>1
<1> QED
  BY <1>4, <1>5

LEMMA ReturnOk ==
    ASSUME TypeOK, CtrlInv, ErrInv, IterInv, PiecesInv, SizesInv, Return, result' = "ok"
    PROVE  OkInv'
<1>1. /\ pc = "closed" /\ pipe = "exited" /\ ~iterErr /\ ~errCh
      /\ UNCHANGED <<conf, file, finished, fileLen>>
  BY DEF Return, Leave, buffer, pipeVars
<1>2. ~errOccurs /\ input = <<>> /\ bf = <<>> /\ bfLen = 0 /\ writing = NoBuffer
  BY <1>1 DEF CtrlInv, ErrInv, Active
<1>3. writing.pieces = <<>> /\ writing.len = 0
  BY <1>2, NoBufferType
<1>4. /\ counter \in Nat /\ file \in Seq(Pieces) /\ finished \in Nat /\ fileLen \in Nat
      /\ counter > 0
  BY <1>1 DEF TypeOK, IterInv
<1>5. Len(input) + 1 = 1
  BY <1>2
<1>6. PICK s \in [1 .. counter -> Pieces] :
        /\ Linked(s, counter, newStmt)
        /\ \E start \in [1 .. 1 -> 0 .. counter] :
              Parts(s, start, file, <<>>, <<>>, <<>>, counter)
  BY <1>2, <1>3, <1>5, Zenon DEF PiecesInv
<1>7. Len(file) = counter /\ \A i \in 1 .. Len(file) : file[i] = s[i]
  <2>1. PICK start \in [1 .. 1 -> 0 .. counter] :
          Parts(s, start, file, <<>>, <<>>, <<>>, counter)
    BY <1>6
  <2>2. counter \in Nat /\ file \in Seq(Pieces)
    BY <1>4
  <2> QED
    BY <2>1, <2>2, PartsAllWritten, ZenonT(30)
<1>8. Len(file) = NRows \/ (FileSize # UnspecifiedSize /\ file # <<>>)
  <2>1. CASE ShouldSwitchFile
    BY <1>4, <1>7, <2>1 DEF ShouldSwitchFile
  <2>2. CASE ~hasNext
    <3>1. row = NRows + 1 /\ row = counter + 1
      BY <1>1, <2>2 DEF IterInv, Active
    <3> QED
      BY <1>4, <1>7, <3>1, SizesAssumption
  <2> QED
    BY <1>1, <2>1, <2>2 DEF IterInv
<1>9. finished = fileLen
  <2>1. PICK size \in [1 .. 1 -> Nat] : Sizes(size, finished + 0, <<>>, 0, fileLen)
    BY <1>2, <1>3, <1>5 DEF SizesInv
  <2>2. size[1] = finished + 0 /\ fileLen = size[0 + 1] + 0
    BY <2>1 DEF Sizes
  <2> QED
    BY <1>4, <2>2
<1>10. ASSUME ~CSV
       PROVE  /\ Head(file).first /\ file[Len(file)].last
              /\ \A i \in 1 .. Len(file) - 1 : file[i + 1].first = file[i].last
  <2>1. newStmt
    BY <1>1, <1>10 DEF IterInv
  <2>2. /\ s[1].first = TRUE /\ newStmt = s[counter].last
        /\ \A i \in 2 .. counter : s[i].first = s[i - 1].last
    BY <1>4, <1>6 DEF Linked
  <2>3. Head(file) = s[1] /\ file[Len(file)] = s[counter]
    BY <1>4, <1>7
  <2>4. Head(file).first /\ file[Len(file)].last
    BY <2>1, <2>2, <2>3, Zenon
  <2>5. ASSUME NEW i \in 1 .. Len(file) - 1 PROVE file[i + 1].first = file[i].last
    <3>1. i + 1 \in 2 .. counter /\ (i + 1) - 1 = i
      BY <1>4, <1>7
    <3>2. file[i + 1] = s[i + 1] /\ file[i] = s[i]
      BY <1>4, <1>7
    <3> QED
      BY <2>2, <3>1, <3>2
  <2> QED
    BY <2>4, <2>5
<1>11. FileSize' = FileSize /\ CSV' = CSV
  BY <1>1 DEF FileSize, CSV
<1> QED
  BY <1>1, <1>8, <1>9, <1>10, <1>11 DEF OkInv

\* a call that finds no rows creates no file
LEMMA StartOk ==
    ASSUME TypeOK, CtrlInv, IterInv, Start, result' = "ok"
    PROVE  OkInv'
<1>1. /\ pc = "start" /\ ~hasNext /\ ~iterErr
      /\ UNCHANGED <<conf, file, finished, fileLen>>
  <2>1. pc = "start" /\ UNCHANGED <<conf, file, finished>>
    BY DEF Start
  <2>2. result = "none"
    BY <2>1 DEF CtrlInv, Active
  <2> QED
    BY <2>1, <2>2 DEF Start
<1>2. file = <<>> /\ finished = 0 /\ fileLen = 0 /\ counter = 0
  BY <1>1 DEF CtrlInv
<1>3. row = NRows + 1 /\ row = counter + 1
  BY <1>1 DEF IterInv, Active
<1>4. Len(file) = NRows
  BY <1>2, <1>3, SizesAssumption
<1> QED
  BY <1>1, <1>2, <1>4 DEF OkInv

LEMMA OkStutter ==
    ASSUME OkInv, UNCHANGED <<conf, result, file, finished, fileLen>>
    PROVE  OkInv'
  BY DEF OkInv, FileSize, CSV

\* once "ok" is decided, the pipe has ended and nothing changes the file
LEMMA OkNext ==
    ASSUME Inv, [Next]_vars
    PROVE  OkInv'
<1> USE DEF Inv
<1>1. CASE result = "ok"
  <2>1. pc \notin Active /\ pipe \in {"none", "exited"}
    BY <1>1 DEF CtrlInv
  <2>2. UNCHANGED <<conf, result, file, finished, fileLen>>
    BY <2>1, Zenon
       DEF Next, Producer, Run, Terminated, Active, Start, AddRow, DecodeFails, Flush,
       FlushMeetsError, FlushMeetsCancel, RowDone, SendLast, CloseInput, Return, CancelPipe,
       Join, Receive, WriteBytes, WriteBytesFails, Exit, CancelCtx, vars, buffer, pipeVars
  <2> QED
    BY <2>2, OkStutter
<1>2. CASE result # "ok" /\ result' = "ok"
  <2>1. Start \/ Return
    BY <1>2, Zenon DEF Next, Producer, Run, Terminated, AddRow, DecodeFails, Flush,
       FlushMeetsError, FlushMeetsCancel, RowDone, SendLast, CloseInput, CancelPipe,
       Join, Receive, WriteBytes, WriteBytesFails, Exit, CancelCtx, vars, Leave
  <2> QED
    BY <1>2, <2>1, StartOk, ReturnOk
<1>3. CASE result' # "ok"
  BY <1>3 DEF OkInv
<1> QED
  BY <1>1, <1>2, <1>3

LEMMA InvInit == Init => Inv
<1> SUFFICES ASSUME Init PROVE Inv
  OBVIOUS
<1>1. ErrInv /\ FileInv /\ OkInv
  BY DEF Init, ErrInv, FileInv, OkInv
<1> QED
  BY <1>1, TypeInit, CtrlInit, IterInit, PiecesInit, SizesInit DEF Inv

LEMMA InvNext ==
    ASSUME Inv, [Next]_vars
    PROVE  Inv'
<1>1. TypeOK /\ CtrlInv /\ ErrInv /\ IterInv /\ PiecesInv /\ SizesInv /\ FileInv
  BY DEF Inv
<1> QED
  BY <1>1, TypeNext, CtrlNext, ErrNext, IterInvNext, PiecesNext, SizesNext, FileNext, OkNext
  DEF Inv

-----------------------------------------------------------------------------
(* The theorems.                                                           *)

\* Inv, which holds in every state, is what the theorems below rest on.
THEOREM CallInvariant == Spec => []Inv
<1>1. Init => Inv
  BY InvInit
<1>2. Inv /\ [Next]_vars => Inv'
  BY InvNext
<1> QED
  BY <1>1, <1>2, PTL DEF Spec

\* A write that fails makes the call return an error, whether the error is met while the
\* writer waits for the channel or after the loop (writer_util.go:223, 262).
THEOREM FailedWritesAreReported == Spec => []WriteErrorReported
<1>1. Inv => WriteErrorReported
  BY DEF Inv, ErrInv, WriteErrorReported
<1> QED
  BY <1>1, CallInvariant, PTL

\* The file of a call without error is a sequence of complete statements, wherever the
\* limits on files and statements fall (writer_util.go:190-242).
THEOREM FilesHoldStatements == Spec => []StatementsComplete
<1>1. Inv => StatementsComplete
  BY DEF Inv, OkInv, StatementsComplete
<1> QED
  BY <1>1, CallInvariant, PTL

\* What the limit on the file is compared with is what was written (writer_util.go:80, 207).
THEOREM SizesAgree == Spec => []SizeAccounted
<1>1. Inv => SizeAccounted
  BY DEF Inv, OkInv, SizeAccounted
<1> QED
  BY <1>1, CallInvariant, PTL

\* the rows of the file, as RowSink sees them
LEMMA Content ==
    ASSUME FileInv
    PROVE  [i \in 1 .. Len(file) |-> file[i].row] = [i \in 1 .. Len(file) |-> i]
  BY DEF FileInv

LEMMA SinkInit == Init => Sink!Init
<1> SUFFICES ASSUME Init PROVE Sink!Init
  OBVIOUS
<1>1. file = <<>> /\ pc = "start"
  BY DEF Init
<1>2. [i \in 1 .. Len(file) |-> file[i].row] = <<>>
  BY <1>1
<1>3. (FileSize # UnspecifiedSize) \in BOOLEAN
  OBVIOUS
<1> QED
  BY <1>1, <1>2, <1>3 DEF Sink!Init

LEMMA SinkNext ==
    ASSUME Inv, Inv', [Next]_vars
    PROVE  [Sink!Next]_<<FileSize # UnspecifiedSize, [i \in 1 .. Len(file) |-> file[i].row],
                         IF pc = "done" THEN result ELSE "none">>
<1> DEFINE limited == FileSize # UnspecifiedSize
           content == [i \in 1 .. Len(file) |-> file[i].row]
           outcome == IF pc = "done" THEN result ELSE "none"
<1>1. conf' = conf
  BY Zenon DEF Next, Producer, Run, Terminated, Start, AddRow, DecodeFails, Flush,
     FlushMeetsError, FlushMeetsCancel, RowDone, SendLast, CloseInput, Return, CancelPipe,
     Join, Receive, WriteBytes, WriteBytesFails, Exit, CancelCtx, vars
<1>2. limited' = limited
  BY <1>1 DEF FileSize
<1>3. CASE WriteBytes \/ WriteBytesFails
  <2>1. /\ Len(file) \in Nat /\ Len(file') \in Nat
        /\ Len(file) <= Len(file') /\ Len(file') <= NRows
    BY <1>3, FileWrite DEF Inv
  <2>2. content = [i \in 1 .. Len(file) |-> i] /\ content' = [i \in 1 .. Len(file') |-> i]
    BY Content DEF Inv, FileInv
  <2>3. pipe = "write" /\ UNCHANGED <<pc, result>>
    BY <1>3 DEF WriteBytes, WriteBytesFails
  <2>4. pc # "done"
    BY <2>3 DEF Inv, CtrlInv
  <2>5. outcome = "none" /\ outcome' = "none"
    BY <2>3, <2>4
  <2>6. CASE Len(file') = Len(file)
    <3>1. content' = content
      BY <2>2, <2>6
    <3> QED
      BY <1>2, <2>5, <3>1, Zenon
  <2>7. CASE Len(file') # Len(file)
    <3>1. Len(content) = Len(file)
      BY <2>1, <2>2
    <3>2. Len(file') \in Len(content) + 1 .. NRows
      BY <2>1, <2>7, <3>1, SizesAssumption
    <3>3. content' = [i \in 1 .. Len(file') |-> IF i <= Len(content) THEN content[i] ELSE i]
      BY <2>1, <2>2, <3>1
    <3>4. Sink!Write
      BY <1>2, <2>5, <3>2, <3>3, Zenon DEF Sink!Write
    <3> QED
      BY <3>4 DEF Sink!Next
  <2> QED
    BY <2>6, <2>7
<1>4. CASE pc' = "done" /\ pc # "done" /\ file' = file
  <2>1. content' = content /\ outcome = "none" /\ outcome' = result'
    BY <1>4
  <2>2. result' \in {"ok", "err"}
    BY <1>4, Zenon DEF Inv, CtrlInv, TypeOK, Active
  <2>3. CASE result' = "err"
    <3>1. Sink!Fail
      BY <1>2, <2>1, <2>3 DEF Sink!Fail
    <3> QED
      BY <3>1 DEF Sink!Next
  <2>4. CASE result' = "ok"
    <3>1. Len(file) = NRows \/ (limited /\ file # <<>>)
      BY <1>1, <1>4, <2>4, Zenon DEF Inv, OkInv, FileSize
    <3>2. file \in Seq(Pieces)
      BY Zenon DEF Inv, TypeOK
    <3>3. Len(file) \in Nat /\ (file # <<>> => Len(file) # 0)
      BY <3>2
    <3>4. Len(content) = Len(file)
      BY <3>3
    <3>5. Len(content) # 0 => content # <<>>
      OBVIOUS
    <3>6. Sink!Succeed
      BY <1>2, <2>1, <2>4, <3>1, <3>3, <3>4, <3>5 DEF Sink!Succeed
    <3> QED
      BY <3>6 DEF Sink!Next
  <2> QED
    BY <2>2, <2>3, <2>4, Zenon
<1>5. CASE file' = file /\ ((pc' # "done" /\ pc # "done") \/ UNCHANGED <<pc, result>>)
  <2>1. content' = content /\ outcome' = outcome
    BY <1>5
  <2> QED
    BY <1>2, <2>1
<1>6. \/ WriteBytes \/ WriteBytesFails
      \/ pc' = "done" /\ pc # "done" /\ file' = file
      \/ file' = file /\ ((pc' # "done" /\ pc # "done") \/ UNCHANGED <<pc, result>>)
  BY Zenon DEF Next, Producer, Run, Terminated, Start, AddRow, DecodeFails, Flush,
     FlushMeetsError, FlushMeetsCancel, RowDone, SendLast, CloseInput, Return, CancelPipe,
     Join, Receive, Exit, CancelCtx, vars, Leave, pipeVars
<1> QED
  BY <1>3, <1>4, <1>5, <1>6, Zenon

\* WriteInsert, with its goroutine, its channels and its limits, implements RowSink: the
\* file always holds the first rows in their order and each once, it does not change after
\* the call has returned, and without error it holds what was asked for
\* (writer_util.go:137-263, 45-103).
THEOREM CallImplementsRowSink == Spec => ImplementsRowSink
<1>1. Init => Sink!Init
  BY SinkInit
<1>2. Inv /\ Inv' /\ [Next]_vars
        => [Sink!Next]_<<FileSize # UnspecifiedSize,
                         [i \in 1 .. Len(file) |-> file[i].row],
                         IF pc = "done" THEN result ELSE "none">>
  BY SinkNext
<1> QED
  BY <1>1, <1>2, CallInvariant, PTL DEF Spec, ImplementsRowSink, Sink!Spec

-----------------------------------------------------------------------------
(* The two goroutines never wait for each other.                           *)

\* the guards of Producer: what WriteInsert waits for at each of its steps
ProducerReady ==
    /\ pc # "done"
    /\ pc = "rows" => hasNext
    /\ pc = "flush" => Len(input) < Cap \/ errCh \/ cancelled
    /\ pc = "last" => bfLen = 0 \/ Len(input) < Cap
    /\ pc \in {"closed", "join"} => pipe = "exited"

\* the guards of Run: one error fits into errCh
RunReady ==
    \/ pipe = "select" /\ (input # <<>> \/ closedIn \/ ctxDone)
    \/ pipe = "write" /\ (opened # "failed" \/ ~errCh)

NobodyStuck ==
    /\ pc # "done" => ProducerReady \/ RunReady
    /\ pc = "done" => pipe \in {"none", "exited"}

\* what the two goroutines wait for is on its way
WaitInv ==
    /\ pc = "rows" => hasNext
    /\ pc = "closed" => closedIn
    /\ pc = "join" => ctxDone
    /\ errCh \/ opened = "failed" => errOccurs

LEMMA WaitInit == Init => WaitInv
  BY DEF Init, WaitInv

LEMMA WaitNext ==
    ASSUME TypeOK, WaitInv, [Next]_vars
    PROVE  WaitInv'
<1>1. CASE Start
  BY <1>1, Zenon DEF Start, iter, chans, WaitInv, TypeOK
<1>2. CASE AddRow
  BY <1>2, Zenon DEF AddRow, iter, chans, pipeVars, WaitInv, TypeOK
<1>3. CASE DecodeFails
  BY <1>3, Zenon DEF DecodeFails, Leave, iter, buffer, chans, pipeVars, WaitInv, TypeOK
<1>4. CASE Flush
  BY <1>4, Zenon DEF Flush, iter, pipeVars, WaitInv, TypeOK
<1>5. CASE FlushMeetsError
  BY <1>5, Zenon DEF FlushMeetsError, Leave, iter, buffer, pipeVars, WaitInv, TypeOK
<1>6. CASE FlushMeetsCancel
  BY <1>6, Zenon DEF FlushMeetsCancel, Leave, iter, buffer, chans, pipeVars, WaitInv, TypeOK
<1>7. CASE RowDone
  BY <1>7, Zenon DEF RowDone, iter, buffer, chans, pipeVars, WaitInv, TypeOK
<1>8. CASE SendLast
  BY <1>8, Zenon DEF SendLast, iter, pipeVars, WaitInv, TypeOK
<1>9. CASE CloseInput
  BY <1>9, Zenon DEF CloseInput, iter, buffer, pipeVars, WaitInv, TypeOK
<1>10. CASE Return
  BY <1>10, Zenon DEF Return, Leave, iter, buffer, pipeVars, WaitInv, TypeOK
<1>11. CASE CancelPipe
  BY <1>11, Zenon DEF CancelPipe, iter, buffer, chans, pipeVars, WaitInv, TypeOK
<1>12. CASE Join
  BY <1>12, Zenon DEF Join, iter, buffer, chans, pipeVars, WaitInv, TypeOK
<1>13. CASE Receive
  BY <1>13, Zenon DEF Receive, iter, buffer, WaitInv, TypeOK
<1>14. CASE WriteBytes
  BY <1>14, Zenon DEF WriteBytes, iter, buffer, chans, WaitInv, TypeOK
<1>15. CASE WriteBytesFails
  BY <1>15, Zenon DEF WriteBytesFails, iter, buffer, WaitInv, TypeOK
<1>16. CASE Exit
  BY <1>16, Zenon DEF Exit, iter, buffer, chans, WaitInv, TypeOK
<1>17. CASE CancelCtx
  BY <1>17, Zenon DEF CancelCtx, iter, buffer, chans, pipeVars, WaitInv, TypeOK
<1>18. CASE UNCHANGED vars
  BY <1>18, Zenon DEF vars, iter, buffer, chans, pipeVars, WaitInv, TypeOK
<1> QED
  BY <1>1, <1>2, <1>3, <1>4, <1>5, <1>6, <1>7, <1>8, <1>9,
     <1>10, <1>11, <1>12, <1>13, <1>14, <1>15, <1>16, <1>17, <1>18, Zenon
  DEF Next, Producer, Run, Terminated

LEMMA WaitImplies ==
    ASSUME Inv, WaitInv
    PROVE  NobodyStuck
<1>1. /\ TypeOK /\ CtrlInv /\ ErrInv
  BY DEF Inv
<1>2. pc = "done" => pipe \in {"none", "exited"}
  BY <1>1 DEF CtrlInv
<1>3. ASSUME pc # "done", ~RunReady PROVE ProducerReady
  <2>1. pipe # "write"
    BY <1>1, <1>3 DEF RunReady, WaitInv, ErrInv
  <2>2. pc # "start" => pipe \in {"select", "exited"}
    BY <1>1, <1>3, <2>1 DEF CtrlInv, TypeOK
  <2>3. pc \in {"flush", "last"} => input = <<>>
    BY <1>1, <1>3, <2>2 DEF CtrlInv, RunReady
  <2>4. pc \in {"flush", "last"} => Len(input) < Cap
    BY <2>3, CapAssumption
  <2>5. pc \in {"closed", "join"} => pipe = "exited"
    BY <1>1, <1>3, <2>2 DEF WaitInv, RunReady
  <2> QED BY <1>3, <2>4, <2>5 DEF ProducerReady, WaitInv
<1> QED BY <1>2, <1>3 DEF NobodyStuck

\* Until WriteInsert has returned, it or the goroutine of Run can take a step, and then
\* that goroutine is gone: the last buffer, sent without a select, and the error, sent to
\* a channel that holds one, never wait for a receiver that is not there; Run has a context
\* of its own for that (writer_util.go:62-92, 150, 219-251).
THEOREM CallNeverStuck == Spec => []NobodyStuck
<1>1. Init => WaitInv
  BY WaitInit
<1>2. Inv /\ WaitInv /\ [Next]_vars => WaitInv'
  BY WaitNext DEF Inv
<1>3. Inv /\ WaitInv => NobodyStuck
  BY WaitImplies
<1> QED
  BY <1>1, <1>2, <1>3, CallInvariant, PTL DEF Spec
=============================================================================
