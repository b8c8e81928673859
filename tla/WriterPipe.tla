----------------------------- MODULE WriterPipe -----------------------------
(***************************************************************************)
(* One call of WriteInsert or WriteInsertInCsv: the writer reads rows from *)
(* the iterator into a buffer and hands full buffers over the channel      *)
(* `input' to the goroutine of writerPipe.Run, which writes them to a file *)
(* that is created by the first write.  The call also ends when the file   *)
(* has reached its size, when the dump is cancelled and when a row cannot  *)
(* be read or a buffer cannot be written.                                  *)
(*                                                                         *)
(* A piece of a buffer is a row with what is written around it: `first' if *)
(* the prefix of an INSERT statement precedes it, `last' if it is followed *)
(* by ";" and not by ",".                                                  *)
(***************************************************************************)
EXTENDS Integers, Sequences

CONSTANTS
    NRows,          \* rows the query selects
    RowSizes,       \* sizes of a row in a buffer, with its separator
    HeaderSize,     \* size of the special comments, or of the CSV header
    PrefixSize,     \* size of the prefix of an INSERT statement
    LengthLimit,    \* lengthLimit: size of a full buffer
    Cap,            \* capacity of `input'
    Configs         \* the configurations considered

UnspecifiedSize == 0

ASSUME SizesAssumption ==
    /\ NRows \in Nat
    /\ RowSizes \subseteq Nat \ {0}
    /\ HeaderSize \in Nat /\ PrefixSize \in Nat /\ LengthLimit \in Nat
ASSUME CapAssumption == Cap \in Nat \ {0}
ASSUME ConfigsAssumption ==
    Configs \subseteq [csv : BOOLEAN, fileSize : Nat, statementSize : Nat]

VARIABLES
    conf,      \* the configuration of the dump
    pc,        \* where WriteInsert is
    result,    \* what it returns: "none" so far, "ok" or "err"
    row,       \* the iterator's current row
    hasNext,   \* fileRowIter.HasNext()
    iterErr,   \* fileRowIter.Error() is not nil
    bf,        \* the buffer being filled
    bfLen,     \* its size
    newStmt,   \* the next row starts a statement
    counter,   \* rows written to buffers
    fileLen,   \* wp.currentFileSize
    stmtLen,   \* wp.currentStatementSize
    cancelled, \* pCtx is done
    input,     \* wp.input: buffers with their sizes
    closedIn,  \* wp.input is closed
    errCh,     \* wp.errCh holds an error
    pipe,      \* where writerPipe.Run is
    ctxDone,   \* its context is cancelled
    writing,   \* the buffer it writes
    errOccurs, \* a write has failed
    opened,    \* the file: "no", "open" or "failed"
    file,      \* what it holds
    finished   \* wp.finishedFileSize

iter == <<row, hasNext, iterErr>>
buffer == <<bf, bfLen, newStmt, counter, fileLen, stmtLen>>
chans == <<input, closedIn, errCh>>
pipeVars == <<pipe, writing, errOccurs, opened, file, finished>>
vars == <<conf, pc, result, iter, buffer, cancelled, chans, pipeVars, ctxDone>>

-----------------------------------------------------------------------------
\* WriteInsertInCsv, not WriteInsert
CSV == conf.csv
\* limits, UnspecifiedSize for none
FileSize == conf.fileSize
StatementSize == conf.statementSize

Buffer(pieces, len) == [pieces |-> pieces, len |-> len]
NoBuffer == Buffer(<<>>, 0)

Init ==
    /\ conf \in Configs
    /\ pc = "start"
    /\ result = "none"
    /\ row = 1
    /\ \/ hasNext = (NRows > 0) /\ iterErr = FALSE
       \/ hasNext = FALSE /\ iterErr = TRUE
    /\ bf = <<>> /\ bfLen = 0 /\ newStmt = TRUE /\ counter = 0
    /\ fileLen = 0 /\ stmtLen = 0
    /\ cancelled = FALSE
    /\ input = <<>> /\ closedIn = FALSE /\ errCh = FALSE
    /\ pipe = "none" /\ ctxDone = FALSE /\ writing = NoBuffer /\ errOccurs = FALSE
    /\ opened = "no" /\ file = <<>> /\ finished = 0

-----------------------------------------------------------------------------
(* Helpers of WriteInsert.                                                 *)

\* return: the deferred function cancels the pipe and waits for it
Leave(r) == pc' = "cancel" /\ result' = r

ShouldSwitchFile == FileSize # UnspecifiedSize /\ fileLen >= FileSize

\* (a faulty variant, for a mutation run) the statement goes on although the file is
\* switched
ShouldSwitchStatementBySize ==
    StatementSize # UnspecifiedSize /\ stmtLen >= StatementSize

ShouldSwitchStatement ==
    \/ ShouldSwitchFile
    \/ ~CSV /\ StatementSize # UnspecifiedSize /\ stmtLen >= StatementSize

\* fileRowIter.Next(): a row, the end, or a connection that fails meanwhile
IterNext ==
    \/ /\ row' = row + 1
       /\ hasNext' = (row < NRows)
       /\ UNCHANGED iterErr
    \/ /\ hasNext' = FALSE
       /\ iterErr' = TRUE
       /\ UNCHANGED row

-----------------------------------------------------------------------------
(* Faulty variants of the definitions below, for the mutation runs.        *)

\* only the iterator's error is returned
ReturnIterError ==
    /\ pc = "closed"
    /\ pipe = "exited"
    /\ Leave(IF iterErr THEN "err" ELSE "ok")
    /\ UNCHANGED <<conf, iter, buffer, cancelled, chans, pipeVars, ctxDone>>

\* Run does not empty the channel after a failed write
ReceiveUnlessError ==
    /\ pipe = "select"
    /\ input # <<>>
    /\ IF errOccurs
         THEN UNCHANGED <<input, pipe, writing>>
         ELSE input' = Tail(input) /\ pipe' = "write" /\ writing' = Head(input)
    /\ UNCHANGED <<conf, pc, result, iter, buffer, cancelled, closedIn, errCh, ctxDone,
                   errOccurs, opened, file, finished>>

\* the file is created anew when a write fails
WriteBytesFailsAnew ==
    /\ pipe = "write"
    /\ opened' = "open" /\ file' = <<>>
    /\ finished' = finished + writing.len
    /\ ~errCh /\ errCh' = TRUE
    /\ errOccurs' = TRUE
    /\ pipe' = "select" /\ writing' = NoBuffer
    /\ UNCHANGED <<conf, pc, result, iter, buffer, cancelled, input, closedIn, ctxDone>>

\* the header does not count for the size of the file
StartUncounted ==
    /\ pc = "start"
    /\ \/ /\ ~hasNext
          /\ pc' = "done" /\ result' = (IF iterErr THEN "err" ELSE "ok")
          /\ UNCHANGED <<bfLen, pipe>>
       \/ /\ hasNext
          /\ pc' = "rows"
          /\ bfLen' = HeaderSize
          /\ pipe' = "select"
          /\ UNCHANGED result
    /\ UNCHANGED <<conf, iter, bf, newStmt, counter, fileLen, stmtLen, cancelled, chans,
                   writing, errOccurs, opened, file, finished, ctxDone>>

-----------------------------------------------------------------------------
(* WriteInsert.                                                            *)

\* No rows: no pipe and no file.  Otherwise the pipe is started and the header is put
\* into the buffer.
Start ==
    /\ pc = "start"
    /\ \/ /\ ~hasNext
          /\ pc' = "done" /\ result' = (IF iterErr THEN "err" ELSE "ok")
          /\ UNCHANGED <<bfLen, fileLen, pipe>>
       \/ /\ hasNext
          /\ pc' = "rows"
          /\ bfLen' = HeaderSize /\ fileLen' = HeaderSize
          /\ pipe' = "select"
          /\ UNCHANGED result
    /\ UNCHANGED <<conf, iter, bf, newStmt, counter, stmtLen, cancelled, chans, writing,
                   errOccurs, opened, file, finished, ctxDone>>

\* One row is put into the buffer, with the prefix of a new statement before it.  SQL:
\* the iterator moves on before the row gets its "," or ";".
AddRow ==
    /\ pc = "rows"
    /\ hasNext
    /\ UNCHANGED conf
    /\ \E size \in RowSizes :
         LET prefix == IF newStmt /\ ~CSV THEN PrefixSize ELSE 0
         IN  /\ counter' = counter + 1
             /\ bfLen' = bfLen + prefix + size
             /\ fileLen' = fileLen + prefix + size
             /\ stmtLen' = (IF CSV THEN 0
                           ELSE (IF newStmt THEN 0 ELSE stmtLen) + prefix + size)
    /\ IF CSV THEN UNCHANGED iter ELSE IterNext
    /\ newStmt' = (ShouldSwitchStatement' \/ (~CSV /\ ~hasNext'))
    /\ bf' = Append(bf, [row |-> row, first |-> newStmt, last |-> newStmt'])
    /\ pc' = (IF bfLen' >= LengthLimit THEN "flush" ELSE "rowDone")
    /\ UNCHANGED <<result, cancelled, chans, pipeVars, ctxDone>>

DecodeFails ==
    /\ pc = "rows"
    /\ hasNext
    /\ Leave("err")
    /\ UNCHANGED <<conf, iter, buffer, cancelled, chans, pipeVars, ctxDone>>

\* The select on a full buffer, one action for each of its cases.
Flush ==
    /\ pc = "flush"
    /\ Len(input) < Cap
    /\ input' = Append(input, Buffer(bf, bfLen))
    /\ bf' = <<>> /\ bfLen' = 0
    /\ pc' = "rowDone"
    /\ UNCHANGED <<conf, result, iter, newStmt, counter, fileLen, stmtLen, cancelled,
                   closedIn, errCh, pipeVars, ctxDone>>

FlushMeetsError ==
    /\ pc = "flush"
    /\ errCh
    /\ errCh' = FALSE
    /\ Leave("err")
    /\ UNCHANGED <<conf, iter, buffer, cancelled, input, closedIn, pipeVars, ctxDone>>

FlushMeetsCancel ==
    /\ pc = "flush"
    /\ cancelled
    /\ Leave("err")
    /\ UNCHANGED <<conf, iter, buffer, cancelled, chans, pipeVars, ctxDone>>

\* The end of the loop's body.  CSV: the iterator moves on here.
RowDone ==
    /\ pc = "rowDone"
    /\ IF CSV THEN IterNext ELSE UNCHANGED iter
    /\ pc' = (IF ~ShouldSwitchFile /\ hasNext' THEN "rows" ELSE "last")
    /\ UNCHANGED <<conf, result, buffer, cancelled, chans, pipeVars, ctxDone>>

\* wp.input <- bf, without a select
SendLast ==
    /\ pc = "last"
    /\ IF bfLen > 0
         THEN Len(input) < Cap /\ input' = Append(input, Buffer(bf, bfLen))
         ELSE UNCHANGED input
    /\ bf' = <<>> /\ bfLen' = 0
    /\ pc' = "close"
    /\ UNCHANGED <<conf, result, iter, newStmt, counter, fileLen, stmtLen, cancelled,
                   closedIn, errCh, pipeVars, ctxDone>>

CloseInput ==
    /\ pc = "close"
    /\ closedIn' = TRUE
    /\ pc' = "closed"
    /\ UNCHANGED <<conf, result, iter, buffer, cancelled, input, errCh, pipeVars,
                   ctxDone>>

\* <-wp.closed, then the error of the iterator or else the one of the pipe
Return ==
    /\ pc = "closed"
    /\ pipe = "exited"
    /\ Leave(IF iterErr \/ errCh THEN "err" ELSE "ok")
    /\ errCh' = (errCh /\ iterErr)
    /\ UNCHANGED <<conf, iter, buffer, cancelled, input, closedIn, pipeVars, ctxDone>>

\* The deferred cancel() and wg.Wait().
CancelPipe ==
    /\ pc = "cancel"
    /\ ctxDone' = TRUE
    /\ pc' = "join"
    /\ UNCHANGED <<conf, result, iter, buffer, cancelled, chans, pipeVars>>

Join ==
    /\ pc = "join"
    /\ pipe = "exited"
    /\ pc' = "done"
    /\ UNCHANGED <<conf, result, iter, buffer, cancelled, chans, pipeVars, ctxDone>>

-----------------------------------------------------------------------------
(* writerPipe.Run.                                                         *)

\* a buffer is received, and dropped if a write has failed
Receive ==
    /\ pipe = "select"
    /\ input # <<>>
    /\ input' = Tail(input)
    /\ IF errOccurs THEN UNCHANGED <<pipe, writing>>
                    ELSE pipe' = "write" /\ writing' = Head(input)
    /\ UNCHANGED <<conf, pc, result, iter, buffer, cancelled, closedIn, errCh, ctxDone,
                   errOccurs, opened, file, finished>>

\* InterceptFileWriter.Write: the first write creates the file, once
WriteBytes ==
    /\ pipe = "write"
    /\ opened # "failed"
    /\ opened' = "open"
    /\ file' = file \o writing.pieces
    /\ finished' = finished + writing.len
    /\ pipe' = "select" /\ writing' = NoBuffer
    /\ UNCHANGED <<conf, pc, result, iter, buffer, cancelled, chans, ctxDone,
                   errOccurs>>

\* The file cannot be created, or the write fails with some of the pieces written.
WriteBytesFails ==
    /\ pipe = "write"
    /\ \/ /\ opened \in {"no", "failed"}
          /\ opened' = "failed"
          /\ UNCHANGED file
       \/ /\ opened \in {"no", "open"}
          /\ opened' = "open"
          /\ \E n \in 0 .. Len(writing.pieces) :
               file' = file \o SubSeq(writing.pieces, 1, n)
    /\ finished' = finished + writing.len
    /\ ~errCh /\ errCh' = TRUE
    /\ errOccurs' = TRUE
    /\ pipe' = "select" /\ writing' = NoBuffer
    /\ UNCHANGED <<conf, pc, result, iter, buffer, cancelled, input, closedIn, ctxDone>>

\* the input is closed and empty, or the context is done
Exit ==
    /\ pipe = "select"
    /\ (closedIn /\ input = <<>>) \/ ctxDone
    /\ pipe' = "exited"
    /\ UNCHANGED <<conf, pc, result, iter, buffer, cancelled, chans, ctxDone, writing,
                   errOccurs, opened, file, finished>>

-----------------------------------------------------------------------------
CancelCtx ==
    /\ ~cancelled
    /\ pc # "done"
    /\ cancelled' = TRUE
    /\ UNCHANGED <<conf, pc, result, iter, buffer, chans, pipeVars, ctxDone>>

Terminated == pc = "done" /\ pipe \in {"none", "exited"} /\ UNCHANGED vars

Producer ==
    \/ Start \/ AddRow \/ DecodeFails \/ Flush \/ FlushMeetsError \/ FlushMeetsCancel
    \/ RowDone \/ SendLast \/ CloseInput \/ Return \/ CancelPipe \/ Join

Run == Receive \/ WriteBytes \/ WriteBytesFails \/ Exit

Next == Producer \/ Run \/ CancelCtx \/ Terminated

Spec == Init /\ [][Next]_vars

\* both goroutines run, and a write to the storage ends
FairSpec == Spec /\ WF_vars(Producer) /\ WF_vars(Run)

-----------------------------------------------------------------------------
(* Properties.                                                             *)

Pieces == [row : Nat, first : BOOLEAN, last : BOOLEAN]
Buffers == [pieces : Seq(Pieces), len : Nat]

TypeOK ==
    /\ conf \in Configs
    /\ pc \in {"start", "rows", "flush", "rowDone", "last", "close", "closed", "cancel",
               "join", "done"}
    /\ result \in {"none", "ok", "err"}
    /\ row \in 1 .. NRows + 1
    /\ {hasNext, iterErr, newStmt, cancelled, closedIn, errCh, ctxDone, errOccurs}
         \subseteq BOOLEAN
    /\ bf \in Seq(Pieces)
    /\ {bfLen, counter, fileLen, stmtLen, finished} \subseteq Nat
    /\ input \in Seq(Buffers) /\ Len(input) <= Cap
    /\ pipe \in {"none", "select", "write", "exited"}
    /\ writing \in Buffers
    /\ opened \in {"no", "open", "failed"}
    /\ file \in Seq(Pieces)

\* A failed write is never lost: the call returns an error (writer_util.go:223, 262).
WriteErrorReported == errOccurs => result # "ok"

\* A file written without error is a sequence of complete statements: a prefix follows
\* every ";" and nothing else, and the last row ends with ";" (writer_util.go:190-242).
StatementsComplete ==
    result = "ok" /\ ~CSV /\ file # <<>> =>
        /\ Head(file).first /\ file[Len(file)].last
        /\ \A i \in 1 .. Len(file) - 1 : file[i + 1].first = file[i].last

\* The size that decides on switching the file is the size that Run has written when the
\* call succeeds (writer_util.go:207 against writer_util.go:80).
SizeAccounted == result = "ok" => finished = fileLen

\* What the call promises its caller: rows go to the file in their order, and it returns
\* once, without error only if the rows that were asked for are in the file
\* (writer_util.go:137-263 as tryToWriteTableData uses it, writer.go:204-223).
Sink == INSTANCE RowSink WITH
    Rows <- NRows,
    limited <- (FileSize # UnspecifiedSize),
    content <- [i \in 1 .. Len(file) |-> file[i].row],
    outcome <- (IF pc = "done" THEN result ELSE "none")

\* the call implements RowSink
ImplementsRowSink == Sink!Spec

\* WriteInsert returns: neither the full channel nor the error channel blocks the two
\* goroutines forever (writer_util.go:219-251).
WriteInsertReturns == <>(pc = "done")
=============================================================================
