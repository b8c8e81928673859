------------------------------ MODULE ConcatTask ------------------------------
(***************************************************************************)
(* dumpTableData for a table of TiDB.  With --rows the tasks of            *)
(* concurrentDumpTable (module TiDBChunks) go to the writers.  Without it  *)
(* buildConcatTask runs concurrentDumpTable in a goroutine, with rows      *)
(* chosen for the table, collects its tasks from a channel and makes one   *)
(* task of their queries, so that the table still has one file; if that    *)
(* does not work out the whole table becomes one query.                    *)
(***************************************************************************)
EXTENDS TiDBChunks

CONSTANTS
    Cap,           \* capacity of tableChan
    RowLengths,    \* values of AVG_ROW_LENGTH, 0 also for a failed query
    BytesPerFile,  \* bytesPerFile, defaultRows and maxRows of GetSuitableRows
    DefaultRows,
    MaxRows

\* conf has two more fields: rows, the value of --rows, and colLens, the number of columns
\* selected from each partition.  The server keeps no row longer than BytesPerFile.
ASSUME ConcatAssumption ==
    /\ Cap \in Nat \ {0}
    /\ RowLengths # {} /\ RowLengths \subseteq 0 .. BytesPerFile
    /\ {BytesPerFile, DefaultRows, MaxRows} \subseteq Nat \ {0}
    /\ \A c \in Configs : c.rows \in Nat /\ c.colLens \in [1 .. c.parts -> Nat]

VARIABLES
    confRows,      \* conf.Rows
    caller,        \* what dumpTableData does
    splitter,      \* what runs concurrentDumpTable
    tableChan,     \* tasks sent and not yet collected
    errCh,         \* "open", "err": holds an error, or "closed"
    tableDataArr,  \* tasks collected
    result         \* what dumpTableData has sent to the writers

concatVars == <<confRows, caller, splitter, tableChan, errCh, tableDataArr, result>>
allVars == <<vars, concatVars>>

UnspecifiedSize == 0

GetSuitableRows(avgRowLength) ==
    IF avgRowLength = 0 THEN DefaultRows
    ELSE Min({BytesPerFile \div avgRowLength, MaxRows})

ColLen(t) == conf.colLens[t.part]

ConcatInit ==
    /\ Init
    /\ confRows = conf.rows
    /\ caller = "start"
    /\ splitter = "off"
    /\ tableChan = <<>>
    /\ errCh = "open"
    /\ tableDataArr = <<>>
    /\ result = "none"

-----------------------------------------------------------------------------
(* The caller's goroutine.                                                 *)

\* renewSelectTableRegionFuncForLowerTiDB, before any table
Renew == (LoadRegions \/ LoadRegionsFails) /\ UNCHANGED concatVars

DumpTableData ==
    /\ caller = "start"
    /\ pc # "regions"
    /\ IF confRows = UnspecifiedSize
       THEN caller' = "select" /\ splitter' = "start"
       ELSE caller' = "split" /\ splitter' = "run"
    /\ UNCHANGED <<vars, confRows, tableChan, errCh, tableDataArr, result>>

\* concurrentDumpTable has sent its tasks to the writers, or failed
SplitReturns ==
    /\ caller = "split"
    /\ pc \in {"done", "failed"}
    /\ caller' = "returned"
    /\ result' = IF pc = "done" THEN "chunks" ELSE "error"
    /\ splitter' = "ended"
    /\ UNCHANGED <<vars, confRows, tableChan, errCh, tableDataArr>>

\* handleSubTask, in the select or when errCh is closed
HandleSubTask ==
    /\ caller \in {"select", "drain"}
    /\ tableChan # <<>>
    /\ tableDataArr' = Append(tableDataArr, Head(tableChan))
    /\ tableChan' = Tail(tableChan)
    /\ UNCHANGED <<vars, confRows, caller, splitter, errCh, result>>

\* (faulty variants, for mutation runs) the tasks left in tableChan are forgotten; errCh
\* is looked at again while none is left
TakeErrNoDrain ==
    /\ caller = "select"
    /\ errCh # "open"
    /\ IF errCh = "err"
       THEN caller' = "returned" /\ result' = "error"
       ELSE /\ caller' = "send"
            /\ result' = IF Len(tableDataArr) <= 1 THEN "whole" ELSE "concat"
    /\ UNCHANGED <<vars, confRows, splitter, tableChan, errCh, tableDataArr>>

TakeErrIfTasks ==
    /\ caller = "select"
    /\ errCh # "open"
    /\ IF errCh = "err"
       THEN caller' = "returned" /\ result' = "error"
       ELSE caller' = (IF tableChan = <<>> THEN caller ELSE "drain") /\ UNCHANGED result
    /\ UNCHANGED <<vars, confRows, splitter, tableChan, errCh, tableDataArr>>

\* the select meets an error, or the closed errCh
TakeErr ==
    /\ caller = "select"
    /\ errCh # "open"
    /\ IF errCh = "err"
       THEN caller' = "returned" /\ result' = "error"
       ELSE caller' = "drain" /\ UNCHANGED result
    /\ UNCHANGED <<vars, confRows, splitter, tableChan, errCh, tableDataArr>>

\* one task of all queries, if there are two at least and their columns agree
BuildConcatTask ==
    /\ caller = "drain"
    /\ tableChan = <<>>
    /\ caller' = "send"
    /\ result' = IF /\ Len(tableDataArr) > 1
                    /\ \A t \in Range(tableDataArr) : ColLen(t) = ColLen(tableDataArr[1])
                 THEN "concat" ELSE "whole"
    /\ UNCHANGED <<vars, confRows, splitter, tableChan, errCh, tableDataArr>>

\* the task is sent; the query of the whole table may fail and the context may end
SendResult ==
    /\ caller = "send"
    /\ caller' = "returned"
    /\ result' \in {result, "error"}
    /\ UNCHANGED <<vars, confRows, splitter, tableChan, errCh, tableDataArr>>

-----------------------------------------------------------------------------
(* The goroutine of buildConcatTask.                                       *)

AdjustRows ==
    /\ splitter = "start"
    /\ \E avg \in RowLengths : confRows' = GetSuitableRows(avg)
    /\ splitter' = "run"
    /\ UNCHANGED <<vars, caller, tableChan, errCh, tableDataArr, result>>

\* steps of concurrentDumpTable without a send
Split ==
    /\ splitter = "run"
    /\ ReadBound \/ BoundsRead \/ NextPartition \/ Fails
    /\ UNCHANGED concatVars

\* a send waits for room in tableChan
Send ==
    /\ splitter = "run"
    /\ SendClause
    /\ IF caller = "split" THEN UNCHANGED tableChan
       ELSE /\ Len(tableChan) < Cap
            /\ tableChan' = Append(tableChan, CHOOSE t \in sent' : t \notin sent)
    /\ UNCHANGED <<confRows, caller, splitter, errCh, tableDataArr, result>>

\* (faulty variant, for mutation runs) the caller is told before conf.Rows is restored
RestoreRowsLate ==
    /\ splitter = "run" /\ caller # "split"
    /\ pc \in {"done", "failed"}
    /\ errCh' = IF pc = "done" THEN "closed" ELSE "err"
    /\ splitter' = "restored"
    /\ UNCHANGED <<vars, confRows, caller, tableChan, tableDataArr, result>>

RestoreRows ==
    /\ splitter = "run" /\ caller # "split"
    /\ pc \in {"done", "failed"}
    /\ confRows' = UnspecifiedSize
    /\ splitter' = "restored"
    /\ UNCHANGED <<vars, caller, tableChan, errCh, tableDataArr, result>>

SignalErr ==
    /\ splitter = "restored"
    /\ errCh' = IF pc = "done" THEN "closed" ELSE "err"
    /\ splitter' = "ended"
    /\ UNCHANGED <<vars, confRows, caller, tableChan, tableDataArr, result>>

-----------------------------------------------------------------------------
Caller ==
    \/ Renew \/ DumpTableData \/ SplitReturns
    \/ HandleSubTask \/ TakeErr \/ BuildConcatTask \/ SendResult

Splitter == AdjustRows \/ Split \/ Send \/ RestoreRows \/ SignalErr

Returned == caller = "returned" /\ splitter = "ended" /\ UNCHANGED allVars

ConcatNext == Caller \/ Splitter \/ Returned

\* both goroutines run
ConcatSpec ==
    ConcatInit /\ [][ConcatNext]_allVars /\ WF_allVars(Caller) /\ WF_allVars(Splitter)

-----------------------------------------------------------------------------
(* Properties.                                                             *)

\* (typing) the variables of the split and of buildConcatTask keep their types, and
\* tableChan its capacity
ConcatTypeOK ==
    /\ TypeOK
    /\ confRows \in Nat
    /\ caller \in {"start", "split", "select", "drain", "send", "returned"}
    /\ splitter \in {"off", "start", "run", "restored", "ended"}
    /\ Range(tableChan) \cup Range(tableDataArr) \subseteq sent /\ Len(tableChan) <= Cap
    /\ errCh \in {"open", "err", "closed"}
    /\ result \in {"none", "chunks", "concat", "whole", "error"}

\* the select of buildConcatTask may see errCh closed while tasks still wait in tableChan
\* (dump.go:383-389): the concatenated task nevertheless has the query of every task that
\* concurrentDumpTable sent, once, in the order of their indexes, and is built only after a
\* split that did not fail
ConcatIsWhole ==
    result = "concat" =>
        /\ pc = "done"
        /\ Range(tableDataArr) = sent
        /\ \A n \in DOMAIN tableDataArr : tableDataArr[n].index = n - 1

\* conf.Rows, which the goroutine sets for one table, is what --rows says again when
\* dumpTableData returns and the next table looks at it (dump.go:347); and while
\* concurrentDumpTable runs it is a number that one can divide by (dump.go:495)
RowsRestored ==
    /\ caller = "returned" => confRows = conf.rows
    /\ splitter = "run" => confRows > 0

\* dumpTableData returns, also when there are more tasks than tableChan holds and the
\* goroutine waits for the caller while the caller waits for it
DumpTableDataReturns == <>(caller = "returned" /\ splitter = "ended")
=============================================================================
