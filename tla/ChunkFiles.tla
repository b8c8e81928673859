----------------------------- MODULE ChunkFiles -----------------------------
(***************************************************************************)
(* Writer.WriteTableData: the chunks of one table become files.  Every     *)
(* chunk is written by a writer of its own, again and again until an       *)
(* attempt succeeds or the backoffer gives up; an attempt queries the rows *)
(* anew and writes them to as many files as the limit on their size        *)
(* demands, whose names the outputFileNamer makes up.  A file is created   *)
(* by the first write and replaces one of the same name.  The query of a   *)
(* retry need not have the result of the first one: under consistency none *)
(* the new connection reads newer data, and without ORDER BY the rows come *)
(* in any order.                                                           *)
(*                                                                         *)
(* One call of WriteInsert is one step here and does what RowSink allows.  *)
(* conf.Rows is shared: for a TiDB table that is dumped without --rows,    *)
(* buildConcatTask changes it while the writers are at work.               *)
(***************************************************************************)
EXTENDS Integers, Sequences, FiniteSets

CONSTANTS
    NChunks,   \* chunks of the table if conf.Rows is given
    Results,   \* results the query of a chunk may have: sequences of rows
    Attempts,  \* attempts of the backoffer
    Configs    \* the configurations considered

ASSUME NumbersAssumption == NChunks \in Nat \ {0} /\ Attempts \in Nat \ {0}
\* a query returns a row once
ASSUME ResultsAssumption ==
    /\ Results \subseteq Seq(Nat)
    /\ \A s \in Results : \A i, j \in 1 .. Len(s) : s[i] = s[j] => i = j
\* buildConcatTask is for dumps without --rows
ASSUME ConfigsAssumption ==
    /\ Configs \subseteq [rows : BOOLEAN, splits : BOOLEAN, concat : BOOLEAN, limit : Nat,
                    repeatable : BOOLEAN]
    /\ \A c \in Configs : (c.concat => c.splits) /\ (c.splits => ~c.rows)

VARIABLES
    conf,       \* the configuration of the dump
    confRows,   \* conf.Rows # UnspecifiedSize
    st,         \* chunk -> where its WriteTableData is
    attempt,    \* chunk -> attempts the backoffer has left
    format,     \* chunk -> format of the attempt's namer
    fileIndex,  \* chunk -> FileIndex of the namer
    result,     \* chunk -> rows the attempt's query returns
    pos,        \* chunk -> rows read from the iterator
    broken,     \* chunk -> the iterator has met an error
    unclosed,   \* chunk -> closing a file has failed in this attempt
    files       \* file name -> rows in it

vars == <<conf, confRows, st, attempt, format, fileIndex, result, pos, broken, unclosed,
          files>>

-----------------------------------------------------------------------------
\* conf.Rows was given
RowsSet == conf.rows
\* Dump is splitting other tables with buildConcatTask
Splits == conf.splits
\* the chunk is a multiQueriesChunk
Concat == conf.concat
\* rows that fill a file (conf.FileSize), 0 for no limit
FileLimit == conf.limit
\* every attempt's query has the same result: the data do not change between attempts
\* (consistency is not none) and the rows are ordered by a key
Repeatable == conf.repeatable

\* without --rows a table is one chunk
Chunks == IF RowsSet THEN 0 .. NChunks - 1 ELSE {0}

Size(c) == Len(result[c])

Row(c, i) == <<c, result[c][i]>>

\* what the storage holds after a file was written
Store(name, rows) ==
    [n \in DOMAIN files \cup {name} |-> IF n = name THEN rows ELSE files[n]]

\* (a faulty variant, for a mutation run) the index of the chunk is not in the name
NewOutputFileNamerFileOnly(rows) == IF FileLimit > 0 THEN "file" ELSE "chunk"

\* newOutputFileNamer: the numbers in a name depend on the limits that are set
NewOutputFileNamer(rows) ==
    IF FileLimit > 0 THEN (IF rows THEN "both" ELSE "file") ELSE "chunk"

\* Index(): "%09d%04d" of both numbers, or "%09d" of one
Index(f, chunk, file) ==
    CASE f = "both" -> <<chunk, file>>
      [] f = "file" -> <<file>>
      [] f = "chunk" -> <<chunk>>

Name(c) == Index(format[c], c, fileIndex[c])

Left(c) == Size(c) - pos[c]

\* rows that the next file takes
Portion(c) == IF FileLimit > 0 /\ FileLimit < Left(c) THEN FileLimit ELSE Left(c)

RowsFrom(c, n) == [i \in 1 .. n |-> Row(c, pos[c] + i)]

Init ==
    /\ conf \in Configs
    /\ confRows = RowsSet
    /\ st = [c \in Chunks |-> "queued"]
    /\ attempt = [c \in Chunks |-> 0]
    /\ format = [c \in Chunks |-> "chunk"]
    /\ fileIndex = [c \in Chunks |-> 0]
    /\ result \in [Chunks -> Results]
    /\ pos = [c \in Chunks |-> 0]
    /\ broken = [c \in Chunks |-> FALSE]
    /\ unclosed = [c \in Chunks |-> FALSE]
    /\ files = [n \in {} |-> <<>>]

-----------------------------------------------------------------------------
(* Faulty variants of the definitions below, for the mutation runs.        *)

\* the backoffer does not count
NextBackoffNever(c, retryable) == IF retryable THEN attempt[c] ELSE 0

-----------------------------------------------------------------------------
(* WriteTableData.                                                         *)

TakeChunk(c) ==
    /\ st[c] = "queued"
    /\ st' = [st EXCEPT ![c] = "start"]
    /\ attempt' = [attempt EXCEPT ![c] = Attempts]
    /\ UNCHANGED <<conf, confRows, format, fileIndex, result, pos, broken, unclosed, files>>

\* dumpChunkBackoffer.NextBackoff: attempts left after an error
NextBackoff(c, retryable) == IF retryable THEN attempt[c] - 1 ELSE 0

\* utils.WithRetry after an error; it also gives up if the context is done meanwhile
Failed(c) ==
    /\ \E retryable \in BOOLEAN :
         attempt' = [attempt EXCEPT ![c] = NextBackoff(c, retryable)]
    /\ \/ attempt'[c] > 0 /\ st' = [st EXCEPT ![c] = "start"]
       \/ st' = [st EXCEPT ![c] = "err"]

\* An attempt starts: from the second on with a new connection.  tableData.Start queries
\* anew and makes a new iterator, multiQueriesChunk.Start keeps the one it has.
Start(c) ==
    /\ st[c] = "start"
    /\ st' = [st EXCEPT ![c] = "write"]
    /\ format' = [format EXCEPT ![c] = NewOutputFileNamer(confRows)]
    /\ fileIndex' = [fileIndex EXCEPT ![c] = 0]
    /\ IF Concat THEN UNCHANGED <<result, pos, broken>>
         ELSE /\ \E s \in Results : /\ Repeatable => s = result[c]
                                    /\ result' = [result EXCEPT ![c] = s]
              /\ pos' = [pos EXCEPT ![c] = 0]
              /\ broken' = [broken EXCEPT ![c] = FALSE]
    /\ unclosed' = [unclosed EXCEPT ![c] = FALSE]
    /\ UNCHANGED <<conf, confRows, attempt, files>>

\* the connection is not to be had, or the query fails
StartFails(c) ==
    /\ st[c] = "start"
    /\ Failed(c)
    /\ UNCHANGED <<conf, confRows, format, fileIndex, result, pos, broken, unclosed, files>>

\* One round of tryToWriteTableData that writes a file.  tearDown only logs an error of
\* Close, which can leave anything of the file behind.
WriteFile(c) ==
    /\ st[c] = "write" /\ ~broken[c] /\ Left(c) > 0
    /\ \/ /\ files' = Store(Name(c), RowsFrom(c, Portion(c)))
          /\ UNCHANGED unclosed
       \/ /\ \E n \in 0 .. Portion(c) - 1 : files' = Store(Name(c), RowsFrom(c, n))
          /\ unclosed' = [unclosed EXCEPT ![c] = TRUE]
    /\ pos' = [pos EXCEPT ![c] = @ + Portion(c)]
    /\ IF FileLimit = 0
         THEN st' = [st EXCEPT ![c] = "ok"] /\ UNCHANGED fileIndex
         ELSE fileIndex' = [fileIndex EXCEPT ![c] = @ + 1] /\ UNCHANGED st
    /\ UNCHANGED <<conf, confRows, attempt, format, result, broken>>

\* The round that finds no rows creates no file.
NothingLeft(c) ==
    /\ st[c] = "write" /\ ~broken[c] /\ Left(c) = 0
    /\ st' = [st EXCEPT ![c] = "ok"]
    /\ UNCHANGED <<conf, confRows, attempt, format, fileIndex, result, pos, broken, unclosed, files>>

\* A round fails, before anything was written or with some rows in the file: the rows
\* cannot be read, or the file cannot be written, which is not worth a retry.  A broken
\* or closed iterator fails at once.
WriteFileFails(c) ==
    /\ st[c] = "write"
    /\ \/ UNCHANGED <<files, pos>>
       \/ /\ ~broken[c]
          /\ \E n \in 0 .. Portion(c) :
               /\ files' = Store(Name(c), RowsFrom(c, n))
               /\ \E read \in n .. Portion(c) : pos' = [pos EXCEPT ![c] = @ + read]
    /\ broken' = [broken EXCEPT ![c] = TRUE]
    /\ Failed(c)
    /\ UNCHANGED <<conf, confRows, format, fileIndex, result, unclosed>>

-----------------------------------------------------------------------------
(* buildConcatTask of another table, in a goroutine of Dump.               *)

AdjustRows ==
    /\ Splits /\ ~confRows
    /\ \E c \in Chunks : st[c] \notin {"ok", "err"}
    /\ confRows' = TRUE
    /\ UNCHANGED <<conf, st, attempt, format, fileIndex, result, pos, broken, unclosed, files>>

RestoreRows ==
    /\ Splits /\ confRows
    /\ confRows' = FALSE
    /\ UNCHANGED <<conf, st, attempt, format, fileIndex, result, pos, broken, unclosed, files>>

-----------------------------------------------------------------------------
Terminated == (\A c \in Chunks : st[c] \in {"ok", "err"}) /\ UNCHANGED vars

WriteTableData(c) ==
    \/ TakeChunk(c) \/ Start(c) \/ StartFails(c) \/ WriteFile(c) \/ NothingLeft(c)
    \/ WriteFileFails(c)

Next ==
    \/ \E c \in Chunks : WriteTableData(c)
    \/ AdjustRows \/ RestoreRows
    \/ Terminated

Spec == Init /\ [][Next]_vars

\* every writer runs, and the storage and the server answer
FairSpec ==
    Spec /\ \A c \in 0 .. NChunks - 1 : WF_vars(c \in Chunks /\ WriteTableData(c))

-----------------------------------------------------------------------------
(* Properties.                                                             *)

\* the format of the names does not depend on when an attempt looks at conf.Rows
NamesSettled == Splits /\ ~Concat => FileLimit = 0

\* the places of the files
Places == UNION {{n} \X (1 .. Len(files[n])) : n \in DOMAIN files}

At(p) == files[p[1]][p[2]]

\* "WriteTableData writes table data to a file with retry" (writer.go:155): once it has
\* returned nil, every row the last attempt's query returned is in the files, whatever
\* earlier attempts and the other writers do: in every configuration, if only the storage
\* has closed the attempt's files (tearDown logs an error of Close, writer_util.go:452-463).
\* The files have each of these rows in one place and no other row of the chunk, so that no
\* remains of an earlier attempt are left, under two more conditions: the attempts' queries
\* have the same result (not so under consistency none or without ORDER BY), and the names
\* do not change between attempts (they may for a plain chunk under --filesize while
\* buildConcatTask sets conf.Rows, dump.go:353-366).
RowsDumpedOnce ==
    \A c \in Chunks : st[c] = "ok" /\ ~unclosed[c] =>
        /\ \A i \in 1 .. Size(c) : \E p \in Places : At(p) = Row(c, i)
        /\ Repeatable /\ NamesSettled =>
             /\ \A p, q \in Places : At(p) = At(q) /\ At(p)[1] = c => p = q
             /\ \A p \in Places : At(p)[1] = c => \E i \in 1 .. Size(c) : At(p) = Row(c, i)

\* WriteTableData returns: attempts run out and every round reads rows (writer.go:160-190).
WriteTableDataReturns == <>(\A c \in Chunks : st[c] \in {"ok", "err"})
=============================================================================
