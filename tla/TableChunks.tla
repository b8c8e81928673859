----------------------------- MODULE TableChunks -----------------------------
(***************************************************************************)
(* concurrentDumpTable on a MySQL server: how the rows of one table are    *)
(* split into chunks along an integer column.  The column is found, its    *)
(* bounds and the number of rows are asked for, a step is computed in      *)
(* unsigned integers and one query per step is sent to the writers.        *)
(*                                                                         *)
(* A row is the value its column holds; the rows with NULL there count as  *)
(* one.  A query is the set of rows it selects.  Only the rows to dump are *)
(* modelled, those that --where selects.                                   *)
(***************************************************************************)
EXTENDS Integers, FiniteSets

CONSTANTS
    KeySpace,  \* values the column can hold
    Rows,      \* conf.Rows
    Width,     \* bits of a uint64 and of an int
    MaxCount   \* bound: largest estimate of the number of rows

ASSUME KeySpaceAssumption == KeySpace \subseteq Int
ASSUME RowsAssumption == Rows \in Nat \ {0}
ASSUME WidthAssumption == Width \in Nat /\ 2 ^ Width \in Nat \ {0, 1}
ASSUME MaxCountAssumption == MaxCount \in Nat

VARIABLES
    keys,        \* values of the column in the rows to dump
    nulls,       \* some row to dump has NULL in the column
    where,       \* conf.Where, see Wheres
    pc,          \* where concurrentDumpTable is
    min, max,    \* bounds of the column
    count,       \* the estimated number of rows
    step,        \* estimatedStep
    cutoff,      \* lower end of the next chunk
    nullCond,    \* nullValueCondition is not empty
    chunkIndex,  \* chunks sent by the loop, an int
    totalChunks, \* what every task is told about the number of chunks
    sent         \* tasks in taskChan so far, by their ChunkIndex

table == <<keys, nulls, where>>
bounds == <<min, max>>
loopVars == <<cutoff, nullCond, chunkIndex>>
vars == <<table, pc, bounds, count, step, loopVars, totalChunks, sent>>

-----------------------------------------------------------------------------
Wrap(n) == n % 2 ^ Width

\* the conversion of a uint64 to an int
ToInt(n) == IF n < 2 ^ Width \div 2 THEN n ELSE n - 2 ^ Width

\* Whether --where is set, and the rows, by key and with NULL, that one of the
\* alternatives before its last top-level OR selects: none, if it has no OR there.
Wheres ==
    {[set |-> FALSE, keys |-> {}, nulls |-> FALSE]} \cup
        [set : {TRUE}, keys : SUBSET keys, nulls : {FALSE, nulls}]

HasWhere == where.set

\* a task: its place among the chunks and the rows its query selects
Chunk(i, ks, n) == [index |-> i, keys |-> ks, nulls |-> n]

WholeTable == Chunk(0, keys, nulls)

\* (a faulty variant, for a mutation run) both ends belong to the chunk
RangeChunkClosed(i, lo, hi, cond) ==
    Chunk(i, where.keys \cup {k \in keys : lo <= k /\ k <= hi}, where.nulls \/ (cond /\ nulls))

\* "(field >= lo AND field < hi)", preceded by "field IS NULL OR" if cond.
\* buildWhereCondition appends it to --where by AND and without brackets, so that
\* it restricts the last alternative of --where only.
RangeChunk(i, lo, hi, cond) ==
    Chunk(i, where.keys \cup {k \in keys : lo <= k /\ k < hi}, where.nulls \/ (cond /\ nulls))

IsMin(m) == m \in keys /\ \A k \in keys : m <= k
IsMax(m) == m \in keys /\ \A k \in keys : k <= m

Init ==
    /\ keys \in SUBSET KeySpace
    /\ nulls \in BOOLEAN
    /\ where \in Wheres
    /\ pc = "pickField"
    /\ min = 0 /\ max = 0
    /\ count = 0
    /\ step = 0
    /\ cutoff = 0
    /\ nullCond = FALSE
    /\ chunkIndex = 0
    /\ totalChunks = 0
    /\ sent = {}

-----------------------------------------------------------------------------
(* Faulty variants of the definitions below, for the mutation runs.        *)

\* the step is rounded down
StepOfRoundedDown(range, chunks) == Wrap(range \div chunks)

\* every chunk asks for the rows with NULL
SendChunkKeepsCond ==
    /\ pc = "loop"
    /\ max >= cutoff
    /\ sent' = sent \cup {RangeChunk(chunkIndex, cutoff, cutoff + step, nullCond)}
    /\ cutoff' = cutoff + step
    /\ chunkIndex' = ToInt(Wrap(chunkIndex + 1))
    /\ UNCHANGED <<pc, table, bounds, count, step, nullCond, totalChunks>>

\* a range without rows is passed over before the cutoff moves
SendChunkSkipsEmpty ==
    LET c == RangeChunk(chunkIndex, cutoff, cutoff + step, nullCond)
    IN  /\ pc = "loop"
        /\ max >= cutoff
        /\ IF c.keys = {} /\ ~c.nulls
             THEN UNCHANGED <<sent, loopVars>>
             ELSE /\ sent' = sent \cup {c}
                  /\ cutoff' = cutoff + step
                  /\ nullCond' = FALSE
                  /\ chunkIndex' = ToInt(Wrap(chunkIndex + 1))
        /\ UNCHANGED <<pc, table, bounds, count, step, totalChunks>>

-----------------------------------------------------------------------------
(* concurrentDumpTable.                                                    *)

Fail == pc' = "failed"

\* sendTaskToChan: the task is in the channel, or the context is done
SendWhole ==
    /\ \/ pc' = "done" /\ sent' = {WholeTable}
       \/ Fail /\ UNCHANGED sent
    /\ UNCHANGED <<table, bounds, count, step, loopVars, totalChunks>>

\* pickupPossibleField: a numeric primary key or unique index, or none.  A
\* primary key holds no NULL.
PickField ==
    /\ pc = "pickField"
    /\ \/ /\ pc' = "minMax"
          /\ UNCHANGED <<table, bounds, count, step, loopVars, totalChunks, sent>>
       \/ SendWhole
       \/ /\ Fail
          /\ UNCHANGED <<table, bounds, count, step, loopVars, totalChunks, sent>>

\* selectMinAndMaxIntValue, which gives 0 and 0 when MIN and MAX are NULL.
SelectMinAndMaxIntValue ==
    /\ pc = "minMax"
    /\ \/ /\ pc' = "estimate"
          /\ \/ keys = {} /\ min' = 0 /\ max' = 0
             \/ \E lo, hi \in keys :
                  IsMin(lo) /\ IsMax(hi) /\ min' = lo /\ max' = hi
       \/ Fail /\ UNCHANGED bounds
    /\ UNCHANGED <<table, count, step, loopVars, totalChunks, sent>>

\* estimateCount: the optimizer's guess, or 0 if it cannot be had.
EstimateCount ==
    /\ pc = "estimate"
    /\ \E c \in 0 .. MaxCount :
         \/ c < Rows /\ SendWhole
         \/ /\ c >= Rows
            /\ count' = c
            /\ pc' = "step"
            /\ UNCHANGED <<table, bounds, step, loopVars, totalChunks, sent>>

\* Sub(max, min).Uint64() / estimatedChunks + 1, in uint64
StepOf(range, chunks) == Wrap(Wrap(range) \div chunks + 1)

\* The step, the announced number of chunks and the text of the query, whose
\* pieces buildSelectField and buildOrderByClause may fail to find.
ComputeStep ==
    LET chunks == count \div Rows
    IN  /\ pc = "step"
        /\ step' = StepOf(max - min, chunks)
        /\ totalChunks' = ToInt(IF step' = 1 THEN Wrap(Wrap(max - min) + 1) ELSE chunks)
        /\ cutoff' = min
        /\ nullCond' = ~HasWhere
        /\ chunkIndex' = 0
        /\ pc' \in {"loop", "failed"}
        /\ UNCHANGED <<table, bounds, count, sent>>

MoreChunks == max >= cutoff

\* One round of the loop.
SendChunk ==
    /\ pc = "loop"
    /\ MoreChunks
    /\ \/ /\ sent' = sent \cup {RangeChunk(chunkIndex, cutoff, cutoff + step, nullCond)}
          /\ cutoff' = cutoff + step
          /\ nullCond' = FALSE
          /\ chunkIndex' = ToInt(Wrap(chunkIndex + 1))
          /\ UNCHANGED pc
       \/ Fail /\ UNCHANGED <<sent, loopVars>>
    /\ UNCHANGED <<table, bounds, count, step, totalChunks>>

AllSent ==
    /\ pc = "loop"
    /\ ~MoreChunks
    /\ pc' = "done"
    /\ UNCHANGED <<table, bounds, count, step, loopVars, totalChunks, sent>>

Terminated == pc \in {"done", "failed"} /\ UNCHANGED vars

Next ==
    \/ PickField \/ SelectMinAndMaxIntValue \/ EstimateCount \/ ComputeStep
    \/ SendChunk \/ AllSent \/ Terminated

Spec == Init /\ [][Next]_vars

\* the goroutine of Dump runs
FairSpec == Spec /\ WF_vars(Next)

-----------------------------------------------------------------------------
(* Properties.                                                             *)

TypeOK ==
    /\ keys \subseteq KeySpace
    /\ nulls \in BOOLEAN
    /\ where \in Wheres
    /\ pc \in {"pickField", "minMax", "estimate", "step", "loop", "done", "failed"}
    /\ min \in Int /\ max \in Int
    /\ count \in Nat
    /\ step \in Nat
    /\ cutoff \in Int
    /\ nullCond \in BOOLEAN
    /\ chunkIndex \in Int
    /\ totalChunks \in Int
    /\ \A c \in sent : c.index \in Int /\ c.keys \subseteq keys /\ c.nulls \in BOOLEAN

\* When concurrentDumpTable has succeeded, every value of the column is in the
\* rows of exactly one task, whatever the estimate was (dump.go:494-533).  With a
\* top-level OR in --where that holds of the rows its last alternative alone
\* selects; the others are in a task too, but need not be in one only
\* (sql.go:1014-1031).
EachKeyInOneChunk ==
    pc = "done" => \A k \in keys : \E c \in sent :
        k \in c.keys /\ (k \notin where.keys => \A d \in sent : k \in d.keys => d = c)

\* The rows with NULL in the column are in exactly one task too, "`%s` IS NULL OR "
\* of the first chunk, for a dump without --where (dump.go:515-525).
NullsInOneChunk ==
    pc = "done" /\ nulls /\ ~HasWhere => \E c \in sent :
        c.nulls /\ \A d \in sent : d.nulls => d = c

\* No chunk index reaches the total its task announces, so the last chunk is at
\* most the one that finishes the table (dump.go:499-502 against dump.go:526 and
\* writer.go:107), unless max - min + 1 overflows an int.
IndexBelowTotal ==
    pc = "loop" /\ MoreChunks /\ max - min + 1 < 2 ^ Width \div 2 => chunkIndex < totalChunks

\* one chunk for a column that spans all of uint64: the step it needs is 0 in uint64
StepOverflows == Wrap(max - min) = 2 ^ Width - 1 /\ count \div Rows = 1

\* concurrentDumpTable ends, because every chunk moves the cutoff (dump.go:519-531),
\* unless the step overflows: then empty chunks are sent forever (dump.go:496).
SplitEnds == <>(pc \in {"done", "failed"} \/ StepOverflows)

\* "Specify the dump range by `where` condition. Dump only the selected records"
\* (docs/en/user-guide.md:32): all selected rows are dumped, also those with NULL
\* in the column.
SelectedRowsDumped ==
    pc = "done" /\ nulls => \E c \in sent : c.nulls

=============================================================================
