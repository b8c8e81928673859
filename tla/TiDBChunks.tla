----------------------------- MODULE TiDBChunks -----------------------------
(***************************************************************************)
(* concurrentDumpTiDBTables: how a table of TiDB is split along its row    *)
(* key.  Keys that bound the regions are read, from TABLESAMPLE or from    *)
(* the list of regions, for each partition if the table has partitions;    *)
(* TiDB 3.x needs the detour of RegionMap.                                 *)
(* Then every bound becomes the end of one query's WHERE clause and the    *)
(* start of the next one's.                                                *)
(*                                                                         *)
(* The text of a condition is the sequence of its disjuncts at the top     *)
(* level, each given by the rows it selects, because in SQL "and" binds    *)
(* tighter than "or".  Brackets make one disjunct of it.  A value of a     *)
(* column is its text; the server compares texts by their weight, which is *)
(* the same for two texts that a collation takes for equal.                *)
(***************************************************************************)
EXTENDS Integers, Sequences, FiniteSets, RegionMap

CONSTANT
    Configs  \* the tables, and the values of --where, considered

\* A table has columns of the row key (handleColNames), partitions (1 if it has none)
\* and, for the texts a column can hold, their weights in the server's order.  `bounds'
\* is a bound: the regions of a partition, less one.  `where' is conf.Where, <<>> for none.
\* `infos' is what a TiDB 3.x may answer to RegionMap's queries, {} for a later TiDB; the
\* table is then the one called "t", its row key an integer, and the row id in a start key
\* a value that the key can have.
ASSUME ConfigsAssumption ==
    \A c \in Configs :
        /\ c.cols \in Nat \ {0} /\ c.parts \in Nat \ {0} /\ c.bounds \in Nat
        /\ \A t \in DOMAIN c.weight : c.weight[t] \in Nat
        /\ c.where \in Seq(SUBSET [1 .. c.cols -> DOMAIN c.weight])
        /\ c.infos # {} =>
             /\ c.cols = 1 /\ c.parts = 1
             /\ DOMAIN c.weight \subseteq Int
             /\ \A s, t \in DOMAIN c.weight : s < t => c.weight[s] < c.weight[t]
        /\ \A info \in c.infos :
             /\ Answer(info) /\ "t" \in DOMAIN info.ids
             /\ \A r \in Range(info.regions) : r.rowID \in DOMAIN c.weight \cup {NoRowID}

VARIABLES
    pc,          \* where concurrentDumpTiDBTables is
    conf,        \* the table and the configuration
    infos,       \* what TiDB 3.x has answered, at most one record
    handleVals,  \* partition -> the bounds read so far
    part,        \* the partition at hand
    startIdx,    \* startChunkIdx
    totalChunk,  \* chunks announced to the writers
    i,           \* clauses of the partition sent so far
    sent         \* the tasks: index, partition and the keys they select

vars == <<pc, conf, infos, handleVals, part, startIdx, totalChunk, i, sent>>

-----------------------------------------------------------------------------
NCols == conf.cols
NParts == conf.parts
MaxBounds == conf.bounds
Weight == conf.weight
ConfWhere == conf.where

Cols == 1 .. NCols
Keys == [Cols -> DOMAIN Weight]
Parts == 1 .. NParts

(* Conditions.                                                             *)

\* rows a condition selects
Selected(cond) == UNION {cond[n] : n \in 1 .. Len(cond)}

Brackets(cond) == <<Selected(cond)>>

\* the text of one, " and ", and the text of the other
And(c, d) == [c EXCEPT ![Len(c)] = @ \cap Head(d)] \o Tail(d)

Eq(a, b) == Weight[a] = Weight[b]
Lt(a, b) == Weight[a] < Weight[b]
Gt(a, b) == Weight[a] > Weight[b]

\* "col<bound", "col>bound"
Less(col, b) == {k \in Keys : Lt(k[col], b[col])}
Greater(col, b) == {k \in Keys : Gt(k[col], b[col])}

\* "c=b and ..." for the columns from first to last
AllEqual(first, last, b) == {k \in Keys : \A c \in first .. last : Eq(k[c], b[c])}

\* buildCompareClause for the columns from first on, `compare' is "<" or ">"
CompareClause(first, b, compare, writeEqual) ==
    [n \in 1 .. NCols - first + 1 |->
        LET c == first + n - 1
            beyond == IF compare = "<" THEN Less(c, b) ELSE Greater(c, b)
            equal == IF writeEqual /\ c = NCols THEN AllEqual(c, c, b) ELSE {}
        IN  AllEqual(first, c - 1, b) \cap (beyond \cup equal)]

\* getCommonLength compares texts
CommonLength(low, up) ==
    CHOOSE n \in 0 .. NCols :
        /\ \A c \in 1 .. n : low[c] = up[c]
        /\ n < NCols => low[n + 1] # up[n + 1]

\* the part of buildBetweenClause that follows a common prefix
RestBetween(first, low, up) ==
    IF first = NCols
      THEN <<(Greater(first, low) \cup AllEqual(first, first, low)) \cap Less(first, up)>>
      ELSE << Greater(first, low) \cap Less(first, up),
              AllEqual(first, first, low)
                \cap Selected(CompareClause(first + 1, low, ">", TRUE)),
              AllEqual(first, first, up)
                \cap Selected(CompareClause(first + 1, up, "<", FALSE)) >>

\* (a faulty variant, for a mutation run) the case of a common prefix is forgotten
BetweenClauseNoPrefix(low, up) == RestBetween(1, low, up)

BetweenClause(low, up) ==
    LET n == CommonLength(low, up)
    IN  CASE n = NCols -> <<{}>>
          [] n = 0 -> RestBetween(1, low, up)
          [] OTHER -> And(<<AllEqual(1, n, low)>>, Brackets(RestBetween(n + 1, low, up)))

\* buildWhereClauses: its n-th clause for the given bounds
WhereClause(vals, n) ==
    CASE n = 1 -> CompareClause(1, vals[1], "<", FALSE)
      [] n = Len(vals) + 1 -> CompareClause(1, vals[n - 1], ">", TRUE)
      [] OTHER -> BetweenClause(vals[n - 1], vals[n])

\* (a faulty variant) the clause of the chunk replaces the condition
WhereConditionOnly(where) == IF where = <<>> THEN ConfWhere ELSE where

\* buildWhereCondition: "WHERE <conf.Where> AND <where>", without brackets
WhereCondition(where) ==
    CASE ConfWhere = <<>> -> where
      [] where = <<>> -> ConfWhere
      [] OTHER -> And(ConfWhere, where)

\* rows of a query: without any condition all of them
QueryRows(where) ==
    IF WhereCondition(where) = <<>> THEN Keys ELSE Selected(WhereCondition(where))

-----------------------------------------------------------------------------
\* the order of row keys on the server
Before(a, b) ==
    \E c \in Cols : AllEqual(1, c - 1, b) \cap {a} # {} /\ Lt(a[c], b[c])

Task(n, where) == [index |-> n, part |-> part, keys |-> QueryRows(where)]

Init ==
    /\ conf \in Configs
    /\ pc = IF conf.infos = {} THEN "bounds" ELSE "regions"
    /\ infos = {}
    /\ handleVals = [p \in Parts |-> <<>>]
    /\ part = 1
    /\ startIdx = 0
    /\ totalChunk = 0
    /\ i = 0
    /\ sent = {}

-----------------------------------------------------------------------------
(* Faulty variants of the definitions below, for the mutation runs.        *)

\* the next partition starts at the number of its bounds, not of its clauses
NextPartitionShort ==
    /\ pc = "send"
    /\ i = Len(handleVals[part]) + 1
    /\ startIdx' = startIdx + Len(handleVals[part])
    /\ i' = 0
    /\ IF part = NParts THEN pc' = "done" /\ UNCHANGED part
                        ELSE part' = part + 1 /\ UNCHANGED pc
    /\ UNCHANGED <<conf, infos, handleVals, totalChunk, sent>>

\* every other clause is sent
SendClauseToo ==
    /\ pc = "send"
    /\ i <= Len(handleVals[part])
    /\ sent' = sent \cup {Task(startIdx + i, <<>>)}
    /\ i' = i + 2
    /\ UNCHANGED <<pc, conf, infos, handleVals, part, startIdx, totalChunk>>

-----------------------------------------------------------------------------
\* Dump calls renewSelectTableRegionFuncForLowerTiDB before the tables are dumped
LoadRegions ==
    /\ pc = "regions"
    /\ \E info \in conf.infos : \E tbInfo \in TableInfos(info, "t") :
         /\ infos' = {info}
         /\ handleVals' = [p \in Parts |-> [n \in DOMAIN tbInfo |-> <<tbInfo[n]>>]]
    /\ pc' = "loaded"
    /\ UNCHANGED <<conf, part, startIdx, totalChunk, i, sent>>

\* an error of it is only logged, and the function stays selectTiDBTableRegion
LoadRegionsFails ==
    /\ pc = "regions"
    /\ pc' = "bounds"
    /\ UNCHANGED <<conf, infos, handleVals, part, startIdx, totalChunk, i, sent>>

\* A row of TABLESAMPLE ... ORDER BY, or the row id of a region's start key: the server
\* gives them in its order.  A start key that holds no row id is passed over.
ReadBound ==
    /\ pc = "bounds"
    /\ Len(handleVals[part]) < MaxBounds
    /\ \E k \in Keys :
         /\ handleVals[part] # <<>> => Before(handleVals[part][Len(handleVals[part])], k)
         /\ handleVals' = [handleVals EXCEPT ![part] = Append(@, k)]
    /\ UNCHANGED <<pc, conf, infos, part, startIdx, totalChunk, i, sent>>

\* All bounds of a partition are read; those of all partitions are cached to know the
\* number of chunks.
BoundsRead ==
    /\ pc \in {"bounds", "loaded"}
    /\ totalChunk' = totalChunk + Len(handleVals[part]) + 1
    /\ IF part = NParts THEN pc' = "send" /\ part' = 1
                        ELSE part' = part + 1 /\ UNCHANGED pc
    /\ UNCHANGED <<conf, infos, handleVals, startIdx, i, sent>>

\* sendConcurrentDumpTiDBTasks, one clause of the partition, or the whole of it
SendClause ==
    /\ pc = "send"
    /\ i <= Len(handleVals[part])
    /\ LET vals == handleVals[part]
       IN  sent' = sent \cup
             {Task(startIdx + i, IF vals = <<>> THEN <<>> ELSE WhereClause(vals, i + 1))}
    /\ i' = i + 1
    /\ UNCHANGED <<pc, conf, infos, handleVals, part, startIdx, totalChunk>>

NextPartition ==
    /\ pc = "send"
    /\ i = Len(handleVals[part]) + 1
    /\ startIdx' = startIdx + Len(handleVals[part]) + 1
    /\ i' = 0
    /\ IF part = NParts THEN pc' = "done" /\ UNCHANGED part
                        ELSE part' = part + 1 /\ UNCHANGED pc
    /\ UNCHANGED <<conf, infos, handleVals, totalChunk, sent>>

\* a query about the table fails, or the context is done
Fails ==
    /\ pc \in {"bounds", "loaded", "send"}
    /\ pc' = "failed"
    /\ UNCHANGED <<conf, infos, handleVals, part, startIdx, totalChunk, i, sent>>

Terminated == pc \in {"done", "failed"} /\ UNCHANGED vars

Next ==
    \/ LoadRegions \/ LoadRegionsFails
    \/ ReadBound \/ BoundsRead \/ SendClause \/ NextPartition \/ Fails \/ Terminated

Spec == Init /\ [][Next]_vars

-----------------------------------------------------------------------------
(* Properties.                                                             *)

TypeOK ==
    /\ conf \in Configs
    /\ pc \in {"regions", "loaded", "bounds", "send", "done", "failed"}
    /\ infos \subseteq conf.infos
    /\ \A p \in Parts : handleVals[p] \in Seq(Keys)
    /\ part \in Parts
    /\ {startIdx, totalChunk} \subseteq Nat
    /\ i \in 0 .. Len(handleVals[part]) + 1
    /\ \A t \in sent : t.index \in Nat /\ t.part \in Parts /\ t.keys \subseteq Keys

\* the rows that conf.Where selects
Wanted == IF ConfWhere = <<>> THEN Keys ELSE Selected(ConfWhere)

\* After a split every row that was asked for is in exactly one task: the clauses are
\* "(-inf, bound)", "[low, up)" and "[bound, +inf)" (sql.go:702-703, sql.go:740).
EachRowInOneTask ==
    pc = "done" => \A p \in Parts, k \in Wanted :
        \E t \in sent : /\ t.part = p /\ k \in t.keys
                        /\ \A u \in sent : u.part = p /\ k \in u.keys => u = t

\* "Specify the dump range by `where` condition. Dump only the selected records."
\* (docs/en/user-guide.md:32): no task selects a row outside the condition.
OnlyWanted == \A t \in sent : t.keys \subseteq Wanted

\* "If histograms are not accurate or (UPDATE_TIME,DISTINCT_COUNT) has duplicate data, it's
\* still fine.  [...] the effect is that we will select more than one regions in one time"
\* (sql.go:1059-1060).  When the stamps are those of the partitions and tell them apart, it
\* does not happen: no task selects rows on both sides of a start of one of the table's
\* regions.
TasksWithinRegions ==
    pc = "done" => \A info \in infos : Accurate(info) =>
        \A r \in Range(info.regions) : r.id \in OwnIDs(info, "t") /\ r.rowID # NoRowID =>
            \A t \in sent : ~ \E k, l \in t.keys : k[1] < r.rowID /\ r.rowID <= l[1]

\* The tasks of all partitions are numbered from 0 to the announced total without a gap or
\* a number used twice, so that names of files differ and one task is the last one
\* (dump.go:625-648, writer.go:107).
IndexesAreDense ==
    pc = "done" =>
        /\ {t.index : t \in sent} = 0 .. totalChunk - 1
        /\ \A t, u \in sent : t.index = u.index => t = u
=============================================================================
