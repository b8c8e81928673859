------------------------------ MODULE RegionMap ------------------------------
(***************************************************************************)
(* renewSelectTableRegionFuncForLowerTiDB: how the bounds of a table are   *)
(* found on TiDB 3.x, which does not tell which regions a table has.  The  *)
(* identifiers of its partitions are guessed from two lists of histograms, *)
(* the regions that overlap them are looked up, and the row ids in their   *)
(* start keys become the bounds.                                           *)
(*                                                                         *)
(* What the server answers is a record:                                    *)
(*   shown    rows of SHOW STATS_HISTOGRAMS: table, partition, stamp       *)
(*   stats    rows of mysql.stats_histograms: id, stamp                    *)
(*   ids      TIDB_TABLE_ID of every dumped table                          *)
(*   regions  the regions by start key: the identifiers of the tables and  *)
(*            partitions whose rows they hold, and what the start key is,  *)
(*            an identifier and a row id or NoRowID                        *)
(*   own      (observation) the histograms of partitions as they are:      *)
(*            table, partition, id of the partition and stamp              *)
(* A stamp stands for the pair (UPDATE_TIME, DISTINCT_COUNT), a table and a *)
(* partition for their names, NoPartition for the empty name.              *)
(***************************************************************************)
EXTENDS Integers, Sequences, FiniteSetsExt

CONSTANT
    NoRowID  \* of a start key that is no record key with an integer handle

ASSUME RowIDAssumption == NoRowID \notin Int

NoPartition == "none"

\* partitions of dumped tables that SHOW STATS_HISTOGRAMS gives with this stamp; a later
\* row replaces an earlier one in saveMap
SavedPartition(info, stamp) ==
    LET at == {n \in DOMAIN info.shown :
                   /\ info.shown[n].stamp = stamp
                   /\ info.shown[n].partition # NoPartition
                   /\ info.shown[n].table \in DOMAIN info.ids}
    IN {[table |-> info.shown[n].table, partition |-> info.shown[n].partition] :
            n \in IF at = {} THEN {} ELSE {Max(at)}}

\* GetPartitionTableIDs: the identifier of a partition, if any, is that of the last row
\* of mysql.stats_histograms with its stamp
PartitionIDs(info, p) ==
    LET at == {n \in DOMAIN info.stats : p \in SavedPartition(info, info.stats[n].stamp)}
    IN {info.stats[n].id : n \in IF at = {} THEN {} ELSE {Max(at)}}

\* (faulty variant, for mutation runs) the map of a table's partitions is made anew for
\* every row and keeps the last one
TableIDsLast(info, t) ==
    LET at == {n \in DOMAIN info.stats :
                   \E p \in SavedPartition(info, info.stats[n].stamp) : p.table = t}
    IN IF at = {} THEN {info.ids[t]} ELSE {info.stats[Max(at)].id}

\* GetDBInfo: identifiers whose rows are taken for those of table t
TableIDs(info, t) ==
    LET parts == {p \in UNION {SavedPartition(info, info.stats[n].stamp) :
                                   n \in DOMAIN info.stats} : p.table = t}
    IN IF parts = {} THEN {info.ids[t]} ELSE UNION {PartitionIDs(info, p) : p \in parts}

\* GetRegionInfos, and GetRegionsTableInfo of TiDB's helper: a region and an identifier of
\* table t whose rows it holds; the table is listed once for each
RegionsOf(info, t) ==
    {h \in (DOMAIN info.regions) \X TableIDs(info, t) : h[2] \in info.regions[h[1]].holds}

RowID(info, h) == info.regions[h[1]].rowID

\* start keys that are record keys; whose record it is, is not looked at
Handles(info, t) == {h \in RegionsOf(info, t) : RowID(info, h) # NoRowID}

\* tableInfoMap, sorted: their row ids in ascending order, in whatever order equal ones come
TableInfos(info, t) ==
    LET H == Handles(info, t)
        D == 1 .. Cardinality(H)
        Ascending(o) == \A m, n \in D : m < n => RowID(info, o[m]) <= RowID(info, o[n])
    IN {[n \in D |-> RowID(info, o[n])] : o \in {o \in [D -> H] : Range(o) = H /\ Ascending(o)}}

-----------------------------------------------------------------------------
(* What the server has.                                                    *)

\* the identifiers under which the rows of table t are stored
OwnIDs(info, t) ==
    LET own == {p \in info.own : p.table = t}
    IN IF own = {} THEN {info.ids[t]} ELSE {p.id : p \in own}

\* What holds for every answer of a server: the lists, and the regions of a table, are
\* finite, SHOW STATS_HISTOGRAMS makes up no partitions, and a region that starts with a
\* record holds rows of its table.
Answer(info) ==
    /\ info.shown \in Seq(Range(info.shown)) /\ info.stats \in Seq(Range(info.stats))
    /\ info.regions \in Seq(Range(info.regions))
    /\ \A t \in DOMAIN info.ids : Cardinality(Handles(info, t)) \in Nat
    /\ \A r \in Range(info.shown) : r.partition # NoPartition =>
           \E p \in info.own :
               r.table = p.table /\ r.partition = p.partition /\ r.stamp = p.stamp
    /\ \A p \in info.own : p.partition # NoPartition
    /\ \A p, q \in info.own : p.table = q.table /\ p.partition = q.partition => p.id = q.id
    /\ \A r \in Range(info.regions) :
           r.rowID # NoRowID => r.rowID \in Int /\ r.id \in r.holds

\* both lists give the histogram of every partition, under a stamp no other row has
Accurate(info) ==
    \A p \in info.own :
        /\ \E r \in Range(info.shown) :
               r.stamp = p.stamp /\ r.table = p.table /\ r.partition = p.partition
        /\ \A r \in Range(info.shown) :
               r.stamp = p.stamp => r.table = p.table /\ r.partition = p.partition
        /\ \E r \in Range(info.stats) : r.stamp = p.stamp /\ r.id = p.id
        /\ \A r \in Range(info.stats) : r.stamp = p.stamp => r.id = p.id
=============================================================================
