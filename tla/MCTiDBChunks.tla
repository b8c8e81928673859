---------------------------- MODULE MCTiDBChunks ----------------------------
(* ConcatTask over TiDBChunks for TLC.  Texts are numbers.                 *)
EXTENDS ConcatTask

Config(cols, parts, bounds, weight, where, rows) ==
    [cols |-> cols, parts |-> parts, bounds |-> bounds, weight |-> weight, where |-> where,
     infos |-> {}, rows |-> rows, colLens |-> [p \in 1 .. parts |-> 1]]

\* the server's order is that of the texts, and each text has its place in it
Order(n) == [t \in 0 .. n - 1 |-> t]

\* 0 and 1 are the same to the server, as "a" and "A" are in utf8mb4_general_ci
IgnoreCase(n) == [t \in 0 .. n - 1 |-> t \div 2]

\* a comparison of one column, in brackets or alone
Where(cols, n) == <<{k \in [1 .. cols -> 0 .. n - 1] : k[1] # 1}>>

\* TiDB 3.x: two dumped tables of which t has the partitions p and q and s has p; every
\* way in which their histograms can have the same stamps, with or without those of s and
\* of a column of t as a whole; and two lists of regions, some of which hold rows of both
\* tables
Partition(t, p, id, stamp) == [table |-> t, partition |-> p, id |-> id, stamp |-> stamp]
Shown(t, p, stamp) == [table |-> t, partition |-> p, stamp |-> stamp]
Stat(id, stamp) == [id |-> id, stamp |-> stamp]
Region(holds, id, rowID) == [holds |-> holds, id |-> id, rowID |-> rowID]

Regions ==
    { << Region({20, 21}, 20, NoRowID), Region({21, 31}, 21, 2), Region({31}, 31, 1),
         Region({32}, 32, NoRowID), Region({32}, 32, 0), Region({32}, 32, 2) >>,
      << Region({21, 31, 32}, 21, 3), Region({32}, 32, 1), Region({32}, 32, 3) >> }

Info(x, y, z, first, regions) ==
    LET shown == << Shown("t", "p", x), Shown("t", "q", y), Shown("s", "p", z) >>
        stats == << Stat(31, x), Stat(32, y), Stat(21, z) >>
    IN [ids |-> [t \in {"s", "t"} |-> IF t = "s" THEN 20 ELSE 30],
        own |-> { Partition("t", "p", 31, x), Partition("t", "q", 32, y),
                  Partition("s", "p", 21, z) },
        shown |-> <<Shown("t", NoPartition, first)>> \o shown,
        stats |-> <<Stat(30, first)>> \o stats,
        regions |-> regions]

Infos == {Info(x, y, z, w, rs) : x, y, z \in 1 .. 3, w \in {1, 4}, rs \in Regions}

\* a row key of three columns, and partitioned tables with a row key of one column, also
\* with --where and in a collation that ignores case; with --rows and without; a column
\* added while the partitions are split; and TiDB 3.x
MCConfigs ==
    {Config(3, 1, 3, Order(3), <<>>, 1), Config(1, 3, 2, Order(4), <<>>, 1),
     Config(1, 3, 2, Order(4), Where(1, 4), 1), Config(1, 2, 2, IgnoreCase(4), <<>>, 0),
     Config(2, 1, 3, Order(2), <<>>, 0), Config(1, 3, 1, Order(3), <<>>, 0),
     [Config(1, 2, 2, Order(3), <<>>, 0) EXCEPT !.colLens = <<1, 2>>],
     [Config(1, 1, 2, Order(5), <<>>, 0) EXCEPT !.infos = Infos]}

\* a row key of two columns and --where
MCWhere == {Config(2, 1, 2, Order(3), Where(2, 3), 1)}
=============================================================================
