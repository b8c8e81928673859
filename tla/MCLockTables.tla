---------------------------- MODULE MCLockTables -----------------------------
(* A small instance of LockTables for TLC.                                 *)
EXTENDS LockTables, TLC

CONSTANTS d1, d2, a, b, c, e, v

\* two tables and a view in one database, two tables in the other, one with a dotted name
MCDatabaseOf == (a :> d1) @@ (b :> d1) @@ (e :> d2) @@ (v :> d1) @@ (c :> d2)

Config(dbs, noViews, dumpEmpty, match, schemas, consistency, transactional) ==
    [databases |-> dbs, noViews |-> noViews, dumpEmpty |-> dumpEmpty,
     matchTable |-> match, matchSchema |-> schemas,
     consistency |-> consistency, transactional |-> transactional]

\* everything under locks; locks that are dropped early, tables only; one database of
\* which the filter takes a table; a filter that leaves one database empty; only a view
\* to lock; and no consistency
MCConfigs ==
    { Config({}, FALSE, FALSE, {a, b, c, e, v}, {d1, d2}, "lock", FALSE),
      Config({}, TRUE, FALSE, {a, b, e}, {d1, d2}, "lock", TRUE),
      Config({d2}, FALSE, TRUE, {c}, {d2}, "lock", FALSE),
      Config({}, FALSE, TRUE, {a, v}, {d1, d2}, "lock", TRUE),
      Config({d1}, FALSE, FALSE, {v}, {d1}, "lock", FALSE),
      Config({}, FALSE, TRUE, {b, c}, {d1, d2}, "none", FALSE) }
=============================================================================
