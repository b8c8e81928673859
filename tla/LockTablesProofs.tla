--------------------------- MODULE LockTablesProofs ---------------------------
(***************************************************************************)
(* Proofs about LockTables: for every set of databases, tables and views,  *)
(* every configuration and number of attempts, and whatever statements     *)
(* other clients execute between the steps of the dump.                    *)
(*                                                                         *)
(* The invariants hold because what is not on the server has been missing  *)
(* at some time: the block list holds only such tables, the list of tables *)
(* lacks only such tables, and both only matter where something is not     *)
(* missing.                                                                *)
(***************************************************************************)
EXTENDS LockTables, FiniteSetTheorems, TLAPS

USE ObjectsAssumption, ListConfigsAssumption, RetryAssumption

LEMMA ListedMember ==
    ASSUME NEW ts, NEW o
    PROVE o \in Listed(ts) <=> \E d \in DOMAIN ts : o \in ts[d]
  BY DEF Listed

LEMMA ConfType ==
    ASSUME conf \in Configs
    PROVE /\ conf.databases \subseteq Databases
          /\ conf.matchTable \subseteq Objects
          /\ conf.matchSchema \subseteq Databases
          /\ conf.consistency \in {"lock", "none"}
          /\ \A o \in conf.matchTable : DatabaseOf[o] \in conf.matchSchema
  BY DEF Configurations

LEMMA InType == \A os, d : In(os, d) \subseteq os
  BY DEF In

LEMMA TablesListed ==
    ASSUME NEW ds, NEW type
    PROVE /\ DOMAIN ListAllDatabasesTables(ds, type) = ds
          /\ \A d \in ds : \A o :
                 o \in ListAllDatabasesTables(ds, type)[d]
                     <=> o \in exists /\ o \in type /\ DatabaseOf[o] = d
  BY DEF ListAllDatabasesTables, In

LEMMA FilterMember ==
    ASSUME NEW ts
    PROVE /\ \A d : d \in DOMAIN FilterTables(ts)
                 <=> /\ d \in DOMAIN ts
                     /\ \/ ts[d] \cap conf.matchTable # {}
                        \/ conf.dumpEmpty /\ d \in conf.matchSchema
          /\ \A d \in DOMAIN FilterTables(ts) :
                 FilterTables(ts)[d] = ts[d] \cap conf.matchTable
  BY DEF FilterTables

LEMMA MergeMember ==
    ASSUME NEW ts, NEW other
    PROVE /\ DOMAIN Merge(ts, other) = DOMAIN ts
          /\ \A d \in DOMAIN ts : Merge(ts, other)[d] = ts[d] \cup other[d]
  BY DEF Merge

-----------------------------------------------------------------------------
(* The server: what it lacks has been missing; what is locked is there.    *)

ServerInv ==
    /\ databases \subseteq Databases /\ exists \subseteq Objects
    /\ missed \subseteq Objects \cup Databases
    /\ ddl \in 0 .. MaxDDL
    /\ Objects \ exists \subseteq missed
    /\ Databases \ databases \subseteq missed
    /\ locked \subseteq exists

LEMMA ServerInit == Init => ServerInv
  BY DEF Init, ServerInv

LEMMA ServerStep == ServerInv /\ [Next]_vars => ServerInv'
<1> SUFFICES ASSUME ServerInv, [Next]_vars PROVE ServerInv'
  OBVIOUS
<1> USE DEF ServerInv, serverVars, lockVars
<1>1. ASSUME NEW o \in Objects, Drop(o) PROVE ServerInv'
  BY <1>1 DEF Drop
<1>2. ASSUME NEW o \in Objects, Create(o) PROVE ServerInv'
  BY <1>2 DEF Create
<1>3. ASSUME NEW d \in Databases, DropDatabase(d) PROVE ServerInv'
  <2>1. In(exists, d) \subseteq exists
    BY InType
  <2>2. locked \cap In(exists, d) = {}
    BY <1>3 DEF DropDatabase, In
  <2> QED
    BY <1>3, <2>1, <2>2 DEF DropDatabase
<1>4. ASSUME NEW d \in Databases, CreateDatabase(d) PROVE ServerInv'
  BY <1>4 DEF CreateDatabase
<1>5. CASE Lock
  BY <1>5 DEF Lock
<1>6. CASE Start \/ Return
  BY <1>6 DEF Start, Return
<1>7. CASE UNCHANGED <<serverVars, locked>>
  BY <1>7
<1>8. CASE List
  BY <1>7, <1>8 DEF List, PrepareDumpingDatabases, ListAllTables, ListAllViews, ListFails
<1>9. ASSUME NEW o \in Objects, NoSuchTable(o) PROVE ServerInv'
  BY <1>7, <1>9 DEF NoSuchTable
<1>10. CASE SetupNone \/ LockFails
  BY <1>7, <1>10 DEF SetupNone, LockFails
<1>11. ASSUME NEW d \in Databases, NextDatabase(d) PROVE ServerInv'
  BY <1>7, <1>11 DEF NextDatabase
<1>12. ASSUME NEW o \in Objects, DumpTable(o) \/ ReadTable(o) PROVE ServerInv'
  BY <1>7, <1>12 DEF DumpTable, ReadTable
<1>13. CASE UNCHANGED vars
  BY <1>7, <1>13 DEF vars
<1> QED
  BY <1>1, <1>2, <1>3, <1>4, <1>5, <1>6, <1>8, <1>9, <1>10, <1>11, <1>12, <1>13, Zenon
  DEF Next, Clients, Setup, Walk, Done

-----------------------------------------------------------------------------
(* The list: between its three queries whatever is there all along has     *)
(* been listed as far as the queries have come.                            *)

Steps == {"databases", "tables", "views", "setup", "start", "dump", "unwind", "failed",
          "done"}

Wanted == {d \in Databases \ missed : conf.databases = {} \/ d \in conf.databases}

ListInv ==
    /\ conf \in Configs /\ pc \in Steps
    /\ names \subseteq Databases
    /\ DOMAIN tables \subseteq Databases
    /\ \A d \in DOMAIN tables : tables[d] \subseteq Objects
    /\ pc \in {"tables", "views"} => Wanted \subseteq names
    /\ pc = "views" =>
           /\ ~conf.noViews
           /\ DOMAIN tables = names
           /\ \A d \in names : tables[d] \subseteq Base
           /\ \A o \in Base \ missed :
                  DatabaseOf[o] \in names => o \in tables[DatabaseOf[o]]
    /\ ListComplete

LEMMA ListInit == Init => ListInv
<1> SUFFICES ASSUME Init PROVE ListInv
  OBVIOUS
<1>1. ~AfterListing
  BY DEF Init, AfterListing
<1> QED
  BY <1>1 DEF Init, ListInv, ListComplete, Steps

\* steps that leave the list alone keep the invariant, whatever goes missing
LEMMA ListKept ==
    ASSUME ListInv, conf' = conf, names' = names, tables' = tables, missed \subseteq missed',
           pc' \in Steps, pc' \in {"tables", "views"} => pc' = pc,
           AfterListing' => AfterListing
    PROVE ListInv'
<1>1. Wanted' \subseteq Wanted
  BY DEF Wanted
<1>2. ListComplete'
  <2> SUFFICES ASSUME AfterListing' PROVE ListComplete'
    BY DEF ListComplete
  <2>1. /\ \A o \in conf.matchTable \ missed :
              DatabaseOf[o] \in Wanted /\ (o \in View => ~conf.noViews)
                  => DatabaseOf[o] \in DOMAIN tables /\ o \in tables[DatabaseOf[o]]
        /\ conf.dumpEmpty => Wanted \cap conf.matchSchema \subseteq DOMAIN tables
        /\ Listed(tables) \subseteq conf.matchTable
        /\ conf.noViews => Listed(tables) \subseteq Base
    BY DEF ListInv, ListComplete, Wanted
  <2>2. /\ \A o \in conf'.matchTable \ missed' :
              DatabaseOf[o] \in Wanted' /\ (o \in View => ~conf'.noViews)
                  => DatabaseOf[o] \in DOMAIN tables' /\ o \in tables'[DatabaseOf[o]]
        /\ conf'.dumpEmpty => Wanted' \cap conf'.matchSchema \subseteq DOMAIN tables'
        /\ Listed(tables)' \subseteq conf'.matchTable
        /\ conf'.noViews => Listed(tables)' \subseteq Base
    BY <1>1, <2>1 DEF Listed
  <2> QED
    BY <2>2 DEF ListComplete, Wanted
<1> QED
  BY <1>1, <1>2 DEF ListInv

\* what the filter returns is a complete list, if it was given one
LEMMA FilterComplete ==
    ASSUME ListInv, NEW ts,
           DOMAIN ts \subseteq Databases, \A d \in DOMAIN ts : ts[d] \subseteq Objects,
           Wanted \subseteq DOMAIN ts,
           \A o \in Objects \ missed : DatabaseOf[o] \in DOMAIN ts /\ (o \in View => ~conf.noViews)
               => o \in ts[DatabaseOf[o]],
           conf.noViews => \A d \in DOMAIN ts : ts[d] \subseteq Base,
           tables' = FilterTables(ts), UNCHANGED <<conf, missed, names>>,
           pc' \in {"setup", "start"}
    PROVE ListInv'
<1>1. /\ DOMAIN tables' \subseteq DOMAIN ts
      /\ \A d \in DOMAIN tables' : tables'[d] = ts[d] \cap conf.matchTable
      /\ \A d \in DOMAIN ts : ts[d] \cap conf.matchTable # {} => d \in DOMAIN tables'
      /\ \A d \in DOMAIN ts : conf.dumpEmpty /\ d \in conf.matchSchema => d \in DOMAIN tables'
  BY FilterMember
<1>2. \A o \in conf.matchTable \ missed :
          DatabaseOf[o] \in Wanted /\ (o \in View => ~conf.noViews)
              => DatabaseOf[o] \in DOMAIN tables' /\ o \in tables'[DatabaseOf[o]]
  <2> SUFFICES ASSUME NEW o \in conf.matchTable \ missed, DatabaseOf[o] \in Wanted,
                      o \in View => ~conf.noViews
               PROVE DatabaseOf[o] \in DOMAIN tables' /\ o \in tables'[DatabaseOf[o]]
    OBVIOUS
  <2>1. o \in Objects /\ DatabaseOf[o] \in DOMAIN ts
    BY ConfType DEF ListInv
  <2>2. o \in ts[DatabaseOf[o]] \cap conf.matchTable
    BY <2>1
  <2> QED
    BY <2>1, <2>2, <1>1
<1>3. conf.dumpEmpty => Wanted \cap conf.matchSchema \subseteq DOMAIN tables'
  BY <1>1
<1>4. /\ \A d \in DOMAIN tables' : tables'[d] \subseteq conf.matchTable
      /\ conf.noViews => \A d \in DOMAIN tables' : tables'[d] \subseteq Base
  BY <1>1
<1>5. Listed(tables') \subseteq conf.matchTable /\ (conf.noViews => Listed(tables') \subseteq Base)
  BY <1>4, ListedMember
<1>6. ListComplete'
  BY <1>2, <1>3, <1>5 DEF ListComplete, Wanted
<1> QED
  BY <1>1, <1>6 DEF ListInv, Steps

LEMMA ListStep == ServerInv /\ ListInv /\ [Next]_vars => ListInv'
<1> SUFFICES ASSUME ServerInv, ListInv, [Next]_vars PROVE ListInv'
  OBVIOUS
<1> USE DEF serverVars, listVars, AfterListing, Steps
<1>1. ASSUME NEW o \in Objects, Drop(o) \/ Create(o) PROVE ListInv'
  <2>1. /\ UNCHANGED <<conf, names, tables, pc>> /\ missed \subseteq missed'
    BY <1>1 DEF Drop, Create
  <2> QED
    BY <2>1, ListKept DEF ListInv
<1>2. ASSUME NEW d \in Databases, DropDatabase(d) \/ CreateDatabase(d) PROVE ListInv'
  <2>1. /\ UNCHANGED <<conf, names, tables, pc>> /\ missed \subseteq missed'
    BY <1>2 DEF DropDatabase, CreateDatabase
  <2> QED
    BY <2>1, ListKept DEF ListInv
<1>3. CASE PrepareDumpingDatabases
  <2>1. /\ UNCHANGED <<conf, missed, tables>> /\ pc' \in {"tables", "failed"}
        /\ pc' = "tables" => names' = databases \/ names' = conf.databases
        /\ names' \in {databases, conf.databases}
        /\ conf.databases # {} => names' = conf.databases
        /\ conf.databases = {} => names' = databases
    BY <1>3 DEF PrepareDumpingDatabases
  <2>2. names' \subseteq Databases
    BY <2>1, ConfType DEF ServerInv, ListInv
  <2>3. Wanted' \subseteq names'
    BY <2>1 DEF ServerInv, Wanted
  <2> QED
    BY <2>1, <2>2, <2>3 DEF ListInv, ListComplete
<1>4. CASE ListAllTables
  <2> DEFINE listed == ListAllDatabasesTables(names, Base)
  <2>1. pc = "tables" /\ UNCHANGED <<conf, missed, names>> /\ Wanted \subseteq names
    BY <1>4 DEF ListAllTables, ListInv
  <2>2. /\ DOMAIN listed = names /\ \A d \in names : listed[d] \subseteq Base
        /\ \A o \in Base \ missed : DatabaseOf[o] \in names => o \in listed[DatabaseOf[o]]
    BY TablesListed DEF ServerInv, Objects
  <2>3. CASE conf.noViews
    <3>1. tables' = FilterTables(listed) /\ pc' \in {"setup", "start"}
      BY <1>4, <2>3, Zenon DEF ListAllTables
    <3>2. \A o \in Objects \ missed :
              DatabaseOf[o] \in DOMAIN listed /\ (o \in View => ~conf.noViews)
                  => o \in listed[DatabaseOf[o]]
      BY <2>2, <2>3 DEF Objects
    <3>3. \A d \in DOMAIN listed : listed[d] \subseteq Objects /\ listed[d] \subseteq Base
      BY <2>2 DEF Objects
    <3> HIDE DEF listed
    <3> QED
      BY <2>1, <2>2, <3>1, <3>2, <3>3, FilterComplete, Zenon DEF ListInv
  <2>4. CASE ~conf.noViews
    <3>1. tables' = listed /\ pc' = "views"
      BY <1>4, <2>4 DEF ListAllTables
    <3>2. Wanted' = Wanted
      BY <2>1 DEF Wanted
    <3> HIDE DEF listed
    <3> QED
      BY <2>1, <2>2, <2>4, <3>1, <3>2 DEF ListInv, ListComplete, Objects
  <2> QED
    BY <2>3, <2>4
<1>5. CASE ListAllViews
  <2> DEFINE views == ListAllDatabasesTables(names, View)
             merged == Merge(tables, views)
  <2>1. /\ pc = "views" /\ UNCHANGED <<conf, missed, names>>
        /\ tables' = FilterTables(merged) /\ pc' \in {"setup", "start"}
    BY <1>5 DEF ListAllViews
  <2>2. /\ Wanted \subseteq names /\ ~conf.noViews /\ DOMAIN tables = names
        /\ \A d \in names : tables[d] \subseteq Base
        /\ \A o \in Base \ missed : DatabaseOf[o] \in names => o \in tables[DatabaseOf[o]]
    BY <2>1 DEF ListInv
  <2>3. /\ DOMAIN views = names /\ \A d \in names : views[d] \subseteq View
        /\ \A o \in View \ missed : DatabaseOf[o] \in names => o \in views[DatabaseOf[o]]
    BY TablesListed DEF ServerInv, Objects
  <2>4. DOMAIN merged = names /\ \A d \in names : merged[d] = tables[d] \cup views[d]
    BY <2>2, MergeMember
  <2> HIDE DEF views, merged
  <2>5. \A d \in DOMAIN merged : merged[d] \subseteq Objects
    BY <2>2, <2>3, <2>4 DEF Objects
  <2>6. \A o \in Objects \ missed : DatabaseOf[o] \in DOMAIN merged
            => o \in merged[DatabaseOf[o]]
    BY <2>2, <2>3, <2>4 DEF Objects
  <2> QED
    BY <2>1, <2>2, <2>4, <2>5, <2>6, FilterComplete DEF ListInv
<1>6. CASE ListFails \/ SetupNone \/ Lock \/ LockFails \/ Start \/ Return
  <2>1. /\ UNCHANGED <<conf, names, tables>> /\ missed \subseteq missed' /\ pc' \in Steps
        /\ pc' \notin {"tables", "views"}
        /\ AfterListing' => AfterListing
    BY <1>6 DEF ListFails, SetupNone, Lock, LockFails, Start, Return
  <2> QED
    BY <2>1, ListKept
<1>7. ASSUME NEW o \in Objects, NoSuchTable(o) \/ DumpTable(o) \/ ReadTable(o) PROVE ListInv'
  <2>1. /\ UNCHANGED <<conf, names, tables>> /\ missed \subseteq missed' /\ pc' \in Steps
        /\ pc' \notin {"tables", "views"}
        /\ AfterListing' => AfterListing
    BY <1>7 DEF NoSuchTable, DumpTable, ReadTable
  <2> QED
    BY <2>1, ListKept
<1>8. ASSUME NEW d \in Databases, NextDatabase(d) PROVE ListInv'
  <2>1. /\ UNCHANGED <<conf, names, tables>> /\ missed \subseteq missed' /\ pc' \in Steps
        /\ pc' \notin {"tables", "views"}
        /\ AfterListing' => AfterListing
    BY <1>8 DEF NextDatabase
  <2> QED
    BY <2>1, ListKept
<1>9. CASE UNCHANGED vars
  <2>1. UNCHANGED <<conf, names, tables, missed, pc>>
    BY <1>9 DEF vars
  <2> QED
    BY <2>1, ListKept DEF ListInv
<1> QED
  BY <1>1, <1>2, <1>3, <1>4, <1>5, <1>6, <1>7, <1>8, <1>9
  DEF Next, Clients, List, Setup, Walk, Done

-----------------------------------------------------------------------------
(* LOCK TABLES: the block list holds listed tables that have been missing, *)
(* one for every attempt that is used up.                                  *)

BaseListed == Listed(tables) \cap Base

LockInv ==
    /\ blockList \subseteq BaseListed /\ blockList \subseteq missed
    /\ IsFiniteSet(blockList)
    /\ attempt \in 0 .. Attempts
    /\ pc \in {"databases", "tables", "views"} => blockList = {}
    /\ conf.consistency = "none" => blockList = {}
    /\ pc # "failed" => cause = "none" /\ attempt > 0
    /\ cause = "none" => Cardinality(blockList) + attempt = Attempts
    /\ cause = "missing" => \/ Cardinality(blockList) = Attempts
                            \/ BaseListed \cap missed \cap Dotted # {}
    /\ cause = "empty" => BaseListed \subseteq blockList
    /\ conf.consistency = "lock" /\ pc \in {"start", "dump", "unwind", "done"} =>
           cut = BaseListed \ blockList

LEMMA LockInit == Init => LockInv
<1> SUFFICES ASSUME Init PROVE LockInv
  OBVIOUS
<1>1. IsFiniteSet({}) /\ Cardinality({}) = 0
  BY FS_EmptySet, Zenon
<1> QED
  BY <1>1 DEF Init, LockInv

\* steps that leave the list, the block list and the locks alone
LEMMA LockKept ==
    ASSUME LockInv, UNCHANGED <<conf, tables, blockList, attempt, cut, cause>>,
           missed \subseteq missed',
           pc' \in {"databases", "tables", "views"} =>
               pc \in {"databases", "tables", "views"} \/ conf.consistency = "none",
           pc' # "failed" => pc # "failed",
           conf.consistency = "lock" /\ pc' \in {"start", "dump", "unwind", "done"} =>
               pc \in {"start", "dump", "unwind", "done"}
    PROVE LockInv'
<1>1. BaseListed' = BaseListed
  BY DEF BaseListed
<1> QED
  BY <1>1 DEF LockInv

LEMMA LockStep == ServerInv /\ ListInv /\ LockInv /\ [Next]_vars => LockInv'
<1> SUFFICES ASSUME ServerInv, ListInv, LockInv, [Next]_vars PROVE LockInv'
  OBVIOUS
<1> USE DEF serverVars, listVars, lockVars
<1>1. ASSUME NEW o \in Objects, Drop(o) \/ Create(o) PROVE LockInv'
  <2>1. /\ UNCHANGED <<conf, tables, blockList, attempt, cut, cause, pc>>
        /\ missed \subseteq missed'
    BY <1>1 DEF Drop, Create
  <2> QED
    BY <2>1, LockKept
<1>2. ASSUME NEW d \in Databases, DropDatabase(d) \/ CreateDatabase(d) PROVE LockInv'
  <2>1. /\ UNCHANGED <<conf, tables, blockList, attempt, cut, cause, pc>>
        /\ missed \subseteq missed'
    BY <1>2 DEF DropDatabase, CreateDatabase
  <2> QED
    BY <2>1, LockKept
<1>3. CASE PrepareDumpingDatabases \/ ListFails
  <2>1. /\ UNCHANGED <<conf, tables, blockList, attempt, cut, cause, missed>>
        /\ pc \in {"databases", "tables", "views"} /\ pc' \in {"tables", "failed"}
    BY <1>3 DEF PrepareDumpingDatabases, ListFails
  <2> QED
    BY <2>1, LockKept
<1>4. CASE ListAllTables \/ ListAllViews
  <2>1. /\ UNCHANGED <<conf, blockList, attempt, cut, cause>>
        /\ pc \in {"tables", "views"}
        /\ pc' \in {"views", "setup", "start"}
        /\ conf.consistency = "lock" => pc' # "start"
    BY <1>4 DEF ListAllTables, ListAllViews
  <2>2. blockList = {} /\ cause = "none"
    BY <2>1 DEF LockInv
  <2> QED
    BY <2>1, <2>2 DEF LockInv
<1>5. CASE SetupNone
  <2>1. /\ UNCHANGED <<conf, tables, blockList, attempt, cut, cause, missed>>
        /\ pc = "setup" /\ conf.consistency = "none" /\ pc' = "databases"
    BY <1>5 DEF SetupNone
  <2> QED
    BY <2>1, LockKept
<1>6. CASE Lock
  <2>1. /\ UNCHANGED <<conf, tables, blockList, attempt, cause, missed>>
        /\ pc = "setup" /\ pc' = "start" /\ conf.consistency = "lock"
        /\ cut' = BaseListed \ blockList
    BY <1>6, Zenon DEF Lock, BuildLockTablesSQL, BaseListed
  <2>2. BaseListed' = BaseListed
    BY <2>1 DEF BaseListed
  <2> QED
    BY <2>1, <2>2 DEF LockInv
<1>7. ASSUME NEW o \in Objects, NoSuchTable(o) PROVE LockInv'
  <2>1. /\ UNCHANGED <<conf, tables, cut, missed>>
        /\ pc = "setup" /\ conf.consistency = "lock" /\ pc' \in {"setup", "failed"}
        /\ o \in BaseListed /\ o \notin blockList /\ o \notin exists
    BY <1>7 DEF NoSuchTable, BuildLockTablesSQL, BaseListed
  <2>2. o \in missed /\ BaseListed' = BaseListed
    BY <2>1 DEF ServerInv, BaseListed
  <2>3. cause = "none" /\ attempt > 0 /\ Cardinality(blockList) + attempt = Attempts
    BY <2>1 DEF LockInv
  <2>4. CASE o \in Dotted
    <3>1. attempt' = 0 /\ blockList' = blockList /\ pc' = "failed" /\ cause' = "missing"
      BY <1>7, <2>4 DEF NoSuchTable
    <3>2. BaseListed \cap missed \cap Dotted # {}
      BY <2>1, <2>2, <2>4
    <3> QED
      BY <2>1, <2>2, <3>1, <3>2 DEF LockInv
  <2>5. CASE o \notin Dotted
    <3>1. /\ attempt' = attempt - 1 /\ blockList' = blockList \cup {o}
          /\ attempt' = 0 => pc' = "failed" /\ cause' = "missing"
          /\ attempt' # 0 => pc' = pc /\ cause' = cause
      BY <1>7, <2>5 DEF NoSuchTable
    <3>2. /\ IsFiniteSet(blockList') /\ Cardinality(blockList) \in Nat
          /\ Cardinality(blockList') = Cardinality(blockList) + 1
      BY <2>1, <3>1, FS_AddElement, FS_CardinalityType DEF LockInv
    <3>3. Cardinality(blockList)' = Cardinality(blockList')
      OBVIOUS
    <3>4. attempt' \in 0 .. Attempts /\ Cardinality(blockList') + attempt' = Attempts
      BY <2>3, <3>1, <3>2 DEF LockInv
    <3>5. blockList' \subseteq BaseListed' /\ blockList' \subseteq missed'
      BY <2>1, <2>2, <3>1 DEF LockInv
    <3>6. CASE attempt' = 0
      BY <2>1, <3>1, <3>2, <3>4, <3>5, <3>6 DEF LockInv
    <3>7. CASE attempt' # 0
      BY <2>1, <2>3, <3>1, <3>2, <3>4, <3>5, <3>7 DEF LockInv
    <3> QED
      BY <3>6, <3>7
  <2> QED
    BY <2>4, <2>5
<1>8. CASE LockFails
  <2>1. /\ UNCHANGED <<conf, tables, blockList, cut, missed>>
        /\ pc' = "failed" /\ attempt' = 0 /\ conf.consistency = "lock"
        /\ cause' \in {"empty", "other"}
        /\ cause' = "empty" => BaseListed \ blockList = {}
    BY <1>8 DEF LockFails, BuildLockTablesSQL, BaseListed
  <2>2. BaseListed' = BaseListed
    BY <2>1 DEF BaseListed
  <2> QED
    BY <2>1, <2>2 DEF LockInv
<1>9. CASE Start \/ Return
  <2>1. /\ UNCHANGED <<conf, tables, blockList, attempt, cut, cause, missed>>
        /\ pc \in {"start", "dump", "unwind"} /\ pc' \in {"dump", "done", "failed"}
    BY <1>9 DEF Start, Return
  <2> QED
    BY <2>1, LockKept
<1>10. ASSUME NEW o \in Objects, DumpTable(o) \/ ReadTable(o) PROVE LockInv'
  <2>1. /\ UNCHANGED <<conf, tables, blockList, attempt, cut, cause, missed>>
        /\ pc = "dump" /\ pc' \in {"dump", "unwind"}
    BY <1>10 DEF DumpTable, ReadTable
  <2> QED
    BY <2>1, LockKept
<1>11. ASSUME NEW d \in Databases, NextDatabase(d) PROVE LockInv'
  <2>1. /\ UNCHANGED <<conf, tables, blockList, attempt, cut, cause, missed>>
        /\ pc = "dump" /\ pc' \in {"dump", "unwind"}
    BY <1>11 DEF NextDatabase
  <2> QED
    BY <2>1, LockKept
<1>12. CASE UNCHANGED vars
  <2>1. UNCHANGED <<conf, tables, blockList, attempt, cut, cause, missed, pc>>
    BY <1>12 DEF vars
  <2> QED
    BY <2>1, LockKept
<1> QED
  BY <1>1, <1>2, <1>3, <1>4, <1>5, <1>6, <1>7, <1>8, <1>9, <1>10, <1>11, <1>12
  DEF Next, Clients, List, Setup, Walk, Done

-----------------------------------------------------------------------------
(* The walk over the list: every database is still to come, or written and *)
(* with each of its tables waiting, handed to a writer or written.         *)

WalkInv ==
    /\ pc \notin {"dump", "unwind", "failed", "done"} =>
           left = {} /\ unread = {} /\ dumped = {}
    /\ pc \in {"dump", "done"} =>
           /\ \A d \in DOMAIN tables :
                  \/ d \in dbsLeft
                  \/ d \in dumped /\ tables[d] \subseteq left \cup unread \cup dumped
           /\ dbsLeft \subseteq DOMAIN tables
           /\ left \subseteq Listed(tables) /\ unread \subseteq Listed(tables)
           /\ dumped \subseteq DOMAIN tables \cup Listed(tables)
    /\ pc = "done" => dbsLeft = {} /\ left = {} /\ unread = {}

LEMMA WalkInit == Init => WalkInv
  BY DEF Init, WalkInv

LEMMA WalkStep == ListInv /\ WalkInv /\ [Next]_vars => WalkInv'
<1> SUFFICES ASSUME ListInv, WalkInv, [Next]_vars PROVE WalkInv'
  OBVIOUS
<1> USE DEF serverVars, listVars, lockVars, dumpVars
<1>1. CASE UNCHANGED <<tables, dumpVars, pc>>
  <2>1. Listed(tables)' = Listed(tables)
    BY <1>1, Zenon DEF Listed
  <2> QED
    BY <1>1, <2>1 DEF WalkInv
<1>2. ASSUME NEW o \in Objects, Drop(o) \/ Create(o) PROVE WalkInv'
  BY <1>1, <1>2 DEF Drop, Create
<1>3. ASSUME NEW d \in Databases, DropDatabase(d) \/ CreateDatabase(d) PROVE WalkInv'
  BY <1>1, <1>3 DEF DropDatabase, CreateDatabase
<1>4. CASE List \/ SetupNone \/ Lock \/ LockFails
  <2>1. /\ UNCHANGED dumpVars /\ pc \notin {"dump", "unwind", "failed", "done"}
        /\ pc' \notin {"dump", "unwind", "done"}
    BY <1>4, Zenon DEF List, PrepareDumpingDatabases, ListAllTables, ListAllViews, ListFails,
                SetupNone, Lock, LockFails
  <2> QED
    BY <2>1 DEF WalkInv
<1>5. ASSUME NEW o \in Objects, NoSuchTable(o) PROVE WalkInv'
  <2>1. UNCHANGED dumpVars /\ pc = "setup" /\ pc' \in {"setup", "failed"}
    BY <1>5 DEF NoSuchTable
  <2> QED
    BY <2>1 DEF WalkInv
<1>6. CASE Start
  <2>1. /\ pc = "start" /\ pc' = "dump" /\ dbsLeft' = DOMAIN tables /\ tables' = tables
        /\ UNCHANGED <<left, unread, dumped>>
    BY <1>6 DEF Start
  <2> QED
    BY <2>1 DEF WalkInv
<1>7. CASE Return
  <2>1. /\ UNCHANGED <<tables, dumpVars>> /\ pc' \in {"done", "failed"}
        /\ pc' = "done" => pc = "dump" /\ dbsLeft = {} /\ left = {} /\ unread = {}
    BY <1>7 DEF Return
  <2>2. Listed(tables)' = Listed(tables)
    BY <2>1 DEF Listed
  <2> QED
    BY <2>1, <2>2 DEF WalkInv
<1>8. ASSUME NEW d \in Databases, NextDatabase(d) PROVE WalkInv'
  <2>1. pc = "dump" /\ left = {} /\ d \in dbsLeft /\ UNCHANGED <<tables, unread>>
    BY <1>8 DEF NextDatabase
  <2>2. CASE d \notin databases
    BY <1>8, <2>1, <2>2 DEF NextDatabase, WalkInv
  <2>3. CASE d \in databases
    <3>1. /\ pc' = pc /\ dbsLeft' = dbsLeft \ {d} /\ left' = tables[d]
          /\ dumped' = dumped \cup {d}
      BY <1>8, <2>3 DEF NextDatabase
    <3>2. d \in DOMAIN tables /\ Listed(tables)' = Listed(tables)
      BY <2>1 DEF WalkInv, Listed
    <3>3. tables[d] \subseteq Listed(tables)
      BY <3>2, ListedMember
    <3>4. \A e \in DOMAIN tables :
              \/ e \in dbsLeft'
              \/ e \in dumped' /\ tables[e] \subseteq left' \cup unread \cup dumped'
      BY <2>1, <3>1 DEF WalkInv
    <3> QED
      BY <2>1, <3>1, <3>2, <3>3, <3>4 DEF WalkInv
  <2> QED
    BY <2>2, <2>3
<1>9. ASSUME NEW o \in Objects, DumpTable(o) \/ ReadTable(o) PROVE WalkInv'
  <2>1. pc = "dump" /\ o \in left \cup unread /\ UNCHANGED <<tables, dbsLeft>>
    BY <1>9 DEF DumpTable, ReadTable
  <2>2. CASE o \notin exists
    BY <1>9, <2>1, <2>2, Zenon DEF DumpTable, ReadTable, WalkInv
  <2>3. CASE o \in exists
    <3>1. /\ pc' = pc /\ Listed(tables)' = Listed(tables)
          /\ left' \subseteq left /\ unread' \subseteq unread \cup {o}
          /\ dumped \subseteq dumped' /\ dumped' \subseteq dumped \cup {o}
      BY <1>9, <2>1, <2>3 DEF DumpTable, ReadTable, Listed
    <3>2. left \cup unread \cup dumped \subseteq left' \cup unread' \cup dumped'
      BY <1>9, <2>3 DEF DumpTable, ReadTable, Objects
    <3>3. o \in Listed(tables)
      BY <2>1 DEF WalkInv
    <3>4. \A e \in DOMAIN tables :
              \/ e \in dbsLeft
              \/ e \in dumped' /\ tables[e] \subseteq left' \cup unread' \cup dumped'
      BY <2>1, <3>1, <3>2 DEF WalkInv
    <3> QED
      BY <2>1, <3>1, <3>3, <3>4 DEF WalkInv
  <2> QED
    BY <2>2, <2>3
<1>10. CASE UNCHANGED vars
  BY <1>1, <1>10 DEF vars
<1> QED
  BY <1>2, <1>3, <1>4, <1>5, <1>6, <1>7, <1>8, <1>9, <1>10
  DEF Next, Clients, Setup, Walk, Done

-----------------------------------------------------------------------------

Inv == ServerInv /\ ListInv /\ LockInv /\ WalkInv

LEMMA InvHolds == Spec => []Inv
<1>1. Init => Inv
  BY ServerInit, ListInit, LockInit, WalkInit DEF Inv
<1>2. Inv /\ [Next]_vars => Inv'
  BY ServerStep, ListStep, LockStep, WalkStep DEF Inv
<1> QED
  BY <1>1, <1>2, PTL DEF Spec

\* the list prepareTableListToDump builds from three queries is complete, whatever other
\* clients create and drop between them
THEOREM ListIsComplete == Spec => []ListComplete
<1>1. Inv => ListComplete
  BY DEF Inv, ListInv
<1> QED
  BY <1>1, InvHolds, PTL

\* a Setup that succeeds has locked every listed table that was there all along, for every
\* number of attempts and of tables on the block list
THEOREM StableTablesAreLocked == Spec => []StableTablesLocked
<1>1. Inv => StableTablesLocked
  <2> SUFFICES ASSUME Inv, conf.consistency = "lock", AfterListing, pc # "setup"
               PROVE (Listed(tables) \cap Base) \ missed \subseteq cut
    BY DEF StableTablesLocked
  <2>1. pc \in {"start", "dump", "unwind", "done"}
    BY DEF AfterListing
  <2>2. cut = BaseListed \ blockList /\ blockList \subseteq missed
    BY <2>1 DEF Inv, LockInv
  <2> QED
    BY <2>2 DEF BaseListed
<1> QED
  BY <1>1, InvHolds, PTL

\* Setup gives up because of missing tables only when as many have disappeared as the
\* lockTablesBackoffer has attempts, or one whose name it cannot read
THEOREM SetupSurvives == Spec => []SetupSurvivesDrops
<1>1. Inv => SetupSurvivesDrops
  <2> SUFFICES ASSUME Inv PROVE SetupSurvivesDrops
    OBVIOUS
  <2> DEFINE lost == Listed(tables) \cap Base \cap missed
  <2>1. blockList \subseteq lost /\ IsFiniteSet(blockList)
    BY DEF Inv, LockInv, BaseListed
  <2>2. IsFiniteSet(lost)
    BY FS_Subset
  <2>3. Cardinality(blockList) <= Cardinality(lost)
    BY <2>1, <2>2, FS_Subset
  <2>4. cause = "missing" => Cardinality(lost) >= Attempts \/ lost \cap Dotted # {}
    BY <2>3 DEF Inv, LockInv, BaseListed
  <2>5. cause = "empty" => Listed(tables) \cap Base \subseteq lost
    BY <2>1 DEF Inv, LockInv, BaseListed
  <2> QED
    BY <2>4, <2>5 DEF SetupSurvivesDrops
<1> QED
  BY <1>1, InvHolds, PTL

\* a dump that succeeds has written every database, table and view of its list
THEOREM SuccessIsTheWholeList == Spec => []SuccessIsWhole
<1>1. Inv => SuccessIsWhole
  <2> SUFFICES ASSUME Inv, pc = "done" PROVE dumped = DOMAIN tables \cup Listed(tables)
    BY DEF SuccessIsWhole
  <2>1. /\ \A d \in DOMAIN tables : d \in dumped /\ tables[d] \subseteq dumped
        /\ dumped \subseteq DOMAIN tables \cup Listed(tables)
    BY DEF Inv, WalkInv
  <2>2. Listed(tables) \subseteq dumped
    BY <2>1, ListedMember
  <2> QED
    BY <2>1, <2>2
<1> QED
  BY <1>1, InvHolds, PTL

=============================================================================
