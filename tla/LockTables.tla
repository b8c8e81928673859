------------------------------ MODULE LockTables ------------------------------
(***************************************************************************)
(* The list of the tables to dump and, with --consistency lock, the LOCK   *)
(* TABLES statement over it: prepareTableListToDump with its queries and   *)
(* the filter, the Setup of ConsistencyLockDumpingTables that retries      *)
(* without the tables the server no longer has, and the walk of            *)
(* dumpDatabases over the list.  Other clients drop and create tables,     *)
(* views and databases at any time that the locks leave them.              *)
(*                                                                         *)
(* A table or view is an object of a database; its type never changes.     *)
(***************************************************************************)
EXTENDS Integers, FiniteSets

CONSTANTS
    Databases,    \* names of databases
    Base,         \* base tables
    View,         \* views
    DatabaseOf,   \* the database of every table and view
    Dotted,       \* objects with a "." in their name or their database's name
    Configs,      \* the configurations a dump may have, see Configurations
    Attempts,     \* lockTablesRetryTime
    MaxDDL        \* bound: statements of other clients during the dump

Objects == Base \cup View

\* conf.Databases ({}: all), NoViews, DumpEmptyDatabase, what TableFilter's MatchTable
\* and MatchSchema accept, Consistency, and TransactionalConsistency
Configurations ==
    [databases : SUBSET Databases, noViews : BOOLEAN, dumpEmpty : BOOLEAN,
     matchTable : SUBSET Objects, matchSchema : SUBSET Databases,
     consistency : {"lock", "none"}, transactional : BOOLEAN]

ASSUME ObjectsAssumption ==
    /\ IsFiniteSet(Base) /\ Base \cap View = {} /\ Dotted \subseteq Objects
    /\ DatabaseOf \in [Objects -> Databases]
ASSUME ListConfigsAssumption ==
    /\ Configs \subseteq Configurations
    /\ \A c \in Configs : \A o \in c.matchTable : DatabaseOf[o] \in c.matchSchema
ASSUME RetryAssumption == Attempts \in Nat \ {0} /\ MaxDDL \in Nat

VARIABLES
    conf,       \* the configuration
    databases,  \* the server's databases
    exists,     \* the server's tables and views
    ddl,        \* statements other clients have executed
    missed,     \* (observation) objects and databases missing at some time so far
    pc,         \* where the goroutine of Dump is
    names,      \* databases prepareDumpingDatabases returned
    tables,     \* conf.Tables
    blockList,  \* tables LOCK TABLES leaves out
    attempt,    \* attempts the lockTablesBackoffer has left
    locked,     \* tables locked by the controller's connection
    cut,        \* (observation) tables Setup locked
    cause,      \* why Setup failed
    dbsLeft,    \* databases dumpDatabases has not reached
    left,       \* tables and views of the current database it has not reached
    unread,     \* tables whose rows no writer has selected yet
    dumped      \* databases, tables and views written

serverVars == <<databases, exists, ddl, missed>>
listVars == <<names, tables>>
lockVars == <<blockList, attempt, locked, cut, cause>>
dumpVars == <<dbsLeft, left, unread, dumped>>
vars == <<conf, serverVars, pc, listVars, lockVars, dumpVars>>

-----------------------------------------------------------------------------
\* everything a DatabaseTables holds
Listed(ts) == UNION { ts[d] : d \in DOMAIN ts }

In(os, d) == {o \in os : DatabaseOf[o] = d}

\* ListAllDatabasesTables over the databases ds
ListAllDatabasesTables(ds, type) == [d \in ds |-> In(exists \cap type, d)]

\* (faulty variant, for mutation runs) the views replace the tables
MergeReplaces(ts, other) == other

\* Merge of two lists over the same databases
Merge(ts, other) == [d \in DOMAIN ts |-> ts[d] \cup other[d]]

\* filterTables
FilterTables(ts) ==
    LET kept(d) == ts[d] \cap conf.matchTable
        keptDBs == {d \in DOMAIN ts : \/ kept(d) # {}
                                      \/ conf.dumpEmpty /\ d \in conf.matchSchema}
    IN [d \in keptDBs |-> kept(d)]

\* (faulty variants, for mutation runs) a blocked table hides its whole database;
\* the block list is ignored
BuildLockTablesSQLByDatabase(ts, blocked) ==
    {o \in Listed(ts) \cap Base : \A b \in blocked : DatabaseOf[b] # DatabaseOf[o]}
BuildLockTablesSQLOfAll(ts, blocked) == Listed(ts) \cap Base

\* the tables buildLockTablesSQL names
BuildLockTablesSQL(ts, blocked) == (Listed(ts) \cap Base) \ blocked

Init ==
    /\ conf \in Configs
    /\ databases = Databases
    /\ exists = Objects
    /\ ddl = 0
    /\ missed = {}
    /\ pc = IF conf.consistency = "lock" THEN "databases" ELSE "setup"
    /\ names = {}
    /\ tables = [d \in {} |-> {}]
    /\ blockList = {}
    /\ attempt = Attempts
    /\ locked = {}
    /\ cut = {}
    /\ cause = "none"
    /\ dbsLeft = {}
    /\ left = {}
    /\ unread = {}
    /\ dumped = {}

-----------------------------------------------------------------------------
(* Other clients.  A table locked READ can neither be dropped nor can its  *)
(* database.                                                               *)

Drop(o) ==
    /\ ddl < MaxDDL
    /\ o \in exists \ locked
    /\ exists' = exists \ {o}
    /\ missed' = missed \cup {o}
    /\ ddl' = ddl + 1
    /\ UNCHANGED <<conf, databases, pc, listVars, lockVars, dumpVars>>

Create(o) ==
    /\ ddl < MaxDDL
    /\ o \in Objects \ exists
    /\ DatabaseOf[o] \in databases
    /\ exists' = exists \cup {o}
    /\ ddl' = ddl + 1
    /\ UNCHANGED <<conf, databases, missed, pc, listVars, lockVars, dumpVars>>

DropDatabase(d) ==
    /\ ddl < MaxDDL
    /\ d \in databases
    /\ In(locked, d) = {}
    /\ databases' = databases \ {d}
    /\ exists' = exists \ In(exists, d)
    /\ missed' = missed \cup {d} \cup In(exists, d)
    /\ ddl' = ddl + 1
    /\ UNCHANGED <<conf, pc, listVars, lockVars, dumpVars>>

CreateDatabase(d) ==
    /\ ddl < MaxDDL
    /\ d \in Databases \ databases
    /\ databases' = databases \cup {d}
    /\ ddl' = ddl + 1
    /\ UNCHANGED <<conf, exists, missed, pc, listVars, lockVars, dumpVars>>

-----------------------------------------------------------------------------
(* prepareTableListToDump: three queries, and other clients between them.  *)

\* a query fails, or the context ends
ListFails ==
    /\ pc \in {"databases", "tables", "views"}
    /\ pc' = "failed"
    /\ UNCHANGED <<conf, serverVars, listVars, lockVars, dumpVars>>

PrepareDumpingDatabases ==
    /\ pc = "databases"
    /\ IF conf.databases = {}
       THEN names' = databases /\ pc' = "tables"
       ELSE /\ names' = conf.databases
            /\ pc' = IF conf.databases \subseteq databases THEN "tables" ELSE "failed"
    /\ UNCHANGED <<conf, serverVars, tables, lockVars, dumpVars>>

\* with NoViews the list is complete and filterTables follows
ListAllTables ==
    LET listed == ListAllDatabasesTables(names, Base) IN
    /\ pc = "tables"
    /\ IF conf.noViews
       THEN /\ tables' = FilterTables(listed)
            /\ pc' = IF conf.consistency = "lock" THEN "setup" ELSE "start"
       ELSE tables' = listed /\ pc' = "views"
    /\ UNCHANGED <<conf, serverVars, names, lockVars, dumpVars>>

ListAllViews ==
    /\ pc = "views"
    /\ tables' = FilterTables(Merge(tables, ListAllDatabasesTables(names, View)))
    /\ pc' = IF conf.consistency = "lock" THEN "setup" ELSE "start"
    /\ UNCHANGED <<conf, serverVars, names, lockVars, dumpVars>>

-----------------------------------------------------------------------------
(* Setup of the controller.                                                *)

SetupNone ==
    /\ pc = "setup"
    /\ conf.consistency = "none"
    /\ pc' = "databases"
    /\ UNCHANGED <<conf, serverVars, listVars, lockVars, dumpVars>>

\* LOCK TABLES names tables that all exist
Lock ==
    LET wanted == BuildLockTablesSQL(tables, blockList) IN
    /\ pc = "setup"
    /\ conf.consistency = "lock"
    /\ wanted # {} /\ wanted \subseteq exists
    /\ locked' = wanted
    /\ cut' = wanted
    /\ pc' = "start"
    /\ UNCHANGED <<conf, serverVars, listVars, blockList, attempt, cause, dumpVars>>

\* the server answers that table o does not exist; NextBackoff blocks it, unless its name
\* cannot be told from the message, and WithRetry tries again while attempts are left
NoSuchTable(o) ==
    /\ pc = "setup"
    /\ conf.consistency = "lock"
    /\ o \in BuildLockTablesSQL(tables, blockList) \ exists
    /\ IF o \in Dotted
       THEN attempt' = 0 /\ UNCHANGED blockList
       ELSE attempt' = attempt - 1 /\ blockList' = blockList \cup {o}
    /\ IF attempt' = 0
       THEN pc' = "failed" /\ cause' = "missing"
       ELSE UNCHANGED <<pc, cause>>
    /\ UNCHANGED <<conf, serverVars, listVars, locked, cut, dumpVars>>

\* any other error is not retried: the statement is empty, the connection breaks,
\* the user may not lock, the context ends
LockFails ==
    /\ pc = "setup"
    /\ conf.consistency = "lock"
    /\ cause' = IF BuildLockTablesSQL(tables, blockList) = {} THEN "empty" ELSE "other"
    /\ attempt' = 0
    /\ pc' = "failed"
    /\ UNCHANGED <<conf, serverVars, listVars, blockList, locked, cut, dumpVars>>

-----------------------------------------------------------------------------
(* The dump over the list.                                                 *)

\* the writers have started; with TransactionalConsistency the tables are unlocked
Start ==
    /\ pc = "start"
    /\ locked' = IF conf.transactional THEN {} ELSE locked
    /\ dbsLeft' = DOMAIN tables
    /\ pc' = "dump"
    /\ UNCHANGED <<conf, serverVars, listVars, blockList, attempt, cut, cause,
                   left, unread, dumped>>

\* ShowCreateDatabase
NextDatabase(d) ==
    /\ pc = "dump" /\ left = {}
    /\ d \in dbsLeft
    /\ IF d \in databases
       THEN /\ dbsLeft' = dbsLeft \ {d}
            /\ left' = tables[d]
            /\ dumped' = dumped \cup {d}
            /\ UNCHANGED pc
       ELSE pc' = "unwind" /\ UNCHANGED <<dbsLeft, left, dumped>>
    /\ UNCHANGED <<conf, serverVars, listVars, lockVars, unread>>

\* (faulty variant, for mutation runs) a table on the block list is passed over
DumpTableUnlessBlocked(o) ==
    /\ pc = "dump"
    /\ o \in left
    /\ IF o \in exists \cup blockList
       THEN /\ left' = left \ {o}
            /\ dumped' = IF o \in View THEN dumped \cup {o} ELSE dumped
            /\ unread' = IF o \in Base \ blockList THEN unread \cup {o} ELSE unread
            /\ UNCHANGED pc
       ELSE pc' = "unwind" /\ UNCHANGED <<left, dumped, unread>>
    /\ UNCHANGED <<conf, serverVars, listVars, lockVars, dbsLeft>>

\* dumpTableMeta, and for a table the task of its rows
DumpTable(o) ==
    /\ pc = "dump"
    /\ o \in left
    /\ IF o \in exists
       THEN /\ left' = left \ {o}
            /\ dumped' = IF o \in View THEN dumped \cup {o} ELSE dumped
            /\ unread' = IF o \in Base THEN unread \cup {o} ELSE unread
            /\ UNCHANGED pc
       ELSE pc' = "unwind" /\ UNCHANGED <<left, dumped, unread>>
    /\ UNCHANGED <<conf, serverVars, listVars, lockVars, dbsLeft>>

\* a writer selects the rows of a table
ReadTable(o) ==
    /\ pc = "dump"
    /\ o \in unread
    /\ IF o \in exists
       THEN unread' = unread \ {o} /\ dumped' = dumped \cup {o} /\ UNCHANGED pc
       ELSE pc' = "unwind" /\ UNCHANGED <<unread, dumped>>
    /\ UNCHANGED <<conf, serverVars, listVars, lockVars, dbsLeft, left>>

\* the writers have finished, or an error ended the walk; the deferred TearDown unlocks
Return ==
    /\ \/ pc = "dump" /\ dbsLeft = {} /\ left = {} /\ unread = {} /\ pc' = "done"
       \/ pc = "unwind" /\ pc' = "failed"
    /\ locked' = {}
    /\ UNCHANGED <<conf, serverVars, listVars, blockList, attempt, cut, cause, dumpVars>>

\* Dump has returned; other clients go on
Done == pc \in {"failed", "done"} /\ UNCHANGED vars

Clients ==
    \/ \E o \in Objects : Drop(o) \/ Create(o)
    \/ \E d \in Databases : DropDatabase(d) \/ CreateDatabase(d)

List == PrepareDumpingDatabases \/ ListAllTables \/ ListAllViews \/ ListFails

Setup == SetupNone \/ Lock \/ (\E o \in Objects : NoSuchTable(o)) \/ LockFails

Walk ==
    \/ Start \/ Return
    \/ \E d \in Databases : NextDatabase(d)
    \/ \E o \in Objects : DumpTable(o) \/ ReadTable(o)

Next == Clients \/ List \/ Setup \/ Walk \/ Done

Spec == Init /\ [][Next]_vars

-----------------------------------------------------------------------------
(* Properties.                                                             *)

\* (typing) every variable keeps its type; what is locked exists
TypeOK ==
    /\ conf \in Configs
    /\ databases \subseteq Databases /\ exists \subseteq Objects
    /\ ddl \in 0 .. MaxDDL
    /\ missed \subseteq Objects \cup Databases
    /\ pc \in {"databases", "tables", "views", "setup", "start", "dump", "unwind",
               "failed", "done"}
    /\ names \subseteq Databases
    /\ DOMAIN tables \subseteq Databases
    /\ \A d \in DOMAIN tables : tables[d] \subseteq Objects
    /\ blockList \subseteq Base /\ attempt \in 0 .. Attempts
    /\ locked \subseteq exists /\ cut \subseteq Base
    /\ cause \in {"none", "missing", "empty", "other"}
    /\ dbsLeft \subseteq DOMAIN tables
    /\ left \subseteq Objects /\ unread \subseteq Base
    /\ dumped \subseteq Objects \cup Databases

AfterListing ==
    \/ pc \in {"start", "dump", "unwind", "done"}
    \/ pc = "setup" /\ conf.consistency = "lock"

\* prepareTableListToDump reads the databases, the tables and the views in three queries
\* while other clients work, merges and filters them: a table or view that the
\* configuration selects and that is there all along is on the list, with its database;
\* so is a matching database without tables when DumpEmptyDatabase is set; and nothing
\* is on the list that the filter or NoViews excludes
ListComplete ==
    AfterListing =>
        LET wanted == {d \in Databases \ missed :
                           conf.databases = {} \/ d \in conf.databases}
        IN /\ \A o \in conf.matchTable \ missed :
                 DatabaseOf[o] \in wanted /\ (o \in View => ~conf.noViews)
                     => DatabaseOf[o] \in DOMAIN tables /\ o \in tables[DatabaseOf[o]]
           /\ conf.dumpEmpty => wanted \cap conf.matchSchema \subseteq DOMAIN tables
           /\ Listed(tables) \subseteq conf.matchTable
           /\ conf.noViews => Listed(tables) \subseteq Base

\* LOCK TABLES is retried without the tables the server misses: once Setup has succeeded
\* in mode lock, every listed table that was there all along is locked, however many
\* other tables the block list took out of the statement
StableTablesLocked ==
    conf.consistency = "lock" /\ AfterListing /\ pc # "setup" =>
        (Listed(tables) \cap Base) \ missed \subseteq cut

\* Setup outlives tables that disappear: answers of "no such table" make it fail only when
\* as many listed tables have disappeared as lockTablesBackoffer has attempts, or one whose
\* name its parser cannot read; and it sends an empty statement only when every listed
\* table has disappeared
SetupSurvivesDrops ==
    LET lost == Listed(tables) \cap Base \cap missed IN
    /\ cause = "missing" => Cardinality(lost) >= Attempts \/ lost \cap Dotted # {}
    /\ cause = "empty" => Listed(tables) \cap Base \subseteq lost

\* a dump that succeeds has written every database, table and view of the list: a table
\* that LOCK TABLES left out is not left out of the dump, it is read without a lock if
\* somebody has created it again and makes the dump fail if nobody has
SuccessIsWhole ==
    pc = "done" => dumped = DOMAIN tables \cup Listed(tables)
=============================================================================
