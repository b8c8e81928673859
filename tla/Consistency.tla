----------------------------- MODULE Consistency -----------------------------
(***************************************************************************)
(* What Dump does to read one state of the server and to record the binlog *)
(* position of that state: the start-up steps that pick a TiDB snapshot,   *)
(* the consistency controllers (flush, lock, snapshot and none), the       *)
(* snapshot transactions of the writers, the rebuilding of broken          *)
(* connections and the positions kept in the metadata file.                *)
(*                                                                         *)
(* The server is its binlog: the sequence of the tables its transactions   *)
(* changed.  A position is a length of the binlog, a snapshot is a         *)
(* position, and two positions show the same contents of a table when no   *)
(* transaction between them changed it.                                    *)
(***************************************************************************)
EXTENDS Integers, Sequences, FiniteSets

CONSTANTS
    Writers,          \* the writers, conf.Threads of them
    InnoDB,           \* dumped tables whose reads see the transaction's snapshot
    MyISAM,           \* dumped tables whose reads see the current contents
    Other,            \* stands for the tables that are not dumped
    Parts,            \* chunks of every table
    Configs,          \* the configurations a dump may have, see Configurations
    Attempts,         \* dumpChunkRetryTime
    MaxPos            \* bound: transactions the server runs during the dump

Tables == InnoDB \cup MyISAM

\* Consistency ("auto" resolved), TransactionalConsistency, PosAfterConnect, whether
\* ServerInfo says TiDB, what CheckTiDBWithTiKV says of it, and whether a PD client to
\* hold back GC was created
Configurations ==
    [consistency : {"flush", "lock", "snapshot", "none"}, transactional : BOOLEAN,
     posAfterConnect : BOOLEAN, tidb : BOOLEAN, tikv : BOOLEAN, pdClient : BOOLEAN]

ASSUME WritersAssumption == Writers # {}
ASSUME TablesAssumption == InnoDB \cap MyISAM = {} /\ Other \notin Tables
ASSUME ConfigsAssumption ==
    Configs \subseteq Configurations /\ \A c \in Configs : c.pdClient \/ c.tikv => c.tidb
ASSUME BoundsAssumption ==
    Parts \in Nat \ {0} /\ Attempts \in Nat \ {0} /\ MaxPos \in Nat

VARIABLES
    conf,       \* the configuration
    binlog,     \* the server: the tables its transactions changed
    lockConn,   \* the controller's connection, see LockStates
    cut,        \* (observation) position at which Setup took the locks
    snapshot,   \* conf.Snapshot
    session,    \* tidb_snapshot of every session of the pool
    metaPos,    \* position in the metadata buffer
    afterBuf,   \* positions in the "after connection" buffer
    pc,         \* where the goroutine of Dump is
    dumpErr,    \* result of Dump: "none" so far, "nil" or "error"
    metadata,   \* the metadata file is written
    wst,        \* what each writer does
    snap,       \* position of each writer's snapshot transaction
    chunk,      \* chunk the writer dumps
    attempt,    \* attempts the backoffer has left for it
    got,        \* position a writer has read and not yet appended
    todo,       \* chunks nobody has taken
    dumped,     \* (observation) chunks written, with the position they show
    cancelled,  \* Close has cancelled the context ...
    dbClosed    \* ... and closed the connection pool

serverVars == <<binlog, lockConn, cut>>
startVars == <<conf, snapshot, session>>
metaVars == <<metaPos, afterBuf, metadata>>
mainVars == <<pc, dumpErr>>
writerVars == <<wst, snap, chunk, attempt, got, todo, dumped>>
closeVars == <<cancelled, dbClosed>>
vars == <<serverVars, startVars, metaVars, mainVars, writerVars, closeVars>>

-----------------------------------------------------------------------------
NoPos == -1
NoChunk == <<Other, 0>>
Pos == Len(binlog)

Mode == conf.consistency
Transactional == conf.transactional
PosAfterConnect == conf.posAfterConnect
TiDB == conf.tidb
HasTiKV == conf.tikv
PDClient == conf.pdClient

\* "held": the locks are taken.  "lost": the connection broke, and the server
\* dropped its locks, before the controller gave it up.  "pooled": given back to
\* the pool with UNLOCK TABLES not executed.  "released": unlocked, or closed.
LockStates == {"none", "held", "lost", "pooled", "released"}

LockMode == Mode \in {"flush", "lock"}

ServerLocked == lockConn \in {"held", "pooled"}

\* (faulty variant, for mutation runs) flush locks the dumped tables only
BlockedIfDumped(t) == ServerLocked /\ LockMode /\ t \in Tables

\* transactions that may not commit: none may under FLUSH TABLES WITH READ LOCK,
\* none on the dumped tables under LOCK TABLES ... READ
Blocked(t) == ServerLocked /\ (Mode = "flush" \/ (Mode = "lock" /\ t \in Tables))

\* no transaction between the positions p and q changed table t
Same(t, p, q) ==
    \A i \in 1 .. Len(binlog) :
        (p < i /\ i <= q) \/ (q < i /\ i <= p) => binlog[i] # t

\* canRebuildConn
CanRebuild == ~(LockMode /\ Transactional)

\* position that a read of t through w's connection shows
ReadPos(w, t) ==
    IF session # NoPos THEN session
    ELSE IF t \in InnoDB THEN snap[w] ELSE Pos

\* the context of the writers, which their errgroup cancels on an error
WriterCtxDone == cancelled \/ \E w \in Writers : wst[w] = "failed"

\* what recordGlobalMetaData writes for SHOW MASTER STATUS
MasterStatus == IF TiDB /\ snapshot # NoPos THEN snapshot ELSE Pos

Init ==
    /\ conf \in Configs
    /\ binlog = <<>>
    /\ lockConn = "none"
    /\ cut = NoPos
    /\ snapshot = NoPos
    /\ session = NoPos
    /\ metaPos = NoPos
    /\ afterBuf = <<>>
    /\ pc = "getSnapshot"
    /\ dumpErr = "none"
    /\ metadata = FALSE
    /\ wst = [w \in Writers |-> "none"]
    /\ snap = [w \in Writers |-> NoPos]
    /\ chunk = [w \in Writers |-> NoChunk]
    /\ attempt = [w \in Writers |-> 0]
    /\ got = [w \in Writers |-> NoPos]
    /\ todo = Tables \X (1 .. Parts)
    /\ dumped = {}
    /\ cancelled = FALSE
    /\ dbClosed = FALSE

-----------------------------------------------------------------------------
(* Faulty variants of the definitions below, for the mutation runs.        *)

\* the result of UNLOCK TABLES is not looked at
TearDownUnchecked ==
    /\ pc = "tearDown"
    /\ pc' = "recordAfter"
    /\ IF Transactional /\ lockConn = "held"
       THEN lockConn' = "released"
       ELSE UNCHANGED lockConn
    /\ UNCHANGED <<binlog, cut, startVars, metaVars, dumpErr, writerVars, closeVars>>

\* the position for leaving safe mode replaces the one to start from
RecordAfterInPlace ==
    /\ pc = "recordAfter"
    /\ pc' = "dumping"
    /\ metaPos' = (IF PosAfterConnect THEN MasterStatus ELSE metaPos)
    /\ UNCHANGED <<afterBuf, metadata, serverVars, startVars, dumpErr, writerVars, closeVars>>

\* the sessions keep reading the current data
SetSessionParamWithoutSnapshot ==
    /\ pc = "setSessionParam"
    /\ pc' = "setup"
    /\ UNCHANGED <<serverVars, startVars, metaVars, dumpErr, writerVars, closeVars>>

\* the backoffer does not count the attempts
AttemptFailsForever(w) ==
    /\ wst[w] \in {"reading", "ping", "connect", "query"}
    /\ \/ wst' = [wst EXCEPT ![w] = "ping"]
       \/ WriterCtxDone /\ wst' = [wst EXCEPT ![w] = "failed"]
    /\ UNCHANGED <<serverVars, startVars, metaVars, mainVars, snap, chunk, attempt, got, todo,
                   dumped, closeVars>>

\* only a successful Dump drops the locks
DeferredTearDownOnSuccess ==
    /\ pc = "deferred"
    /\ pc' = "return"
    /\ IF lockConn = "held" /\ dumpErr = "nil"
       THEN lockConn' = "released"
       ELSE UNCHANGED lockConn
    /\ UNCHANGED <<binlog, cut, startVars, metaVars, dumpErr, writerVars, closeVars>>

-----------------------------------------------------------------------------
(* The server.                                                             *)

\* A client commits a transaction that changes one table.
Commit(t) ==
    /\ Pos < MaxPos
    /\ ~Blocked(t)
    /\ binlog' = Append(binlog, t)
    /\ UNCHANGED <<lockConn, cut, startVars, metaVars, mainVars, writerVars, closeVars>>

\* The controller's connection breaks; the server drops its locks at once, the
\* controller learns of it when it next uses the connection.
LockConnBreaks ==
    /\ lockConn = "held"
    /\ lockConn' = "lost"
    /\ UNCHANGED <<binlog, cut, startVars, metaVars, mainVars, writerVars, closeVars>>

-----------------------------------------------------------------------------
(* NewDumper and Dump.                                                     *)

Fail(label) == pc' = label /\ dumpErr' = "error"

\* tidbGetSnapshot: a failure is a warning, conf.Snapshot stays empty.
GetSnapshot ==
    /\ pc = "getSnapshot"
    /\ pc' = "setSessionParam"
    /\ \/ (PDClient \/ Mode = "snapshot") /\ snapshot' = Pos
       \/ UNCHANGED snapshot
    /\ UNCHANGED <<conf, session, serverVars, metaVars, dumpErr, writerVars, closeVars>>

\* setSessionParam: the sessions opened from here on read at the snapshot, only
\* under consistency snapshot and on a TiDB with TiKV.
SetSessionParam ==
    /\ pc = "setSessionParam"
    /\ \/ /\ snapshot # NoPos => TiDB
          /\ pc' = "setup"
          /\ session' = (IF Mode = "snapshot" /\ HasTiKV THEN snapshot ELSE NoPos)
          /\ UNCHANGED dumpErr
       \/ Fail("returned") /\ UNCHANGED session
    /\ UNCHANGED <<conf, snapshot, serverVars, metaVars, writerVars, closeVars>>

\* NewConsistencyController and Setup: FLUSH TABLES WITH READ LOCK (refused for
\* TiDB) or LOCK TABLES.  A failure returns before TearDown is deferred.
Setup ==
    /\ pc = "setup"
    /\ \/ /\ ~cancelled
          /\ Mode = "flush" => ~TiDB
          /\ Mode = "snapshot" => TiDB
          /\ pc' = "connectMeta"
          /\ lockConn' = (IF LockMode THEN "held" ELSE "none")
          /\ cut' = Pos
          /\ UNCHANGED dumpErr
       \/ Fail("return") /\ UNCHANGED <<lockConn, cut>>
    /\ UNCHANGED <<binlog, startVars, metaVars, writerVars, closeVars>>

ConnectMeta ==
    /\ pc = "connectMeta"
    /\ \/ ~cancelled /\ pc' = "recordMeta" /\ UNCHANGED dumpErr
       \/ Fail("deferred")
    /\ UNCHANGED <<serverVars, startVars, metaVars, writerVars, closeVars>>

\* recordGlobalMetaData(metaConn, false), whose failure is only logged, and the
\* list of tables, whose failure ends the dump.
RecordMeta ==
    /\ pc = "recordMeta"
    /\ metaPos' \in {MasterStatus, NoPos}
    /\ \/ pc' = "startWriters" /\ UNCHANGED dumpErr
       \/ Fail("deferred")
    /\ UNCHANGED <<afterBuf, metadata, serverVars, startVars, writerVars, closeVars>>

\* One round of startWriters: createConnWithConsistency starts the transaction
\* that every read of this writer belongs to.
StartWriter(w) ==
    /\ pc = "startWriters"
    /\ wst[w] = "none"
    /\ ~cancelled
    /\ snap' = [snap EXCEPT ![w] = Pos]
    /\ wst' = [wst EXCEPT ![w] = "idle"]
    /\ UNCHANGED <<serverVars, startVars, metaVars, mainVars, chunk, attempt, got, todo, dumped,
                   closeVars>>

StartWriterFails ==
    /\ pc = "startWriters"
    /\ \E w \in Writers : wst[w] = "none"
    /\ Fail("deferred")
    /\ UNCHANGED <<serverVars, startVars, metaVars, writerVars, closeVars>>

WritersStarted ==
    /\ pc = "startWriters"
    /\ \A w \in Writers : wst[w] # "none"
    /\ pc' = "tearDown"
    /\ UNCHANGED <<dumpErr, serverVars, startVars, metaVars, writerVars, closeVars>>

\* state of the controller's connection after UNLOCK TABLES and Close: without a
\* usable context the locked connection goes back to the pool, unless that is
\* closed already
AfterTearDown ==
    CASE lockConn # "held" -> lockConn
      [] lockConn = "held" /\ ~cancelled -> "released"
      [] lockConn = "held" /\ cancelled -> IF dbClosed THEN "released" ELSE "pooled"

\* (a faulty variant, for a mutation run) the locks are dropped without
\* --transactional-consistency too
TearDownAlways ==
    /\ pc = "tearDown"
    /\ lockConn' = AfterTearDown
    /\ \/ /\ LockMode => lockConn = "held" /\ ~cancelled
          /\ pc' = "recordAfter"
          /\ UNCHANGED dumpErr
       \/ LockMode /\ (lockConn = "lost" \/ cancelled) /\ Fail("deferred")
    /\ UNCHANGED <<binlog, cut, startVars, metaVars, writerVars, closeVars>>

\* All transactions have started: under --transactional-consistency the locks
\* are dropped, and an UNLOCK TABLES that fails ends the dump.
TearDown ==
    /\ pc = "tearDown"
    /\ \/ /\ ~Transactional
          /\ pc' = "recordAfter"
          /\ UNCHANGED <<lockConn, dumpErr>>
       \/ /\ Transactional
          /\ LockMode => lockConn = "held" /\ ~cancelled
          /\ lockConn' = AfterTearDown
          /\ pc' = "recordAfter"
          /\ UNCHANGED dumpErr
       \/ /\ Transactional
          /\ LockMode /\ (lockConn = "lost" \/ cancelled)
          /\ lockConn' = AfterTearDown
          /\ Fail("deferred")
    /\ UNCHANGED <<binlog, cut, startVars, metaVars, writerVars, closeVars>>

\* recordGlobalMetaData(metaConn, true): the buffer is reset, then filled unless
\* the query fails, which is only logged.  No writer has a task yet.
RecordAfter ==
    /\ pc = "recordAfter"
    /\ pc' = "dumping"
    /\ IF PosAfterConnect THEN afterBuf' \in {<<MasterStatus>>, <<>>} ELSE UNCHANGED afterBuf
    /\ UNCHANGED <<metaPos, metadata, serverVars, startVars, dumpErr, writerVars, closeVars>>

\* wg.Wait without an error.  After a Close the producer has stopped early and
\* the idle writers have left with nil.
Finish ==
    /\ pc = "dumping"
    /\ todo = {} \/ cancelled
    /\ \A w \in Writers : wst[w] = "idle"
    /\ pc' = "deferred"
    /\ dumpErr' = "nil"
    /\ UNCHANGED <<serverVars, startVars, metaVars, writerVars, closeVars>>

\* wg.Wait with the error of a writer.
FinishFails ==
    /\ pc = "dumping"
    /\ \E w \in Writers : wst[w] = "failed"
    /\ \A w \in Writers : wst[w] \in {"idle", "failed"}
    /\ Fail("deferred")
    /\ UNCHANGED <<serverVars, startVars, metaVars, writerVars, closeVars>>

\* dumpDatabases fails: Dump returns without waiting for the writers.
DumpDatabasesFails ==
    /\ pc = "dumping"
    /\ Fail("deferred")
    /\ UNCHANGED <<serverVars, startVars, metaVars, writerVars, closeVars>>

\* The deferred TearDown, whose error is only logged.
DeferredTearDown ==
    /\ pc = "deferred"
    /\ pc' = "return"
    /\ lockConn' = AfterTearDown
    /\ UNCHANGED <<binlog, cut, startVars, metaVars, dumpErr, writerVars, closeVars>>

\* The deferred writeGlobalMetaData, whose failure is not reported.
Return ==
    /\ pc = "return"
    /\ pc' = "returned"
    /\ \/ dumpErr = "nil" /\ metadata' \in BOOLEAN
       \/ dumpErr # "nil" /\ UNCHANGED metadata
    /\ UNCHANGED <<metaPos, afterBuf, serverVars, startVars, dumpErr, writerVars, closeVars>>
-----------------------------------------------------------------------------
(* The writers: WriteTableData and the rebuildConn closure of Dump.        *)

TakeChunk(w) ==
    /\ pc \in {"dumping", "deferred", "return", "returned"}
    /\ dumpErr # "nil"
    /\ wst[w] = "idle"
    /\ \E c \in todo :
         /\ chunk' = [chunk EXCEPT ![w] = c]
         /\ todo' = todo \ {c}
    /\ attempt' = [attempt EXCEPT ![w] = IF CanRebuild THEN Attempts ELSE 1]
    /\ wst' = [wst EXCEPT ![w] = "reading"]
    /\ UNCHANGED <<serverVars, startVars, metaVars, mainVars, snap, got, dumped, closeVars>>

\* The attempt succeeds: the rows of the chunk, as of the position its query
\* shows, are in the chunk's file.
ReadChunk(w) ==
    /\ wst[w] = "reading"
    /\ ~cancelled
    /\ dumped' = dumped \cup {[tbl |-> chunk[w][1], pos |-> ReadPos(w, chunk[w][1])]}
    /\ wst' = [wst EXCEPT ![w] = "idle"]
    /\ chunk' = [chunk EXCEPT ![w] = NoChunk]
    /\ UNCHANGED <<serverVars, startVars, metaVars, mainVars, snap, attempt, got, todo, closeVars>>

\* An attempt, or the rebuilding of its connection, fails: NextBackoff leaves
\* one attempt less, or none for an error not worth a retry.  The next attempt
\* starts by rebuilding the connection.
AttemptFails(w) ==
    /\ wst[w] \in {"reading", "ping", "connect", "query"}
    /\ \E a \in {attempt[w] - 1, 0} :
         /\ attempt' = [attempt EXCEPT ![w] = a]
         /\ \/ a > 0 /\ wst' = [wst EXCEPT ![w] = "ping"]
            \/ (a = 0 \/ WriterCtxDone) /\ wst' = [wst EXCEPT ![w] = "failed"]
    /\ UNCHANGED <<serverVars, startVars, metaVars, mainVars, snap, chunk, got, todo, dumped,
                   closeVars>>

\* conCtrl.PingContext: the lock connection must be alive.
Ping(w) ==
    /\ wst[w] = "ping"
    /\ LockMode => lockConn = "held" /\ ~cancelled
    /\ wst' = [wst EXCEPT ![w] = "connect"]
    /\ UNCHANGED <<serverVars, startVars, metaVars, mainVars, snap, chunk, attempt, got, todo,
                   dumped, closeVars>>

\* The broken connection is given up, a new transaction starts.
Reconnect(w) ==
    /\ wst[w] = "connect"
    /\ ~cancelled
    /\ snap' = [snap EXCEPT ![w] = Pos]
    /\ wst' = [wst EXCEPT ![w] = IF PosAfterConnect THEN "reset" ELSE "reading"]
    /\ UNCHANGED <<serverVars, startVars, metaVars, mainVars, chunk, attempt, got, todo, dumped,
                   closeVars>>

\* recordGlobalMetaData(conn, true) from a writer: the three steps of two
\* writers interleave, nothing orders them.
ResetAfter(w) ==
    /\ wst[w] = "reset"
    /\ afterBuf' = <<>>
    /\ wst' = [wst EXCEPT ![w] = "query"]
    /\ UNCHANGED <<serverVars, startVars, metaPos, metadata, mainVars, snap, chunk, attempt, got,
                   todo, dumped, closeVars>>

QueryAfter(w) ==
    /\ wst[w] = "query"
    /\ got' = [got EXCEPT ![w] = MasterStatus]
    /\ wst' = [wst EXCEPT ![w] = "append"]
    /\ UNCHANGED <<serverVars, startVars, metaVars, mainVars, snap, chunk, attempt, todo, dumped,
                   closeVars>>

AppendAfter(w) ==
    /\ wst[w] = "append"
    /\ afterBuf' = Append(afterBuf, got[w])
    /\ wst' = [wst EXCEPT ![w] = "reading"]
    /\ UNCHANGED <<serverVars, startVars, metaPos, metadata, mainVars, snap, chunk, attempt, got,
                   todo, dumped, closeVars>>

-----------------------------------------------------------------------------
(* Close, from the owner of the Dumper.                                    *)

CancelCtx ==
    /\ ~cancelled
    /\ cancelled' = TRUE
    /\ UNCHANGED <<dbClosed, serverVars, startVars, metaVars, mainVars, writerVars>>

\* dbHandle.Close closes the connections that are in the pool.
CloseDB ==
    /\ cancelled
    /\ ~dbClosed
    /\ dbClosed' = TRUE
    /\ lockConn' = (IF lockConn = "pooled" THEN "released" ELSE lockConn)
    /\ UNCHANGED <<cancelled, binlog, cut, startVars, metaVars, mainVars, writerVars>>

Terminated ==
    /\ pc = "returned"
    /\ UNCHANGED vars

Server == LockConnBreaks \/ \E t \in Tables \cup {Other} : Commit(t)

Main ==
    \/ GetSnapshot \/ SetSessionParam \/ Setup \/ ConnectMeta \/ RecordMeta
    \/ (\E w \in Writers : StartWriter(w)) \/ StartWriterFails \/ WritersStarted
    \/ TearDown \/ RecordAfter \/ Finish \/ FinishFails
    \/ DeferredTearDown \/ Return

Writer(w) ==
    \/ TakeChunk(w) \/ ReadChunk(w) \/ AttemptFails(w)
    \/ Ping(w) \/ Reconnect(w) \/ ResetAfter(w) \/ QueryAfter(w) \/ AppendAfter(w)

Next ==
    \/ Server
    \/ Main
    \/ DumpDatabasesFails
    \/ \E w \in Writers : Writer(w)
    \/ CancelCtx
    \/ CloseDB
    \/ Terminated

Spec == Init /\ [][Next]_vars

\* The goroutines run; Close, once begun, ends.  Clients, broken connections and
\* the decision to call Close are under no obligation.
Fairness ==
    /\ WF_vars(Main)
    /\ WF_vars(CloseDB)
    /\ \A w \in Writers : WF_vars(Writer(w))

FairSpec == Spec /\ Fairness

-----------------------------------------------------------------------------
(* Properties.                                                             *)

TypeOK ==
    /\ conf \in Configs
    /\ binlog \in Seq(Tables \cup {Other})
    /\ lockConn \in LockStates
    /\ cut \in Nat \cup {NoPos}
    /\ snapshot \in Nat \cup {NoPos}
    /\ session \in Nat \cup {NoPos}
    /\ metaPos \in Nat \cup {NoPos}
    /\ afterBuf \in Seq(Nat)
    /\ pc \in {"getSnapshot", "setSessionParam", "setup", "connectMeta", "recordMeta",
               "startWriters", "tearDown", "recordAfter", "dumping", "deferred", "return",
               "returned"}
    /\ dumpErr \in {"none", "nil", "error"}
    /\ metadata \in BOOLEAN
    /\ wst \in [Writers -> {"none", "idle", "reading", "ping", "connect", "reset", "query",
                            "append", "failed"}]
    /\ snap \in [Writers -> Nat \cup {NoPos}]
    /\ chunk \in [Writers -> (Tables \X (1 .. Parts)) \cup {NoChunk}]
    /\ attempt \in [Writers -> 0 .. Attempts]
    /\ got \in [Writers -> Nat \cup {NoPos}]
    /\ todo \subseteq Tables \X (1 .. Parts)
    /\ dumped \subseteq [tbl : Tables, pos : Nat]
    /\ cancelled \in BOOLEAN
    /\ dbClosed \in BOOLEAN

\* The rows dumped from the tables in S are their rows at the recorded position,
\* and all chunks of one table show the same rows.
CutOf(S) ==
    \A r \in dumped : r.tbl \in S =>
        /\ metaPos # NoPos => Same(r.tbl, metaPos, r.pos)
        /\ \A q \in dumped : q.tbl = r.tbl => Same(r.tbl, q.pos, r.pos)

\* Under flush or lock with --transactional-consistency, a dump that leaves a
\* metadata file shows the transactional tables as they were at the position in
\* that file, whatever clients commit and whenever the lock connection breaks:
\* TearDown succeeded after the last transaction began (dump.go:189-196).  Not so on
\* a TiDB with a PD client, whose snapshot, taken before the locks, is recorded.
TransactionalCut ==
    LockMode /\ Transactional /\ ~PDClient /\ metadata => CutOf(InnoDB)

\* "The recorded meta info is exactly the locked snapshot" (dump.go:138): under
\* flush the transactional tables were read at the very position recorded.
FlushIsExact ==
    Mode = "flush" /\ Transactional /\ metadata =>
        \A r \in dumped : r.tbl \in InnoDB /\ metaPos # NoPos => r.pos = metaPos

\* Without --transactional-consistency the locks are held until the last chunk
\* is read, which also covers the tables of engines without transactions, as
\* long as the lock connection does not break (deferred TearDown, dump.go:122).
LockedUntilTheEnd ==
    LockMode /\ ~Transactional /\ ~PDClient /\ metadata /\ lockConn # "lost" => CutOf(Tables)

\* In every mode the recorded position is never later than the data, so that
\* replaying the binlog from it in safe mode loses no change: under none, where
\* clients write throughout (dump.go:140); under flush and lock when the lock
\* connection is lost, or a snapshot older than the locks is recorded; under snapshot
\* when there is none or no TiKV and the sessions read current data.
PositionIsEarly ==
    metaPos # NoPos => \A r \in dumped : metaPos <= r.pos

\* Under snapshot every chunk is read at the snapshot, which is the position in
\* the metadata (dump.go:139), on a TiDB with TiKV that has given a snapshot: without
\* one of them setSessionParam leaves the sessions as they are (dump.go:1157-1165).
SnapshotIsExact ==
    Mode = "snapshot" /\ HasTiKV /\ snapshot # NoPos =>
        \A r \in dumped : r.pos = snapshot /\ metaPos \in {snapshot, NoPos}

\* The position recorded after connecting is not behind any writer's snapshot,
\* rebuilt ones included, so a replication that leaves safe mode there has passed
\* all dumped changes: "renew the master status after connection. dm can't close
\* safe-mode until dm reaches current pos" (dump.go:169-175, dump.go:200-206).
AfterPosCoversSnapshots ==
    PosAfterConnect /\ metadata /\ afterBuf # <<>> =>
        \A w \in Writers : snap[w] <= afterBuf[Len(afterBuf)]

\* "To avoid lock is not released" (dump.go:121): on every path out of Dump the
\* server is unlocked when Dump returns; after a Close in between, when the pool
\* is closed too.
LockReleased ==
    pc = "returned" /\ (~cancelled \/ dbClosed) => ~ServerLocked

\* The locks that stop the clients of the server are dropped in the end.
LockEventuallyReleased == ServerLocked ~> ~ServerLocked

=============================================================================
