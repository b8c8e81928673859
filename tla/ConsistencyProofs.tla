------------------------- MODULE ConsistencyProofs -------------------------
(***************************************************************************)
(* Proofs about Consistency, for any number of writers, tables, chunks,    *)
(* attempts and transactions.                                              *)
(***************************************************************************)
EXTENDS Consistency, TLAPS

USE WritersAssumption, TablesAssumption, ConfigsAssumption, BoundsAssumption

(* The configuration, by its fields. *)
LEMMA ConfigFields ==
  ASSUME conf \in Configs
  PROVE  /\ Mode \in {"flush", "lock", "snapshot", "none"}
         /\ Transactional \in BOOLEAN /\ PosAfterConnect \in BOOLEAN
         /\ TiDB \in BOOLEAN /\ PDClient \in BOOLEAN /\ (PDClient => TiDB)
         /\ HasTiKV \in BOOLEAN /\ (HasTiKV => TiDB)
  BY DEF Configurations, Mode, Transactional, PosAfterConnect, TiDB, HasTiKV, PDClient

(* No step changes it. *)
LEMMA ConfigStable ==
  ASSUME [Next]_vars
  PROVE  /\ conf' = conf
         /\ Mode' = Mode /\ Transactional' = Transactional
         /\ PosAfterConnect' = PosAfterConnect /\ TiDB' = TiDB /\ PDClient' = PDClient
         /\ HasTiKV' = HasTiKV
<1>1. conf' = conf
  BY Zenon DEF Next, Server, Main, Writer, vars, startVars, Commit, LockConnBreaks, GetSnapshot,
     SetSessionParam, Setup, ConnectMeta, RecordMeta, StartWriter, StartWriterFails,
     WritersStarted, TearDown, RecordAfter, Finish, FinishFails, DumpDatabasesFails,
     DeferredTearDown, Return, TakeChunk, ReadChunk, AttemptFails, Ping, Reconnect,
     ResetAfter, QueryAfter, AppendAfter, CancelCtx, CloseDB, Terminated
<1> QED BY <1>1 DEF Mode, Transactional, PosAfterConnect, TiDB, HasTiKV, PDClient

(* What a writer that is dumping a chunk has at hand. *)
WriterState ==
  \A w \in Writers :
    /\ wst[w] \notin {"none", "idle", "failed"} =>
         chunk[w] \in Tables \X (1 .. Parts) /\ attempt[w] \in 1 .. Attempts
    /\ wst[w] # "none" => snap[w] \in Nat
    /\ wst[w] = "append" => got[w] \in Nat

TypeInv == TypeOK /\ WriterState

LEMMA PosNat == TypeOK => Pos \in Nat /\ MasterStatus \in Nat
  BY DEF TypeOK, Pos, MasterStatus, NoPos

(* What a commit does to the log, and a read chunk to the record of the reads. *)
LEMMA CommitAppends ==
  ASSUME TypeInv, NEW t \in Tables \cup {Other}, Commit(t)
  PROVE  /\ binlog \in Seq(Tables \cup {Other}) /\ binlog' = Append(binlog, t)
         /\ cut' = cut /\ Pos' = Pos + 1 /\ Pos \in Nat
  BY DEF Commit, TypeInv, TypeOK, Pos

LEMMA ReadAdds ==
  ASSUME NEW w \in Writers, ReadChunk(w)
  PROVE  \A r \in dumped' : r \in dumped \/ r.pos = ReadPos(w, chunk[w][1])
  BY DEF ReadChunk

LEMMA TypeInvInit == Init => TypeInv
<1> SUFFICES ASSUME Init PROVE TypeInv
  OBVIOUS
<1>1. <<>> \in Seq(Tables \cup {Other}) /\ <<>> \in Seq(Nat)
  OBVIOUS
<1>a. attempt \in [Writers -> 0 .. Attempts]
  BY DEF Init
<1>b. chunk \in [Writers -> (Tables \X (1 .. Parts)) \cup {NoChunk}]
  BY DEF Init
<1>c. /\ snap \in [Writers -> Nat \cup {NoPos}]
      /\ got \in [Writers -> Nat \cup {NoPos}]
      /\ todo \subseteq Tables \X (1 .. Parts)
      /\ dumped \subseteq [tbl : Tables, pos : Nat]
  BY DEF Init
<1>2. TypeOK
  BY <1>1, <1>a, <1>b, <1>c, Zenon DEF Init, TypeOK, LockStates
<1>3. WriterState
  BY DEF Init, WriterState
<1> QED BY <1>2, <1>3 DEF TypeInv

LEMMA TypeInvStep == TypeInv /\ [Next]_vars => TypeInv'
<1> SUFFICES ASSUME TypeInv, [Next]_vars PROVE TypeInv'
  OBVIOUS
<1>0. Pos \in Nat /\ MasterStatus \in Nat
  BY PosNat DEF TypeInv
<1> conf' = conf
  BY ConfigStable
<1> USE DEF TypeInv, serverVars, startVars, metaVars, mainVars, writerVars, closeVars
<1>1. ASSUME NEW t \in Tables \cup {Other}, Commit(t) PROVE TypeInv'
  <2>1. binlog' \in Seq(Tables \cup {Other})
    BY <1>1 DEF Commit, TypeOK
  <2> QED BY <1>1, <2>1 DEF Commit, TypeOK, WriterState
<1>2. CASE LockConnBreaks
  BY <1>2 DEF LockConnBreaks, TypeOK, WriterState, LockStates
<1>3. CASE GetSnapshot
  BY <1>0, <1>3 DEF GetSnapshot, TypeOK, WriterState
<1>4. CASE SetSessionParam
  BY <1>4, SMTT(30) DEF SetSessionParam, TypeOK, WriterState, Fail
<1>5. CASE Setup
  BY <1>0, <1>5, SMTT(30) DEF Setup, TypeOK, WriterState, Fail, LockStates
<1>6. CASE ConnectMeta
  BY <1>6 DEF ConnectMeta, TypeOK, WriterState, Fail
<1>7. CASE RecordMeta
  <2>1. metaPos' \in Nat \cup {NoPos}
    BY <1>0, <1>7 DEF RecordMeta
  <2> QED BY <1>7, <2>1 DEF RecordMeta, TypeOK, WriterState, Fail
<1>8. ASSUME NEW w \in Writers, StartWriter(w) PROVE TypeInv'
  <2>1. /\ snap' \in [Writers -> Nat \cup {NoPos}]
        /\ wst' \in [Writers -> {"none", "idle", "reading", "ping", "connect", "reset",
                                "query", "append", "failed"}]
    BY <1>0, <1>8 DEF StartWriter, TypeOK
  <2>2. WriterState'
    <3>1. snap'[w] = Pos /\ wst'[w] = "idle"
      BY <1>8 DEF StartWriter, TypeOK
    <3>2. \A v \in Writers \ {w} : snap'[v] = snap[v] /\ wst'[v] = wst[v]
      BY <1>8 DEF StartWriter, TypeOK
    <3>3. UNCHANGED <<chunk, attempt, got>>
      BY <1>8 DEF StartWriter
    <3> QED BY <1>0, <3>1, <3>2, <3>3, Zenon DEF WriterState
  <2> QED BY <1>8, <2>1, <2>2 DEF StartWriter, TypeOK
<1>9. CASE StartWriterFails
  BY <1>9 DEF StartWriterFails, TypeOK, WriterState, Fail
<1>10. CASE WritersStarted
  BY <1>10 DEF WritersStarted, TypeOK, WriterState
<1>11. CASE TearDown
  BY <1>11 DEF TearDown, AfterTearDown, TypeOK, WriterState, Fail, LockStates
<1>12. CASE RecordAfter
  <2>1. <<MasterStatus>> \in Seq(Nat) /\ <<>> \in Seq(Nat)
    BY <1>0
  <2> QED BY <1>12, <2>1, ZenonT(30) DEF RecordAfter, TypeOK, WriterState
<1>13. CASE Finish
  BY <1>13 DEF Finish, TypeOK, WriterState
<1>14. CASE FinishFails
  BY <1>14 DEF FinishFails, TypeOK, WriterState, Fail
<1>15. CASE DumpDatabasesFails
  BY <1>15 DEF DumpDatabasesFails, TypeOK, WriterState, Fail
<1>16. CASE DeferredTearDown
  BY <1>16 DEF DeferredTearDown, AfterTearDown, TypeOK, WriterState, LockStates
<1>17. CASE Return
  BY <1>17 DEF Return, TypeOK, WriterState
<1>18. ASSUME NEW w \in Writers, TakeChunk(w) PROVE TypeInv'
  BY <1>18, SMTT(30) DEF TakeChunk, TypeOK, WriterState
<1>19. ASSUME NEW w \in Writers, ReadChunk(w) PROVE TypeInv'
  <2>1. chunk[w][1] \in Tables /\ snap[w] \in Nat
    BY <1>19 DEF ReadChunk, WriterState
  <2>2. ReadPos(w, chunk[w][1]) \in Nat
    BY <1>0, <2>1 DEF ReadPos, TypeOK
  <2>3. dumped' \subseteq [tbl : Tables, pos : Nat]
    BY <1>19, <2>1, <2>2 DEF ReadChunk, TypeOK
  <2> QED BY <1>19, <2>3 DEF ReadChunk, TypeOK, WriterState
<1>20. ASSUME NEW w \in Writers, AttemptFails(w) PROVE TypeInv'
  <2>1. attempt[w] \in 1 .. Attempts
    BY <1>20 DEF AttemptFails, WriterState
  <2>2. PICK a \in {attempt[w] - 1, 0} :
          /\ attempt' = [attempt EXCEPT ![w] = a]
          /\ \/ a > 0 /\ wst' = [wst EXCEPT ![w] = "ping"]
             \/ wst' = [wst EXCEPT ![w] = "failed"]
    BY <1>20, Zenon DEF AttemptFails
  <2>3. a \in 0 .. Attempts
    BY <2>1
  <2>4. TypeOK'
    <3>1. attempt' \in [Writers -> 0 .. Attempts]
      BY <2>2, <2>3 DEF TypeOK
    <3>2. wst' \in [Writers -> {"none", "idle", "reading", "ping", "connect", "reset",
                               "query", "append", "failed"}]
      BY <2>2, Zenon DEF TypeOK
    <3> QED BY <1>20, <3>1, <3>2 DEF AttemptFails, TypeOK
  <2>5. WriterState'
    BY <1>20, <2>2, <2>3 DEF AttemptFails, TypeOK, WriterState
  <2> QED BY <2>4, <2>5
<1>21. ASSUME NEW w \in Writers, Ping(w) PROVE TypeInv'
  BY <1>21 DEF Ping, TypeOK, WriterState
<1>22. ASSUME NEW w \in Writers, Reconnect(w) PROVE TypeInv'
  <2>1. /\ snap' \in [Writers -> Nat \cup {NoPos}]
        /\ wst' \in [Writers -> {"none", "idle", "reading", "ping", "connect", "reset",
                                 "query", "append", "failed"}]
    BY <1>0, <1>22 DEF Reconnect, TypeOK
  <2>2. TypeOK'
    BY <1>22, <2>1 DEF Reconnect, TypeOK
  <2>3. WriterState'
    BY <1>0, <1>22 DEF Reconnect, TypeOK, WriterState
  <2> QED BY <2>2, <2>3
<1>23. ASSUME NEW w \in Writers, ResetAfter(w) PROVE TypeInv'
  <2>1. <<>> \in Seq(Nat)
    OBVIOUS
  <2> QED BY <1>23, <2>1 DEF ResetAfter, TypeOK, WriterState
<1>24. ASSUME NEW w \in Writers, QueryAfter(w) PROVE TypeInv'
  BY <1>0, <1>24 DEF QueryAfter, TypeOK, WriterState
<1>25. ASSUME NEW w \in Writers, AppendAfter(w) PROVE TypeInv'
  <2>1. afterBuf' \in Seq(Nat)
    BY <1>25 DEF AppendAfter, TypeOK, WriterState
  <2> QED BY <1>25, <2>1 DEF AppendAfter, TypeOK, WriterState
<1>26. CASE CancelCtx
  BY <1>26 DEF CancelCtx, TypeOK, WriterState
<1>27. CASE CloseDB
  BY <1>27 DEF CloseDB, TypeOK, WriterState, LockStates
<1>28. CASE UNCHANGED vars
  BY <1>28 DEF vars, TypeOK, WriterState
<1> QED
  BY <1>1, <1>2, <1>3, <1>4, <1>5, <1>6, <1>7, <1>8, <1>9, <1>10, <1>11, <1>12, <1>13,
     <1>14, <1>15, <1>16, <1>17, <1>18, <1>19, <1>20, <1>21, <1>22, <1>23, <1>24, <1>25,
     <1>26, <1>27, <1>28 DEF Next, Server, Main, Writer, Terminated

(* Every variable keeps its type on every path of Dump. *)
THEOREM TypeCorrect == Spec => []TypeOK
<1>1. TypeInv => TypeOK
  BY DEF TypeInv
<1> QED BY <1>1, TypeInvInit, TypeInvStep, PTL DEF Spec


-----------------------------------------------------------------------------
(* Facts about positions of the binlog. *)

(* Two positions that agree with a third on a table agree with each other. *)
LEMMA SameTransitive ==
  ASSUME NEW t, NEW c \in Int, NEW p \in Int, NEW q \in Int, binlog \in Seq(Tables \cup {Other}),
         Same(t, c, p), Same(t, c, q)
  PROVE  Same(t, p, q)
  BY DEF Same

(* A new transaction does not change what lies before it. *)
LEMMA SameStable ==
  ASSUME NEW t, NEW u \in Tables \cup {Other}, NEW p \in Int, NEW q \in Int,
         binlog \in Seq(Tables \cup {Other}), binlog' = Append(binlog, u),
         p <= Pos, q <= Pos, Same(t, p, q)
  PROVE  Same(t, p, q)'
<1>1. /\ Len(binlog) \in Nat
      /\ Len(binlog') = Len(binlog) + 1
      /\ \A i \in 1 .. Len(binlog) : binlog'[i] = binlog[i]
  OBVIOUS
<1> QED BY <1>1 DEF Same, Pos

(* A transaction on another table does not change t up to the new end. *)
LEMMA SameExtended ==
  ASSUME NEW t, NEW u \in Tables \cup {Other}, u # t, NEW p \in Int,
         binlog \in Seq(Tables \cup {Other}), binlog' = Append(binlog, u),
         p <= Pos, Same(t, p, Pos)
  PROVE  Same(t, p, Pos)'
<1>1. /\ Len(binlog) \in Nat
      /\ Len(binlog') = Len(binlog) + 1
      /\ binlog'[Len(binlog) + 1] = u
      /\ \A i \in 1 .. Len(binlog) : binlog'[i] = binlog[i]
  OBVIOUS
<1> QED BY <1>1 DEF Same, Pos

-----------------------------------------------------------------------------
(* The configurations the two theorems below are about. *)
Locking == LockMode /\ Transactional /\ (~PDClient \/ Mode = "flush")

(* Position p shows the transactional tables as the locks found them. *)
Agrees(p) ==
  /\ p \in 0 .. Pos
  /\ \A t \in InnoDB : Same(t, cut, p)
  /\ Mode = "flush" => p = cut

Early == pc \in {"getSnapshot", "setSessionParam", "setup"}
UnderLock == pc \in {"connectMeta", "recordMeta", "startWriters", "tearDown"}

(* Nothing that was read so far disagrees with the cut. *)
AllAgree ==
  /\ \A w \in Writers : wst[w] # "none" => Agrees(snap[w])
  /\ metaPos # NoPos => Agrees(metaPos)
  /\ \A r \in dumped : r.tbl \in InnoDB => Agrees(r.pos)

(* Until TearDown the cut is as good as the lock connection; TearDown passes *)
(* only with the locks still held, and no connection is rebuilt afterwards.  *)
CutInv ==
  /\ session = NoPos
  /\ ~PDClient => snapshot = NoPos
  /\ Early => /\ dumped = {} /\ metaPos = NoPos /\ dumpErr = "none"
              /\ \A w \in Writers : wst[w] = "none"
  /\ \A w \in Writers :
       /\ wst[w] \in {"none", "idle", "reading", "failed"}
       /\ wst[w] = "reading" => attempt[w] = 1
  /\ UnderLock => /\ lockConn \in {"held", "lost"} /\ cut \in 0 .. Pos
                  /\ Mode = "flush" => ~TiDB
  /\ UnderLock \/ pc \in {"recordAfter", "dumping"} => dumpErr = "none"
  /\ UnderLock /\ lockConn = "held" => Agrees(Pos) /\ AllAgree
  /\ pc \in {"recordAfter", "dumping"} \/ dumpErr = "nil" => cut \in 0 .. Pos /\ AllAgree
  /\ metadata => dumpErr = "nil"

LEMMA CutInvImplies ==
  ASSUME TypeInv, Locking => CutInv
  PROVE  TransactionalCut /\ FlushIsExact
<1> USE DEF TypeInv, TypeOK
<1>1. TransactionalCut
  <2> SUFFICES ASSUME LockMode, Transactional, ~PDClient, metadata PROVE CutOf(InnoDB)
    BY DEF TransactionalCut
  <2>1. cut \in Int /\ AllAgree
    BY DEF Locking, CutInv
  <2> SUFFICES ASSUME NEW r \in dumped, r.tbl \in InnoDB
               PROVE  /\ metaPos # NoPos => Same(r.tbl, metaPos, r.pos)
                      /\ \A q \in dumped : q.tbl = r.tbl => Same(r.tbl, q.pos, r.pos)
    BY DEF CutOf
  <2>2. r.pos \in Int /\ Same(r.tbl, cut, r.pos)
    BY <2>1 DEF AllAgree, Agrees
  <2>3. metaPos # NoPos => Same(r.tbl, metaPos, r.pos)
    <3> SUFFICES ASSUME metaPos # NoPos PROVE Same(r.tbl, metaPos, r.pos)
      OBVIOUS
    <3>1. metaPos \in Int /\ Same(r.tbl, cut, metaPos)
      BY <2>1 DEF AllAgree, Agrees
    <3> QED BY <2>1, <2>2, <3>1, SameTransitive
  <2>4. ASSUME NEW q \in dumped, q.tbl = r.tbl PROVE Same(r.tbl, q.pos, r.pos)
    <3>1. q.pos \in Int /\ Same(r.tbl, cut, q.pos)
      BY <2>1, <2>4 DEF AllAgree, Agrees
    <3> QED BY <2>1, <2>2, <3>1, SameTransitive
  <2> QED BY <2>3, <2>4
<1>2. FlushIsExact
  BY DEF FlushIsExact, Locking, LockMode, CutInv, AllAgree, Agrees
<1> QED BY <1>1, <1>2

LEMMA CutInvInit == Init => CutInv
  BY DEF Init, CutInv, Early, UnderLock

(* A step that leaves the binlog, the cut and what was read alone. *)
LEMMA AllAgreeStable ==
  ASSUME UNCHANGED <<binlog, cut, Mode>>
  PROVE  \A p : Agrees(p) <=> Agrees(p)'
  BY DEF Agrees, Same, Pos

(* A commit leaves the positions read so far in agreement. *)
LEMMA CommitKeepsAgreement ==
  ASSUME TypeInv, NEW u \in Tables \cup {Other}, Commit(u), cut \in Int, cut <= Pos,
         NEW p, Agrees(p)
  PROVE  Agrees(p)'
<1>1. /\ binlog \in Seq(Tables \cup {Other}) /\ binlog' = Append(binlog, u) /\ cut' = cut
      /\ p \in Int /\ p <= Pos /\ 0 <= p /\ Pos \in Nat
  <2>1. binlog \in Seq(Tables \cup {Other})
    BY DEF TypeInv, TypeOK
  <2>2. binlog' = Append(binlog, u) /\ cut' = cut
    BY DEF Commit
  <2>3. Pos \in Nat
    BY PosNat DEF TypeInv
  <2>4. p \in 0 .. Pos
    BY Zenon DEF Agrees
  <2> QED
    BY <2>1, <2>2, <2>3, <2>4
<1>2. Pos' = Pos + 1
  BY <1>1 DEF Pos
<1>3. ASSUME NEW t \in InnoDB PROVE Same(t, cut, p)'
  BY <1>1, SameStable DEF Agrees
<1>4. p \in 0 .. Pos'
  BY <1>1, <1>2
<1>5. Mode' = Mode
  BY DEF Commit, startVars, Mode
<1> QED BY <1>1, <1>3, <1>4, <1>5 DEF Agrees, Same

(* Under the locks a commit does not change what the transactional tables show. *)
LEMMA CommitUnderLock ==
  ASSUME TypeInv, Locking, NEW u \in Tables \cup {Other}, Commit(u), lockConn = "held",
         cut \in Int, cut <= Pos, Agrees(Pos)
  PROVE  Agrees(Pos)'
<1>1. Mode = "lock" /\ u \notin InnoDB
  BY DEF Commit, Blocked, ServerLocked, Locking, LockMode, Tables
<1>2. /\ binlog \in Seq(Tables \cup {Other}) /\ binlog' = Append(binlog, u) /\ cut' = cut
  BY DEF TypeInv, TypeOK, Commit
<1>3. Pos' = Pos + 1 /\ Pos \in Nat
  BY <1>2 DEF Pos
<1>4. ASSUME NEW t \in InnoDB PROVE Same(t, cut, Pos)'
  BY <1>1, <1>2, SameExtended DEF Agrees
<1>5. Pos' \in 0 .. Pos'
  BY <1>3
<1>6. Mode' = Mode
  BY DEF Commit, startVars, Mode
<1> QED BY <1>1, <1>2, <1>4, <1>5, <1>6 DEF Agrees, Same

LEMMA CutInvStep == Locking /\ TypeInv /\ CutInv /\ [Next]_vars => CutInv'
<1> SUFFICES ASSUME Locking, TypeInv, CutInv, [Next]_vars PROVE CutInv'
  OBVIOUS
<1> USE DEF serverVars, startVars, metaVars, mainVars, writerVars, closeVars
<1> /\ Mode' = Mode /\ Transactional' = Transactional
    /\ PosAfterConnect' = PosAfterConnect /\ TiDB' = TiDB /\ PDClient' = PDClient
  BY ConfigStable
<1> /\ Mode \in {"flush", "lock", "snapshot", "none"}
    /\ Transactional \in BOOLEAN /\ PosAfterConnect \in BOOLEAN
    /\ TiDB \in BOOLEAN /\ PDClient \in BOOLEAN /\ (PDClient => TiDB)
  BY ConfigFields DEF TypeInv, TypeOK
<1>a. LockMode /\ Transactional /\ Mode # "snapshot" /\ ~CanRebuild
  BY DEF Locking, LockMode, CanRebuild
<1>0. UNCHANGED <<binlog, cut>> => \A p : Agrees(p) <=> Agrees(p)'
  BY AllAgreeStable
<1>1. ASSUME NEW t \in Tables \cup {Other}, Commit(t) PROVE CutInv'
  <2>1. Pos' = Pos + 1 /\ Pos \in Nat
    BY <1>1 DEF Commit, TypeInv, TypeOK, Pos
  <2>2. ASSUME cut \in 0 .. Pos, AllAgree PROVE AllAgree'
    <3>1. \A p : Agrees(p) => Agrees(p)'
      BY <1>1, <2>1, <2>2, CommitKeepsAgreement
    <3> QED BY <1>1, <2>2, <3>1, Zenon DEF Commit, AllAgree
  <2>3. ASSUME cut \in 0 .. Pos, lockConn = "held", Agrees(Pos) PROVE Agrees(Pos)'
    BY <1>1, <2>1, <2>3, CommitUnderLock
  <2>4. cut \in 0 .. Pos => cut \in 0 .. Pos'
    BY <2>1
  <2> QED BY <1>1, <2>2, <2>3, <2>4 DEF Commit, CutInv, Early, UnderLock
<1>2. CASE LockConnBreaks
  BY <1>0, <1>2, Zenon DEF LockConnBreaks, CutInv, AllAgree, Early, UnderLock, Pos
<1>3. CASE GetSnapshot
  BY <1>a, <1>0, <1>3, Zenon DEF GetSnapshot, CutInv, AllAgree, Early, UnderLock
<1>4. CASE SetSessionParam
  BY <1>a, <1>0, <1>4, Zenon DEF SetSessionParam, CutInv, AllAgree, Early, UnderLock, Fail
<1>5. CASE Setup
  <2>1. CASE /\ pc' = "connectMeta" /\ lockConn' = "held" /\ cut' = Pos /\ UNCHANGED dumpErr
             /\ Mode = "flush" => ~TiDB
    <3>1. Pos' = Pos /\ Pos \in Nat
      BY <1>5, PosNat DEF Setup, Pos, TypeInv
    <3>2. Agrees(Pos)'
      BY <2>1, <3>1 DEF Agrees, Same
    <3>3. AllAgree'
      BY <1>5 DEF Setup, CutInv, Early, AllAgree
    <3> QED BY <1>5, <2>1, <3>1, <3>2, <3>3 DEF Setup, CutInv, Early, UnderLock
  <2>2. CASE Fail("return") /\ UNCHANGED <<lockConn, cut>>
    BY <1>0, <1>5, <2>2, Zenon DEF Setup, CutInv, Early, UnderLock, Fail
  <2> QED BY <1>a, <1>5, <2>1, <2>2 DEF Setup
<1>6. CASE ConnectMeta
  BY <1>0, <1>6, Zenon DEF ConnectMeta, CutInv, AllAgree, Early, UnderLock, Fail, Pos
<1>7. CASE RecordMeta
  <2>1. MasterStatus = Pos
    BY <1>7, Zenon DEF RecordMeta, CutInv, UnderLock, Locking, MasterStatus
  <2>2. lockConn = "held" => Agrees(Pos) /\ AllAgree
    BY <1>7 DEF RecordMeta, CutInv, UnderLock
  <2>3. lockConn = "held" => AllAgree'
    BY <1>0, <1>7, <2>1, <2>2, Zenon DEF RecordMeta, AllAgree
  <2>4. Pos' = Pos
    BY <1>7 DEF RecordMeta, Pos
  <2> QED BY <1>0, <1>7, <2>2, <2>3, <2>4, Zenon DEF RecordMeta, CutInv, Early, UnderLock, Fail
<1>8. ASSUME NEW w \in Writers, StartWriter(w) PROVE CutInv'
  <2>1. lockConn = "held" => Agrees(Pos) /\ AllAgree
    BY <1>8 DEF StartWriter, CutInv, UnderLock
  <2>2. lockConn = "held" => AllAgree'
    BY <1>0, <1>8, <2>1 DEF StartWriter, AllAgree, TypeInv, TypeOK
  <2>3. Pos' = Pos
    BY <1>8 DEF StartWriter, Pos
  <2>4. \A v \in Writers : /\ wst'[v] \in {"none", "idle", "reading", "failed"}
                           /\ wst'[v] = "reading" => attempt'[v] = 1
    BY <1>8 DEF StartWriter, CutInv, TypeInv, TypeOK
  <2> QED BY <1>0, <1>8, <2>1, <2>2, <2>3, <2>4 DEF StartWriter, CutInv, Early, UnderLock
<1>9. CASE StartWriterFails
  BY <1>0, <1>9, Zenon DEF StartWriterFails, CutInv, AllAgree, Early, UnderLock, Fail
<1>10. CASE WritersStarted
  BY <1>0, <1>10, Zenon DEF WritersStarted, CutInv, AllAgree, Early, UnderLock, Pos
<1>11. CASE TearDown
  <2>1. CASE lockConn = "held" /\ pc' = "recordAfter" /\ UNCHANGED dumpErr
    <3>1. cut \in 0 .. Pos /\ AllAgree
      BY <1>11, <2>1, Zenon DEF TearDown, CutInv, UnderLock
    <3>2. AllAgree' /\ Pos' = Pos
      BY <1>0, <1>11, <3>1, Zenon DEF TearDown, AllAgree, Pos
    <3> QED BY <1>11, <2>1, <3>1, <3>2 DEF TearDown, CutInv, Early, UnderLock
  <2>2. CASE Fail("deferred")
    BY <1>11, <2>2, Zenon DEF TearDown, CutInv, Early, UnderLock, Fail
  <2> QED BY <1>a, <1>11, <2>1, <2>2 DEF TearDown
<1>12. CASE RecordAfter
  BY <1>0, <1>12, Zenon DEF RecordAfter, CutInv, AllAgree, Early, UnderLock, Pos
<1>13. CASE Finish
  BY <1>0, <1>13, Zenon DEF Finish, CutInv, AllAgree, Early, UnderLock, Pos
<1>14. CASE FinishFails
  BY <1>0, <1>14, Zenon DEF FinishFails, CutInv, AllAgree, Early, UnderLock, Fail
<1>15. CASE DumpDatabasesFails
  BY <1>0, <1>15, Zenon DEF DumpDatabasesFails, CutInv, AllAgree, Early, UnderLock, Fail
<1>16. CASE DeferredTearDown
  BY <1>0, <1>16, Zenon DEF DeferredTearDown, CutInv, AllAgree, Early, UnderLock, Pos
<1>17. CASE Return
  <2>1. (AllAgree => AllAgree') /\ Pos' = Pos
    BY <1>0, <1>17, Zenon DEF Return, AllAgree, Pos
  <2>2. ~Early' /\ ~UnderLock' /\ pc' = "returned"
    BY <1>17 DEF Return, Early, UnderLock
  <2>3. metadata' => dumpErr' = "nil"
    BY <1>17, Zenon DEF Return, CutInv
  <2> QED BY <1>17, <2>1, <2>2, <2>3, Zenon DEF Return, CutInv
<1>18. ASSUME NEW w \in Writers, TakeChunk(w) PROVE CutInv'
  <2>1. \A v \in Writers : /\ wst'[v] \in {"none", "idle", "reading", "failed"}
                           /\ wst'[v] = "reading" => attempt'[v] = 1
                           /\ wst'[v] # "none" => wst[v] # "none"
    BY <1>a, <1>18 DEF TakeChunk, CutInv, TypeInv, TypeOK
  <2>2. AllAgree => AllAgree'
    BY <1>0, <1>18, <2>1, Zenon DEF TakeChunk, AllAgree
  <2>3. Pos' = Pos
    BY <1>18 DEF TakeChunk, Pos
  <2> QED BY <1>18, <2>1, <2>2, <2>3 DEF TakeChunk, CutInv, Early, UnderLock
<1>19. ASSUME NEW w \in Writers, ReadChunk(w) PROVE CutInv'
  <2>1. \A v \in Writers : /\ wst'[v] \in {"none", "idle", "reading", "failed"}
                           /\ wst'[v] = "reading" => attempt'[v] = 1
                           /\ wst'[v] # "none" => wst[v] # "none"
    BY <1>19, Zenon DEF ReadChunk, CutInv, TypeInv, TypeOK
  <2>2. ReadPos(w, chunk[w][1]) = IF chunk[w][1] \in InnoDB THEN snap[w] ELSE Pos
    BY Zenon DEF ReadPos, CutInv
  <2>3. AllAgree => AllAgree'
    <3> SUFFICES ASSUME AllAgree PROVE AllAgree'
      OBVIOUS
    <3>1. Agrees(snap[w])
      BY <1>19 DEF ReadChunk, AllAgree
    <3>2. ASSUME NEW r \in dumped', r.tbl \in InnoDB PROVE Agrees(r.pos)'
      <4>1. \A p : Agrees(p) <=> Agrees(p)'
        BY <1>0, <1>19 DEF ReadChunk
      <4>2. CASE r \in dumped
        BY <3>2, <4>1, <4>2 DEF AllAgree
      <4>3. CASE r = [tbl |-> chunk[w][1], pos |-> ReadPos(w, chunk[w][1])]
        <5>1. r.pos = snap[w]
          BY <2>2, <3>2, <4>3
        <5> QED BY <3>1, <4>1, <5>1
      <4> QED BY <1>19, <4>2, <4>3 DEF ReadChunk
    <3> QED BY <1>0, <1>19, <2>1, <3>2, Zenon DEF ReadChunk, AllAgree
  <2>4. Pos' = Pos /\ ~Early
    BY <1>19 DEF ReadChunk, Pos, CutInv
  <2> QED BY <1>0, <1>19, <2>1, <2>3, <2>4, Zenon DEF ReadChunk, CutInv, Early, UnderLock
<1>20. ASSUME NEW w \in Writers, AttemptFails(w) PROVE CutInv'
  <2>1. wst' = [wst EXCEPT ![w] = "failed"]
    BY <1>20 DEF AttemptFails, CutInv
  <2>2. \A v \in Writers : /\ wst'[v] \in {"none", "idle", "reading", "failed"}
                           /\ wst'[v] = "reading" => attempt'[v] = 1
                           /\ wst'[v] # "none" => wst[v] # "none"
    BY <1>20, <2>1, Zenon DEF AttemptFails, CutInv, TypeInv, TypeOK
  <2>3. AllAgree => AllAgree'
    BY <1>0, <1>20, <2>2, Zenon DEF AttemptFails, AllAgree
  <2>4. Pos' = Pos /\ ~Early
    BY <1>20 DEF AttemptFails, Pos, CutInv
  <2> QED BY <1>0, <1>20, <2>2, <2>3, <2>4, Zenon DEF AttemptFails, CutInv, Early, UnderLock
<1>21. ASSUME NEW w \in Writers,
              Ping(w) \/ Reconnect(w) \/ ResetAfter(w) \/ QueryAfter(w) \/ AppendAfter(w)
       PROVE CutInv'
  BY <1>21, Zenon DEF Ping, Reconnect, ResetAfter, QueryAfter, AppendAfter, CutInv
<1>22. CASE CancelCtx
  BY <1>0, <1>22, Zenon DEF CancelCtx, CutInv, AllAgree, Early, UnderLock, Pos
<1>23. CASE CloseDB
  BY <1>0, <1>23, Zenon DEF CloseDB, CutInv, AllAgree, Early, UnderLock, Pos
<1>24. CASE UNCHANGED vars
  BY <1>0, <1>24, Zenon DEF vars, CutInv, AllAgree, Early, UnderLock, Pos
<1> QED
  BY <1>1, <1>2, <1>3, <1>4, <1>5, <1>6, <1>7, <1>8, <1>9, <1>10, <1>11, <1>12, <1>13,
     <1>14, <1>15, <1>16, <1>17, <1>18, <1>19, <1>20, <1>21, <1>22, <1>23, <1>24
  DEF Next, Server, Main, Writer, Terminated

LEMMA CutInvAlways == Spec => [](TypeInv /\ (Locking => CutInv))
<1>1. Init => TypeInv /\ (Locking => CutInv)
  BY TypeInvInit, CutInvInit
<1>2. TypeInv /\ (Locking => CutInv) /\ [Next]_vars => (TypeInv /\ (Locking => CutInv))'
  <2>1. [Next]_vars => (Locking' <=> Locking)
    BY ConfigStable DEF Locking, LockMode
  <2> QED BY <2>1, TypeInvStep, CutInvStep
<1> QED BY <1>1, <1>2, PTL DEF Spec

(* Under flush or lock with --transactional-consistency a dump with a metadata *)
(* file shows the transactional tables at the recorded position.               *)
THEOREM TransactionalCutHolds == Spec => []TransactionalCut
<1>1. TypeInv /\ (Locking => CutInv) => TransactionalCut
  BY CutInvImplies
<1> QED BY <1>1, CutInvAlways, PTL

(* Under flush they were read at exactly that position. *)
THEOREM FlushIsExactHolds == Spec => []FlushIsExact
<1>1. TypeInv /\ (Locking => CutInv) => FlushIsExact
  BY CutInvImplies
<1> QED BY <1>1, CutInvAlways, PTL
-----------------------------------------------------------------------------
(* The lock connection: nothing is locked before Setup, a lock still held is one *)
(* that the deferred TearDown will meet, and a locked connection is in the pool  *)
(* only between the two steps of a Close.                                        *)
LockInv ==
  /\ Early => lockConn = "none"
  /\ lockConn = "held" => pc \notin {"return", "returned"}
  /\ lockConn = "pooled" => cancelled /\ ~dbClosed

LEMMA LockInvStep == TypeInv /\ LockInv /\ [Next]_vars => LockInv'
<1> SUFFICES ASSUME TypeInv, LockInv, [Next]_vars PROVE LockInv'
  OBVIOUS
<1> USE DEF serverVars, startVars, metaVars, mainVars, writerVars, closeVars
<1>1. ASSUME NEW t \in Tables \cup {Other}, Commit(t) PROVE LockInv'
  BY <1>1 DEF Commit, LockInv, Early
<1>2. CASE LockConnBreaks
  BY <1>2 DEF LockConnBreaks, LockInv, Early
<1>3. CASE GetSnapshot
  BY <1>3 DEF GetSnapshot, LockInv, Early
<1>4. CASE SetSessionParam
  BY <1>4 DEF SetSessionParam, LockInv, Early, Fail
<1>5. CASE Setup
  BY <1>5 DEF Setup, LockInv, Early, Fail
<1>6. CASE ConnectMeta
  BY <1>6 DEF ConnectMeta, LockInv, Early, Fail
<1>7. CASE RecordMeta
  BY <1>7 DEF RecordMeta, LockInv, Early, Fail
<1>8. ASSUME NEW w \in Writers, StartWriter(w) PROVE LockInv'
  BY <1>8 DEF StartWriter, LockInv, Early
<1>9. CASE StartWriterFails
  BY <1>9 DEF StartWriterFails, LockInv, Early, Fail
<1>10. CASE WritersStarted
  BY <1>10 DEF WritersStarted, LockInv, Early
<1>11. CASE TearDown
  BY <1>11, Zenon DEF TearDown, LockInv, Early, AfterTearDown, Fail
<1>12. CASE RecordAfter
  BY <1>12 DEF RecordAfter, LockInv, Early
<1>13. CASE Finish
  BY <1>13 DEF Finish, LockInv, Early
<1>14. CASE FinishFails
  BY <1>14 DEF FinishFails, LockInv, Early, Fail
<1>15. CASE DumpDatabasesFails
  BY <1>15 DEF DumpDatabasesFails, LockInv, Early, Fail
<1>16. CASE DeferredTearDown
  BY <1>16 DEF DeferredTearDown, LockInv, Early, AfterTearDown, TypeInv, TypeOK, LockStates
<1>17. CASE Return
  BY <1>17 DEF Return, LockInv, Early
<1>18. ASSUME NEW w \in Writers, TakeChunk(w) PROVE LockInv'
  BY <1>18 DEF TakeChunk, LockInv, Early
<1>19. ASSUME NEW w \in Writers, ReadChunk(w) PROVE LockInv'
  BY <1>19 DEF ReadChunk, LockInv, Early
<1>20. ASSUME NEW w \in Writers, AttemptFails(w) PROVE LockInv'
  BY <1>20 DEF AttemptFails, LockInv, Early
<1>21. ASSUME NEW w \in Writers, Ping(w) PROVE LockInv'
  BY <1>21 DEF Ping, LockInv, Early
<1>22. ASSUME NEW w \in Writers, Reconnect(w) PROVE LockInv'
  BY <1>22 DEF Reconnect, LockInv, Early
<1>23. ASSUME NEW w \in Writers, ResetAfter(w) PROVE LockInv'
  BY <1>23 DEF ResetAfter, LockInv, Early
<1>24. ASSUME NEW w \in Writers, QueryAfter(w) PROVE LockInv'
  BY <1>24 DEF QueryAfter, LockInv, Early
<1>25. ASSUME NEW w \in Writers, AppendAfter(w) PROVE LockInv'
  BY <1>25 DEF AppendAfter, LockInv, Early
<1>26. CASE CancelCtx
  BY <1>26 DEF CancelCtx, LockInv, Early
<1>27. CASE CloseDB
  BY <1>27 DEF CloseDB, LockInv, Early
<1>28. CASE UNCHANGED vars
  BY <1>28 DEF vars, LockInv, Early
<1> QED
  BY <1>1, <1>2, <1>3, <1>4, <1>5, <1>6, <1>7, <1>8, <1>9, <1>10, <1>11, <1>12, <1>13,
     <1>14, <1>15, <1>16, <1>17, <1>18, <1>19, <1>20, <1>21, <1>22, <1>23, <1>24, <1>25,
     <1>26, <1>27, <1>28
  DEF Next, Server, Main, Writer, Terminated

(* On every path out of Dump the server is unlocked, whatever failed and whenever *)
(* the lock connection broke (the deferred TearDown of dump.go:121-128).           *)
THEOREM LockIsReleased == Spec => []LockReleased
<1>1. Init => LockInv
  BY DEF Init, LockInv, Early
<1>2. LockInv => LockReleased
  BY DEF LockInv, LockReleased, ServerLocked
<1>3. Spec => []TypeInv
  BY TypeInvInit, TypeInvStep, PTL DEF Spec
<1> QED BY <1>1, <1>2, <1>3, LockInvStep, PTL DEF Spec

-----------------------------------------------------------------------------
(* Nothing has been read from the server for the dump. *)
NoReads == dumped = {} /\ metaPos = NoPos /\ \A w \in Writers : wst[w] = "none"

(* On a TiDB with TiKV the sessions read at the snapshot before anything is read: *)
(* the two steps that settle it come first, and a failure of the second is final.  *)
SnapshotInv ==
  /\ \/ pc \in {"getSnapshot", "setSessionParam", "returned"} /\ NoReads
     \/ pc # "getSnapshot" /\ session = snapshot /\ (snapshot # NoPos => TiDB)
  /\ snapshot # NoPos => /\ metaPos \in {snapshot, NoPos}
                         /\ \A r \in dumped : r.pos = snapshot

AtSnapshot == Mode = "snapshot" /\ HasTiKV

LEMMA SnapshotInvStep == AtSnapshot /\ TypeInv /\ SnapshotInv /\ [Next]_vars => SnapshotInv'
<1> SUFFICES ASSUME Mode = "snapshot", HasTiKV, TypeInv, SnapshotInv, [Next]_vars
             PROVE  SnapshotInv'
  BY DEF AtSnapshot
<1> USE DEF serverVars, startVars, metaVars, mainVars, writerVars, closeVars
<1> Mode' = Mode /\ TiDB' = TiDB
  BY ConfigStable, Zenon
<1>1. ASSUME NEW t \in Tables \cup {Other}, Commit(t) PROVE SnapshotInv'
  BY <1>1 DEF Commit, SnapshotInv, NoReads
<1>2. CASE LockConnBreaks
  BY <1>2 DEF LockConnBreaks, SnapshotInv, NoReads
<1>3. CASE GetSnapshot
  BY <1>3 DEF GetSnapshot, SnapshotInv, NoReads
<1>4. CASE SetSessionParam
  BY <1>4 DEF SetSessionParam, SnapshotInv, NoReads, Fail
<1>5. CASE Setup
  BY <1>5 DEF Setup, SnapshotInv, NoReads, Fail
<1>6. CASE ConnectMeta
  BY <1>6 DEF ConnectMeta, SnapshotInv, NoReads, Fail
<1>7. CASE RecordMeta
  BY <1>7 DEF RecordMeta, SnapshotInv, NoReads, MasterStatus, Fail
<1>8. ASSUME NEW w \in Writers, StartWriter(w) PROVE SnapshotInv'
  BY <1>8 DEF StartWriter, SnapshotInv, NoReads
<1>9. CASE StartWriterFails
  BY <1>9 DEF StartWriterFails, SnapshotInv, NoReads, Fail
<1>10. CASE WritersStarted
  BY <1>10 DEF WritersStarted, SnapshotInv, NoReads
<1>11. CASE TearDown
  BY <1>11 DEF TearDown, SnapshotInv, NoReads, Fail
<1>12. CASE RecordAfter
  BY <1>12 DEF RecordAfter, SnapshotInv, NoReads
<1>13. CASE Finish
  BY <1>13 DEF Finish, SnapshotInv, NoReads
<1>14. CASE FinishFails
  BY <1>14, Zenon DEF FinishFails, SnapshotInv, NoReads, Fail
<1>15. CASE DumpDatabasesFails
  BY <1>15 DEF DumpDatabasesFails, SnapshotInv, NoReads, Fail
<1>16. CASE DeferredTearDown
  BY <1>16 DEF DeferredTearDown, SnapshotInv, NoReads
<1>17. CASE Return
  BY <1>17 DEF Return, SnapshotInv, NoReads
<1>18. ASSUME NEW w \in Writers, TakeChunk(w) PROVE SnapshotInv'
  <2>1. wst[w] # "none" /\ \A v \in Writers : wst'[v] # "none" => wst[v] # "none"
    BY <1>18 DEF TakeChunk, TypeInv, TypeOK
  <2> QED BY <1>18, <2>1 DEF TakeChunk, SnapshotInv, NoReads
<1>19. ASSUME NEW w \in Writers, ReadChunk(w) PROVE SnapshotInv'
  <2>1. wst[w] # "none" /\ \A v \in Writers : wst'[v] # "none" => wst[v] # "none"
    BY <1>19, Zenon DEF ReadChunk, TypeInv, TypeOK
  <2>2. session = snapshot
    BY <2>1, Zenon DEF SnapshotInv, NoReads
  <2>3. snapshot # NoPos => \A r \in dumped' : r.pos = snapshot
    <3>1. session # NoPos => ReadPos(w, chunk[w][1]) = session
      BY Zenon DEF ReadPos
    <3>2. \A r \in dumped' : r \in dumped \/ r.pos = ReadPos(w, chunk[w][1])
      <4>1. [tbl |-> chunk[w][1], pos |-> ReadPos(w, chunk[w][1])].pos = ReadPos(w, chunk[w][1])
        BY Zenon
      <4> QED BY <1>19, <4>1, Zenon DEF ReadChunk
    <3> QED BY <2>2, <3>1, <3>2, Zenon DEF SnapshotInv
  <2> QED BY <1>19, <2>1, <2>2, <2>3, Zenon DEF ReadChunk, SnapshotInv, NoReads
<1>20. ASSUME NEW w \in Writers, AttemptFails(w) PROVE SnapshotInv'
  <2>1. wst[w] # "none" /\ \A v \in Writers : wst'[v] # "none" => wst[v] # "none"
    BY <1>20, Zenon DEF AttemptFails, TypeInv, TypeOK
  <2> QED BY <1>20, <2>1, Zenon DEF AttemptFails, SnapshotInv, NoReads
<1>21. ASSUME NEW w \in Writers, Ping(w) PROVE SnapshotInv'
  <2>1. wst[w] # "none" /\ \A v \in Writers : wst'[v] # "none" => wst[v] # "none"
    BY <1>21, Zenon DEF Ping, TypeInv, TypeOK
  <2> QED BY <1>21, <2>1 DEF Ping, SnapshotInv, NoReads
<1>22. ASSUME NEW w \in Writers, Reconnect(w) PROVE SnapshotInv'
  <2>1. wst[w] # "none" /\ \A v \in Writers : wst'[v] # "none" => wst[v] # "none"
    BY <1>22 DEF Reconnect, TypeInv, TypeOK
  <2> QED BY <1>22, <2>1 DEF Reconnect, SnapshotInv, NoReads
<1>23. ASSUME NEW w \in Writers, ResetAfter(w) PROVE SnapshotInv'
  <2>1. wst[w] # "none" /\ \A v \in Writers : wst'[v] # "none" => wst[v] # "none"
    BY <1>23, Zenon DEF ResetAfter, TypeInv, TypeOK
  <2> QED BY <1>23, <2>1 DEF ResetAfter, SnapshotInv, NoReads
<1>24. ASSUME NEW w \in Writers, QueryAfter(w) PROVE SnapshotInv'
  <2>1. wst[w] # "none" /\ \A v \in Writers : wst'[v] # "none" => wst[v] # "none"
    BY <1>24, Zenon DEF QueryAfter, TypeInv, TypeOK
  <2> QED BY <1>24, <2>1, Zenon DEF QueryAfter, SnapshotInv, NoReads
<1>25. ASSUME NEW w \in Writers, AppendAfter(w) PROVE SnapshotInv'
  <2>1. wst[w] # "none" /\ \A v \in Writers : wst'[v] # "none" => wst[v] # "none"
    BY <1>25, Zenon DEF AppendAfter, TypeInv, TypeOK
  <2> QED BY <1>25, <2>1 DEF AppendAfter, SnapshotInv, NoReads
<1>26. CASE CancelCtx
  BY <1>26 DEF CancelCtx, SnapshotInv, NoReads
<1>27. CASE CloseDB
  BY <1>27 DEF CloseDB, SnapshotInv, NoReads
<1>28. CASE UNCHANGED vars
  BY <1>28 DEF vars, SnapshotInv, NoReads
<1> QED
  BY <1>1, <1>2, <1>3, <1>4, <1>5, <1>6, <1>7, <1>8, <1>9, <1>10, <1>11, <1>12, <1>13,
     <1>14, <1>15, <1>16, <1>17, <1>18, <1>19, <1>20, <1>21, <1>22, <1>23, <1>24, <1>25,
     <1>26, <1>27, <1>28, Zenon
  DEF Next, Server, Main, Writer, Terminated

(* Under snapshot every chunk shows the snapshot, which is the position in the    *)
(* metadata, rebuilt connections included, on a TiDB with TiKV that has given a    *)
(* snapshot (tidbGetSnapshot, setSessionParam, recordGlobalMetaData).              *)
THEOREM SnapshotIsExactHolds == Spec => []SnapshotIsExact
<1>1. Init => TypeInv /\ (AtSnapshot => SnapshotInv)
  BY TypeInvInit DEF Init, SnapshotInv, NoReads
<1>2. /\ TypeInv /\ (AtSnapshot => SnapshotInv) /\ [Next]_vars
      => (TypeInv /\ (AtSnapshot => SnapshotInv))'
  BY TypeInvStep, SnapshotInvStep, ConfigStable DEF AtSnapshot
<1>3. (AtSnapshot => SnapshotInv) => SnapshotIsExact
  BY DEF SnapshotInv, SnapshotIsExact, AtSnapshot
<1> QED BY <1>1, <1>2, <1>3, PTL DEF Spec

-----------------------------------------------------------------------------
BeforeWriters == Early \/ pc \in {"connectMeta", "recordMeta"}

(* The sessions read current data, or at the snapshot that the metadata names. *)
SessionInv ==
  session # NoPos =>
    /\ session = snapshot /\ TiDB /\ metaPos \in {session, NoPos}
    /\ pc \notin {"getSnapshot", "setSessionParam"}

(* The position of the metadata is read before the first writer's transaction     *)
(* starts, and the binlog only grows.                                             *)
EarlyInv ==
  /\ SessionInv
  /\ snapshot <= Pos /\ metaPos <= Pos
  /\ BeforeWriters => NoReads
  /\ \A w \in Writers : wst[w] # "none" => metaPos <= snap[w]
  /\ \A r \in dumped : metaPos <= r.pos

LEMMA EarlyInvStep == TypeInv /\ EarlyInv /\ [Next]_vars => EarlyInv'
<1> SUFFICES ASSUME TypeInv, EarlyInv, [Next]_vars PROVE EarlyInv'
  OBVIOUS
<1> USE DEF serverVars, startVars, metaVars, mainVars, writerVars, closeVars, Early
<1> Mode' = Mode /\ TiDB' = TiDB
  BY ConfigStable
<1>0. Pos \in Nat /\ MasterStatus \in Nat /\ Pos <= Pos
  BY PosNat DEF TypeInv
<1>1. ASSUME NEW t \in Tables \cup {Other}, Commit(t) PROVE EarlyInv'
  <2>1. Pos' = Pos + 1
    BY <1>1, CommitAppends, Zenon
  <2>2. snapshot <= Pos' /\ metaPos <= Pos'
    BY <1>0, <2>1 DEF EarlyInv, TypeInv, TypeOK, NoPos
  <2> QED BY <1>1, <2>2, Zenon DEF Commit, EarlyInv, NoReads, SessionInv, BeforeWriters
<1>2. CASE LockConnBreaks
  BY <1>2, Zenon DEF LockConnBreaks, EarlyInv, NoReads, SessionInv, BeforeWriters, Pos
<1>3. CASE GetSnapshot
  <2>1. snapshot' \in {snapshot, Pos}
    BY <1>3 DEF GetSnapshot
  <2>2. snapshot' <= Pos
    BY <1>0, <2>1, Zenon DEF EarlyInv
  <2> QED BY <1>3, <2>2, Zenon DEF GetSnapshot, EarlyInv, NoReads, SessionInv, BeforeWriters, Pos
<1>4. CASE SetSessionParam
  <2>1. session = NoPos /\ NoReads
    BY <1>4, Zenon DEF SetSessionParam, EarlyInv, SessionInv, BeforeWriters
  <2> QED BY <1>4, <2>1, Zenon DEF SetSessionParam, EarlyInv, NoReads, SessionInv, BeforeWriters, Pos, Fail
<1>5. CASE Setup
  BY <1>5, Zenon DEF Setup, EarlyInv, NoReads, SessionInv, BeforeWriters, Pos, Fail
<1>6. CASE ConnectMeta
  BY <1>6, Zenon DEF ConnectMeta, EarlyInv, NoReads, SessionInv, BeforeWriters, Pos, Fail
<1>7. CASE RecordMeta
  <2>1. metaPos' <= Pos
    <3>1. MasterStatus <= Pos
      BY <1>0 DEF MasterStatus, EarlyInv
    <3> QED BY <1>7, <1>0, <3>1 DEF RecordMeta, NoPos
  <2>2. session # NoPos => metaPos' \in {session, NoPos}
    BY <1>7, Zenon DEF RecordMeta, MasterStatus, EarlyInv, SessionInv
  <2> QED BY <1>7, <2>1, <2>2, Zenon DEF RecordMeta, EarlyInv, NoReads, SessionInv, BeforeWriters, Pos, Fail
<1>8. ASSUME NEW w \in Writers, StartWriter(w) PROVE EarlyInv'
  <2>1. \A v \in Writers : \/ wst'[v] = wst[v] /\ snap'[v] = snap[v]
                           \/ snap'[v] = Pos
    BY <1>8, Zenon DEF StartWriter, TypeInv, TypeOK
  <2> QED BY <1>8, <2>1 DEF StartWriter, EarlyInv, NoReads, SessionInv, BeforeWriters, Pos
<1>9. CASE StartWriterFails
  BY <1>9, Zenon DEF StartWriterFails, EarlyInv, NoReads, SessionInv, BeforeWriters, Pos, Fail
<1>10. CASE WritersStarted
  BY <1>10, Zenon DEF WritersStarted, EarlyInv, NoReads, SessionInv, BeforeWriters, Pos
<1>11. CASE TearDown
  BY <1>11, Zenon DEF TearDown, EarlyInv, NoReads, SessionInv, BeforeWriters, Pos, Fail
<1>12. CASE RecordAfter
  BY <1>12, Zenon DEF RecordAfter, EarlyInv, NoReads, SessionInv, BeforeWriters, Pos
<1>13. CASE Finish
  BY <1>13, Zenon DEF Finish, EarlyInv, NoReads, SessionInv, BeforeWriters, Pos
<1>14. CASE FinishFails
  BY <1>14, Zenon DEF FinishFails, EarlyInv, NoReads, SessionInv, BeforeWriters, Pos, Fail
<1>15. CASE DumpDatabasesFails
  BY <1>15, Zenon DEF DumpDatabasesFails, EarlyInv, NoReads, SessionInv, BeforeWriters, Pos, Fail
<1>16. CASE DeferredTearDown
  BY <1>16, Zenon DEF DeferredTearDown, EarlyInv, NoReads, SessionInv, BeforeWriters, Pos
<1>17. CASE Return
  BY <1>17, Zenon DEF Return, EarlyInv, NoReads, SessionInv, BeforeWriters, Pos
<1>18. ASSUME NEW w \in Writers, TakeChunk(w) PROVE EarlyInv'
  <2>1. wst[w] # "none" /\ \A v \in Writers : wst'[v] # "none" => wst[v] # "none"
    BY <1>18, Zenon DEF TakeChunk, TypeInv, TypeOK
  <2> QED BY <1>18, <2>1, Zenon DEF TakeChunk, EarlyInv, NoReads, SessionInv, BeforeWriters, Pos
<1>19. ASSUME NEW w \in Writers, ReadChunk(w) PROVE EarlyInv'
  <2>1. wst[w] # "none" /\ \A v \in Writers : wst'[v] # "none" => wst[v] # "none"
    BY <1>19, Zenon DEF ReadChunk, TypeInv, TypeOK
  <2>2. \/ ReadPos(w, chunk[w][1]) \in {snap[w], Pos}
        \/ session # NoPos /\ ReadPos(w, chunk[w][1]) = session
    BY Zenon DEF ReadPos
  <2>3. metaPos <= snap[w] /\ metaPos <= Pos /\ (session # NoPos => metaPos <= session)
    <3>1. session # NoPos => metaPos <= session
      BY DEF EarlyInv, SessionInv, TypeInv, TypeOK, NoPos
    <3> QED BY <2>1, <3>1, Zenon DEF EarlyInv
  <2>4. \A r \in dumped' : r \in dumped \/ r.pos = ReadPos(w, chunk[w][1])
    BY <1>19, ReadAdds, Zenon
  <2>5. \A r \in dumped' : metaPos <= r.pos
    BY <2>2, <2>3, <2>4, Zenon DEF EarlyInv
  <2> QED BY <1>19, <2>1, <2>5, Zenon DEF ReadChunk, EarlyInv, NoReads, SessionInv, BeforeWriters, Pos
<1>20. ASSUME NEW w \in Writers, AttemptFails(w) PROVE EarlyInv'
  <2>1. wst[w] # "none" /\ \A v \in Writers : wst'[v] # "none" => wst[v] # "none"
    BY <1>20, Zenon DEF AttemptFails, TypeInv, TypeOK
  <2> QED BY <1>20, <2>1, Zenon DEF AttemptFails, EarlyInv, NoReads, SessionInv, BeforeWriters, Pos
<1>21. ASSUME NEW w \in Writers, Ping(w) PROVE EarlyInv'
  <2>1. wst[w] # "none" /\ \A v \in Writers : wst'[v] # "none" => wst[v] # "none"
    BY <1>21, Zenon DEF Ping, TypeInv, TypeOK
  <2> QED BY <1>21, <2>1, Zenon DEF Ping, EarlyInv, NoReads, SessionInv, BeforeWriters, Pos
<1>22. ASSUME NEW w \in Writers, Reconnect(w) PROVE EarlyInv'
  <2>1. wst[w] # "none" /\ \A v \in Writers : wst'[v] # "none" => wst[v] # "none"
    BY <1>22, Zenon DEF Reconnect, TypeInv, TypeOK
  <2>2. \A v \in Writers : snap'[v] \in {snap[v], Pos}
    BY <1>22, Zenon DEF Reconnect, TypeInv, TypeOK
  <2> QED BY <1>22, <2>1, <2>2, Zenon DEF Reconnect, EarlyInv, NoReads, SessionInv, BeforeWriters, Pos
<1>23. ASSUME NEW w \in Writers, ResetAfter(w) PROVE EarlyInv'
  <2>1. wst[w] # "none" /\ \A v \in Writers : wst'[v] # "none" => wst[v] # "none"
    BY <1>23, Zenon DEF ResetAfter, TypeInv, TypeOK
  <2> QED BY <1>23, <2>1, Zenon DEF ResetAfter, EarlyInv, NoReads, SessionInv, BeforeWriters, Pos
<1>24. ASSUME NEW w \in Writers, QueryAfter(w) PROVE EarlyInv'
  <2>1. wst[w] # "none" /\ \A v \in Writers : wst'[v] # "none" => wst[v] # "none"
    BY <1>24, Zenon DEF QueryAfter, TypeInv, TypeOK
  <2> QED BY <1>24, <2>1, Zenon DEF QueryAfter, EarlyInv, NoReads, SessionInv, BeforeWriters, Pos
<1>25. ASSUME NEW w \in Writers, AppendAfter(w) PROVE EarlyInv'
  <2>1. wst[w] # "none" /\ \A v \in Writers : wst'[v] # "none" => wst[v] # "none"
    BY <1>25, Zenon DEF AppendAfter, TypeInv, TypeOK
  <2> QED BY <1>25, <2>1, Zenon DEF AppendAfter, EarlyInv, NoReads, SessionInv, BeforeWriters, Pos
<1>26. CASE CancelCtx
  BY <1>26, Zenon DEF CancelCtx, EarlyInv, NoReads, SessionInv, BeforeWriters, Pos
<1>27. CASE CloseDB
  BY <1>27, Zenon DEF CloseDB, EarlyInv, NoReads, SessionInv, BeforeWriters, Pos
<1>28. CASE UNCHANGED vars
  BY <1>28, Zenon DEF vars, EarlyInv, NoReads, SessionInv, BeforeWriters, Pos
<1> QED
  BY <1>1, <1>2, <1>3, <1>4, <1>5, <1>6, <1>7, <1>8, <1>9, <1>10, <1>11, <1>12, <1>13,
     <1>14, <1>15, <1>16, <1>17, <1>18, <1>19, <1>20, <1>21, <1>22, <1>23, <1>24, <1>25,
     <1>26, <1>27, <1>28, Zenon
  DEF Next, Server, Main, Writer, Terminated

(* In every mode the recorded position is not later than any dumped row, so a       *)
(* replication that starts there in safe mode misses no change (dump.go:138-146):   *)
(* also when the locks were lost, or a snapshot could not be read at.               *)
THEOREM PositionIsEarlyHolds == Spec => []PositionIsEarly
<1>1. Init => TypeInv /\ EarlyInv
  <2>1. Init => EarlyInv
    BY DEF Init, EarlyInv, SessionInv, NoReads, Pos, NoPos
  <2> QED BY <2>1, TypeInvInit
<1>2. TypeInv /\ EarlyInv /\ [Next]_vars => (TypeInv /\ EarlyInv)'
  BY TypeInvStep, EarlyInvStep
<1>3. EarlyInv => PositionIsEarly
  BY Zenon DEF EarlyInv, PositionIsEarly
<1> QED BY <1>1, <1>2, <1>3, PTL DEF Spec

-----------------------------------------------------------------------------
(* The configurations in which the locks stay until the deferred TearDown. *)
Holding == LockMode /\ ~Transactional /\ ~PDClient

LEMMA PositionInt == \A p : p \in 0 .. Pos => p \in Int
  OBVIOUS

(* Position p shows every dumped table as the locks found it. *)
Shows(p) == p \in 0 .. Pos /\ \A t \in Tables : Same(t, cut, p)

AllShow ==
  /\ \A w \in Writers : wst[w] # "none" => Shows(snap[w])
  /\ metaPos # NoPos => Shows(metaPos)
  /\ \A r \in dumped : Shows(r.pos)

UntilDeferred ==
  pc \in {"connectMeta", "recordMeta", "startWriters", "tearDown", "recordAfter", "dumping",
          "deferred"}

(* While the locks are held every position that can be read, also by a rebuilt   *)
(* connection, shows what they found; a result of nil comes when no writer reads *)
(* any more, so nothing is read after the deferred TearDown.  A lock connection  *)
(* that broke stays lost.                                                        *)
HeldInv ==
  /\ session = NoPos /\ snapshot = NoPos
  /\ Early => NoReads
  /\ UntilDeferred => lockConn \in {"held", "lost"} /\ cut \in 0 .. Pos
  /\ UntilDeferred /\ lockConn = "held" => Shows(Pos) /\ AllShow
  /\ dumpErr = "nil" => /\ pc \in {"deferred", "return", "returned"}
                        /\ \A w \in Writers : wst[w] = "idle"
                        /\ cut \in 0 .. Pos
                        /\ lockConn # "lost" => AllShow
  /\ metadata => dumpErr = "nil"

LEMMA HeldInvInit == Init => HeldInv
  BY DEF Init, HeldInv, NoReads, UntilDeferred

LEMMA HeldInvStep == Holding /\ TypeInv /\ HeldInv /\ [Next]_vars => HeldInv'
<1> SUFFICES ASSUME Holding, TypeInv, HeldInv, [Next]_vars PROVE HeldInv'
  OBVIOUS
<1> USE DEF serverVars, startVars, metaVars, mainVars, writerVars, closeVars
<1> Mode' = Mode /\ TiDB' = TiDB /\ Transactional' = Transactional
  BY ConfigStable
<1>a. LockMode /\ ~Transactional /\ ~PDClient /\ Mode \in {"flush", "lock"}
  BY DEF Holding, LockMode
<1>0. UNCHANGED <<binlog, cut>> => \A p : Shows(p) <=> Shows(p)'
  BY DEF Shows, Same, Pos
<1>1. ASSUME NEW t \in Tables \cup {Other}, Commit(t) PROVE HeldInv'
  <2>1. /\ binlog \in Seq(Tables \cup {Other}) /\ binlog' = Append(binlog, t)
        /\ cut' = cut /\ Pos' = Pos + 1 /\ Pos \in Nat
    BY <1>1, CommitAppends, Zenon
  <2>2. ASSUME cut \in 0 .. Pos, NEW p, Shows(p) PROVE Shows(p)'
    <3>1. p \in 0 .. Pos'
      BY <2>1, <2>2 DEF Shows
    <3>2. ASSUME NEW u \in Tables PROVE Same(u, cut, p)'
      BY <2>1, <2>2, SameStable DEF Shows
    <3> QED BY <2>1, <3>1, <3>2, Zenon DEF Shows, Same
  <2>3. ASSUME cut \in 0 .. Pos, lockConn = "held", Shows(Pos) PROVE Shows(Pos)'
    <3>1. t \notin Tables
      BY <1>1, <2>3, <1>a DEF Commit, Blocked, ServerLocked, LockMode
    <3>2. ASSUME NEW u \in Tables PROVE Same(u, cut, Pos)'
      BY <2>1, <2>3, <3>1, SameExtended DEF Shows
    <3>3. Pos' \in 0 .. Pos'
      BY <2>1
    <3> QED BY <2>1, <3>2, <3>3, Zenon DEF Shows, Same
  <2>4. cut \in 0 .. Pos /\ AllShow => AllShow'
    BY <1>1, <2>2, Zenon DEF Commit, AllShow
  <2>5. cut \in 0 .. Pos => cut \in 0 .. Pos'
    BY <2>1
  <2> QED BY <1>1, <2>1, <2>3, <2>4, <2>5, Zenon DEF Commit, HeldInv, NoReads, Early, UntilDeferred
<1>2. CASE LockConnBreaks
  BY <1>2, <1>a, <1>0, Zenon DEF LockConnBreaks, HeldInv, NoReads, Early, UntilDeferred, AllShow, Pos
<1>3. CASE GetSnapshot
  BY <1>a, <1>0, <1>3, Zenon DEF GetSnapshot, HeldInv, NoReads, Early, UntilDeferred
<1>4. CASE SetSessionParam
  BY <1>4, <1>a, <1>0, Zenon DEF SetSessionParam, HeldInv, NoReads, Early, UntilDeferred, AllShow, Pos, Fail
<1>5. CASE Setup
  <2>1. CASE pc' = "connectMeta" /\ lockConn' = "held" /\ cut' = Pos /\ UNCHANGED dumpErr
    <3>1. Pos' = Pos /\ Pos \in Nat
      BY <1>5, PosNat DEF Setup, Pos, TypeInv
    <3>2. Shows(Pos)'
      BY <2>1, <3>1 DEF Shows, Same
    <3>3. AllShow'
      BY <1>5, Zenon DEF Setup, HeldInv, Early, NoReads, AllShow
    <3>4. cut' \in 0 .. Pos' /\ cut' = Pos'
      BY <2>1, <3>1
    <3>5. session' = session /\ snapshot' = snapshot /\ metadata' = metadata
      BY <1>5, Zenon DEF Setup
    <3>6. pc \notin {"deferred", "return", "returned"} /\ ~Early'
      BY <1>5, <2>1, Zenon DEF Setup, Early
    <3>7. dumpErr' # "nil" /\ ~metadata'
      BY <2>1, <3>5, <3>6, Zenon DEF HeldInv
    <3> QED BY <2>1, <3>1, <3>2, <3>3, <3>4, <3>5, <3>6, <3>7, Zenon DEF HeldInv, UntilDeferred
  <2>2. CASE Fail("return") /\ UNCHANGED <<lockConn, cut>>
    BY <1>5, <2>2, Zenon DEF Setup, HeldInv, Early, UntilDeferred, Fail
  <2> QED BY <1>a, <1>5, <2>1, <2>2 DEF Setup
<1>6. CASE ConnectMeta
  BY <1>6, <1>a, <1>0, Zenon DEF ConnectMeta, HeldInv, NoReads, Early, UntilDeferred, AllShow, Pos, Fail
<1>7. CASE RecordMeta
  <2>1. MasterStatus = Pos
    BY DEF HeldInv, MasterStatus
  <2>2. AllShow /\ Shows(Pos) => AllShow'
    BY <1>0, <1>7, <2>1, Zenon DEF RecordMeta, AllShow
  <2> QED BY <1>0, <1>7, <2>2, Zenon DEF RecordMeta, HeldInv, NoReads, Early, UntilDeferred, Pos, Fail
<1>8. ASSUME NEW w \in Writers, StartWriter(w) PROVE HeldInv'
  <2>1. \A v \in Writers : \/ wst'[v] = wst[v] /\ snap'[v] = snap[v]
                           \/ snap'[v] = Pos
    BY <1>8, Zenon DEF StartWriter, TypeInv, TypeOK
  <2>2. dumpErr # "nil" /\ ~Early
    BY <1>8 DEF StartWriter, HeldInv, Early
  <2>3. AllShow /\ Shows(Pos) => AllShow'
    BY <1>0, <1>8, <2>1, Zenon DEF StartWriter, AllShow
  <2> QED BY <1>0, <1>8, <2>2, <2>3, Zenon DEF StartWriter, HeldInv, UntilDeferred, Early, Pos
<1>9. CASE StartWriterFails
  BY <1>9, <1>a, <1>0, Zenon DEF StartWriterFails, HeldInv, NoReads, Early, UntilDeferred, AllShow, Pos, Fail
<1>10. CASE WritersStarted
  BY <1>10, <1>a, <1>0, Zenon DEF WritersStarted, HeldInv, NoReads, Early, UntilDeferred, AllShow, Pos
<1>11. CASE TearDown
  BY <1>a, <1>0, <1>11, Zenon DEF TearDown, HeldInv, NoReads, Early, UntilDeferred, AllShow, Pos
<1>12. CASE RecordAfter
  BY <1>12, <1>a, <1>0, Zenon DEF RecordAfter, HeldInv, NoReads, Early, UntilDeferred, AllShow, Pos
<1>13. CASE Finish
  <2>1. AllShow => AllShow'
    BY <1>0, <1>13, Zenon DEF Finish, AllShow
  <2> QED BY <1>0, <1>13, <2>1, Zenon DEF Finish, HeldInv, Early, UntilDeferred, Pos
<1>14. CASE FinishFails
  BY <1>14, <1>a, <1>0, Zenon DEF FinishFails, HeldInv, NoReads, Early, UntilDeferred, AllShow, Pos, Fail
<1>15. CASE DumpDatabasesFails
  BY <1>15, <1>a, <1>0, Zenon DEF DumpDatabasesFails, HeldInv, NoReads, Early, UntilDeferred, AllShow, Pos, Fail
<1>16. CASE DeferredTearDown
  <2>1. lockConn' # "lost" => lockConn # "lost"
    BY <1>16 DEF DeferredTearDown, AfterTearDown
  <2>2. AllShow => AllShow'
    BY <1>0, <1>16, Zenon DEF DeferredTearDown, AllShow
  <2> QED BY <1>0, <1>16, <2>1, <2>2, Zenon DEF DeferredTearDown, HeldInv, Early, UntilDeferred, Pos
<1>17. CASE Return
  <2>1. AllShow => AllShow'
    BY <1>0, <1>17, Zenon DEF Return, AllShow
  <2>2. pc' = "returned" /\ pc = "return" /\ (metadata' => dumpErr' = "nil")
    BY <1>17 DEF Return, HeldInv
  <2> QED BY <1>17, <2>1, <2>2, Zenon DEF Return, HeldInv, Early, UntilDeferred, Pos
<1>18. ASSUME NEW w \in Writers, TakeChunk(w) PROVE HeldInv'
  <2>1. wst[w] # "none" /\ \A v \in Writers : wst'[v] # "none" => wst[v] # "none"
    BY <1>18, Zenon DEF TakeChunk, TypeInv, TypeOK
  <2>2. dumpErr # "nil" /\ ~Early
    BY <1>18, <2>1, Zenon DEF TakeChunk, HeldInv, NoReads
  <2>3. AllShow => AllShow'
    BY <1>0, <1>18, <2>1, Zenon DEF TakeChunk, AllShow
  <2> QED BY <1>0, <1>18, <2>2, <2>3, Zenon DEF TakeChunk, HeldInv, UntilDeferred, Early, Pos
<1>19. ASSUME NEW w \in Writers, ReadChunk(w) PROVE HeldInv'
  <2>1. wst[w] # "none" /\ \A v \in Writers : wst'[v] # "none" => wst[v] # "none"
    BY <1>19, Zenon DEF ReadChunk, TypeInv, TypeOK
  <2>2. dumpErr # "nil" /\ ~Early
    BY <1>19, <2>1, Zenon DEF ReadChunk, HeldInv, NoReads
  <2>3. ReadPos(w, chunk[w][1]) \in {snap[w], Pos}
    BY Zenon DEF ReadPos, HeldInv
  <2>4. \A r \in dumped' : r \in dumped \/ r.pos = ReadPos(w, chunk[w][1])
    BY <1>19, ReadAdds, Zenon
  <2>5. AllShow /\ Shows(Pos) => AllShow'
    BY <1>0, <1>19, <2>1, <2>3, <2>4, Zenon DEF ReadChunk, AllShow
  <2> QED BY <1>0, <1>19, <2>2, <2>5, Zenon DEF ReadChunk, HeldInv, UntilDeferred, Early, Pos
<1>20. ASSUME NEW w \in Writers, AttemptFails(w) PROVE HeldInv'
  <2>1. wst[w] # "none" /\ \A v \in Writers : wst'[v] # "none" => wst[v] # "none"
    BY <1>20, Zenon DEF AttemptFails, TypeInv, TypeOK
  <2>2. dumpErr # "nil" /\ ~Early
    BY <1>20, <2>1, Zenon DEF AttemptFails, HeldInv, NoReads
  <2>3. AllShow => AllShow'
    BY <1>0, <1>20, <2>1, Zenon DEF AttemptFails, AllShow
  <2> QED BY <1>0, <1>20, <2>2, <2>3, Zenon DEF AttemptFails, HeldInv, UntilDeferred, Early, Pos
<1>21. ASSUME NEW w \in Writers, Ping(w) PROVE HeldInv'
  <2>1. wst[w] # "none" /\ \A v \in Writers : wst'[v] # "none" => wst[v] # "none"
    BY <1>21, Zenon DEF Ping, TypeInv, TypeOK
  <2>2. dumpErr # "nil" /\ ~Early
    BY <1>21, <2>1, Zenon DEF Ping, HeldInv, NoReads
  <2>3. AllShow => AllShow'
    BY <1>0, <1>21, <2>1, Zenon DEF Ping, AllShow
  <2> QED BY <1>0, <1>21, <2>2, <2>3, Zenon DEF Ping, HeldInv, UntilDeferred, Early, Pos
<1>22. ASSUME NEW w \in Writers, Reconnect(w) PROVE HeldInv'
  <2>1. wst[w] # "none" /\ \A v \in Writers : wst'[v] # "none" => wst[v] # "none"
    BY <1>22, Zenon DEF Reconnect, TypeInv, TypeOK
  <2>2. dumpErr # "nil" /\ ~Early
    BY <1>22, <2>1, Zenon DEF Reconnect, HeldInv, NoReads
  <2>3. \A v \in Writers : snap'[v] \in {snap[v], Pos}
    BY <1>22, Zenon DEF Reconnect, TypeInv, TypeOK
  <2>4. AllShow /\ Shows(Pos) => AllShow'
    BY <1>0, <1>22, <2>1, <2>3, Zenon DEF Reconnect, AllShow
  <2> QED BY <1>0, <1>22, <2>2, <2>4, Zenon DEF Reconnect, HeldInv, UntilDeferred, Early, Pos
<1>23. ASSUME NEW w \in Writers, ResetAfter(w) PROVE HeldInv'
  <2>1. wst[w] # "none" /\ \A v \in Writers : wst'[v] # "none" => wst[v] # "none"
    BY <1>23, Zenon DEF ResetAfter, TypeInv, TypeOK
  <2>2. dumpErr # "nil" /\ ~Early
    BY <1>23, <2>1 DEF ResetAfter, HeldInv, NoReads
  <2>3. AllShow => AllShow'
    BY <1>0, <1>23, <2>1, Zenon DEF ResetAfter, AllShow
  <2> QED BY <1>0, <1>23, <2>2, <2>3, Zenon DEF ResetAfter, HeldInv, UntilDeferred, Early, Pos
<1>24. ASSUME NEW w \in Writers, QueryAfter(w) PROVE HeldInv'
  <2>1. wst[w] # "none" /\ \A v \in Writers : wst'[v] # "none" => wst[v] # "none"
    BY <1>24, Zenon DEF QueryAfter, TypeInv, TypeOK
  <2>2. dumpErr # "nil" /\ ~Early
    BY <1>24, <2>1 DEF QueryAfter, HeldInv, NoReads
  <2>3. AllShow => AllShow'
    BY <1>0, <1>24, <2>1, Zenon DEF QueryAfter, AllShow
  <2> QED BY <1>0, <1>24, <2>2, <2>3, Zenon DEF QueryAfter, HeldInv, UntilDeferred, Early, Pos
<1>25. ASSUME NEW w \in Writers, AppendAfter(w) PROVE HeldInv'
  <2>1. wst[w] # "none" /\ \A v \in Writers : wst'[v] # "none" => wst[v] # "none"
    BY <1>25, Zenon DEF AppendAfter, TypeInv, TypeOK
  <2>2. dumpErr # "nil" /\ ~Early
    BY <1>25, <2>1, Zenon DEF AppendAfter, HeldInv, NoReads
  <2>3. AllShow => AllShow'
    BY <1>0, <1>25, <2>1, Zenon DEF AppendAfter, AllShow
  <2> QED BY <1>0, <1>25, <2>2, <2>3, Zenon DEF AppendAfter, HeldInv, UntilDeferred, Early, Pos
<1>26. CASE CancelCtx
  BY <1>26, <1>a, <1>0, Zenon DEF CancelCtx, HeldInv, NoReads, Early, UntilDeferred, AllShow, Pos
<1>27. CASE CloseDB
  <2>1. (lockConn' # "lost" => lockConn # "lost") /\ (UntilDeferred => lockConn' = lockConn)
    BY <1>27, Zenon DEF CloseDB, HeldInv
  <2>2. AllShow => AllShow'
    BY <1>0, <1>27, Zenon DEF CloseDB, AllShow
  <2> QED BY <1>0, <1>27, <2>1, <2>2, Zenon DEF CloseDB, HeldInv, NoReads, Early, UntilDeferred, Pos
<1>28. CASE UNCHANGED vars
  BY <1>28, <1>a, <1>0, Zenon DEF vars, HeldInv, NoReads, Early, UntilDeferred, AllShow, Pos
<1> QED
  BY <1>1, <1>2, <1>3, <1>4, <1>5, <1>6, <1>7, <1>8, <1>9, <1>10, <1>11, <1>12, <1>13,
     <1>14, <1>15, <1>16, <1>17, <1>18, <1>19, <1>20, <1>21, <1>22, <1>23, <1>24, <1>25,
     <1>26, <1>27, <1>28, Zenon
  DEF Next, Server, Main, Writer, Terminated

(* Without --transactional-consistency a dump with a metadata file shows every     *)
(* table, of whatever engine, at the recorded position, unless the lock connection *)
(* broke: the locks are held until the last chunk is read (dump.go:121-128).        *)
THEOREM LockedUntilTheEndHolds == Spec => []LockedUntilTheEnd
<1>1. Init => TypeInv /\ (Holding => HeldInv)
  BY TypeInvInit, HeldInvInit
<1>2. TypeInv /\ (Holding => HeldInv) /\ [Next]_vars => (TypeInv /\ (Holding => HeldInv))'
  <2>1. [Next]_vars => (Holding' <=> Holding)
    BY ConfigStable DEF Holding, LockMode
  <2> QED BY <2>1, TypeInvStep, HeldInvStep
<1>3. ASSUME TypeInv, Holding => HeldInv PROVE LockedUntilTheEnd
  <2> SUFFICES ASSUME Holding, metadata, lockConn # "lost" PROVE CutOf(Tables)
    BY DEF LockedUntilTheEnd, Holding
  <2>1. cut \in Int /\ AllShow
    BY <1>3 DEF HeldInv
  <2> SUFFICES ASSUME NEW r \in dumped, r.tbl \in Tables
               PROVE  /\ metaPos # NoPos => Same(r.tbl, metaPos, r.pos)
                      /\ \A q \in dumped : q.tbl = r.tbl => Same(r.tbl, q.pos, r.pos)
    BY DEF CutOf
  <2>2. r.pos \in Int /\ Same(r.tbl, cut, r.pos)
    BY <2>1, PositionInt, Zenon DEF AllShow, Shows
  <2>3. ASSUME metaPos # NoPos PROVE Same(r.tbl, metaPos, r.pos)
    <3>1. metaPos \in Int /\ Same(r.tbl, cut, metaPos)
      BY <2>1, <2>3, PositionInt, Zenon DEF AllShow, Shows
    <3> QED BY <1>3, <2>1, <2>2, <3>1, SameTransitive, Zenon DEF TypeInv, TypeOK
  <2>4. ASSUME NEW q \in dumped, q.tbl = r.tbl PROVE Same(r.tbl, q.pos, r.pos)
    <3>1. q.pos \in Int /\ Same(r.tbl, cut, q.pos)
      BY <2>1, <2>4, PositionInt, Zenon DEF AllShow, Shows
    <3> QED BY <1>3, <2>1, <2>2, <3>1, SameTransitive, Zenon DEF TypeInv, TypeOK
  <2> QED BY <2>3, <2>4
<1> QED BY <1>1, <1>2, <1>3, PTL DEF Spec
=============================================================================
