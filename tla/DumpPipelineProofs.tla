------------------------- MODULE DumpPipelineProofs -------------------------
(***************************************************************************)
(* Proofs about DumpPipeline, for any number of writers, any plan and any  *)
(* channel capacity.                                                       *)
(***************************************************************************)
EXTENDS DumpPipeline, TLAPS

USE WritersAssumption, CapAssumption, ChunksAssumption

(* The shape of a task. *)
LEMMA TaskShape ==
  ASSUME NEW t \in Tasks, ~sql
  PROVE  /\ t = <<t[1], t[2], t[3]>>
         /\ t[1] \in Databases
         /\ t[2] \in 0 .. Len(Chunks[t[1]])
         /\ t[3] \in 0 .. ChunksOf(t[1], t[2])
  BY DEF Tasks, DatabaseTasks

LEMMA TaskMember ==
  ASSUME ~sql, NEW d \in Databases, NEW i \in 0 .. Len(Chunks[d]),
         NEW c \in 0 .. ChunksOf(d, i)
  PROVE  <<d, i, c>> \in Tasks
  BY DEF Tasks, DatabaseTasks

LEMMA ChunksOfNat ==
  ASSUME NEW d \in Databases, NEW i \in 0 .. Len(Chunks[d])
  PROVE  ChunksOf(d, i) \in Nat /\ Len(Chunks[d]) \in Nat
  BY DEF ChunksOf

(* Whether a query is dumped, and with it the plan, is settled at the start. *)
LEMMA PlanStable ==
  ASSUME [Next]_vars
  PROVE  sql' = sql /\ Tasks' = Tasks
<1>1. sql' = sql
  BY DEF Next, Main, Writer, vars, mainVars, Prepare, StartWriter, StartWriterFails,
     WritersStarted, NextDatabase, Fetch, SendTask, Advance, DumpSQL, CloseChan, Wait,
     TearDownWriters, Return, TakeTask, StopOnClose, StopOnCtxDone, HandleTask,
     HandleTaskFails, Close, Terminated
<1> QED BY <1>1 DEF Tasks

-----------------------------------------------------------------------------
(* Where the loop of dumpDatabases is, and what the busy writers hold. *)
Position ==
  /\ pc \in {"prepare", "startWriters"} => dbsLeft = Databases
  /\ pc \in {"nextDatabase", "fetch", "send", "advance"} => ~sql
  /\ pc = "dumpSQL" => sql
  /\ pc \in {"fetch", "send", "advance"} => next \in Tasks /\ next[1] \in dbsLeft
  /\ \A w \in Writers : wstate[w] = "busy" => wtask[w] \in Tasks

(* The channel is closed late, and a result of nil comes after the join. *)
Joined ==
  /\ chanClosed => pc \in {"wait", "tearDownWriters", "return", "returned"}
  /\ dumpErr = "nil" =>
       /\ pc \in {"tearDownWriters", "return", "returned"}
       /\ \A w \in Writers : wstate[w] = "done"
       /\ ~wgErr
       /\ pc \in {"return", "returned"} => conns = {}
  /\ metadata => dumpErr = "nil" /\ pc = "returned"

(* Sending keeps the channel a sequence of tasks within its capacity. *)
LEMMA SendKeepsType ==
  ASSUME taskChan \in Seq(Tasks), Len(taskChan) < Cap, NEW t \in Tasks,
         taskChan' = Append(taskChan, t)
  PROVE  taskChan' \in Seq(Tasks) /\ Len(taskChan') <= Cap
<1>1. Len(Append(taskChan, t)) = Len(taskChan) + 1 /\ Append(taskChan, t) \in Seq(Tasks)
  OBVIOUS
<1>2. Len(taskChan) \in Nat
  OBVIOUS
<1> QED BY <1>1, <1>2

(* Type correctness with the position of the producer, which its actions need. *)
TypeInv == TypeOK /\ Position

LEMMA TypeInvInit == Init => TypeInv
<1> SUFFICES ASSUME Init PROVE TypeInv
  OBVIOUS
<1>1. taskChan \in Seq(Tasks) /\ Len(taskChan) <= Cap
  BY DEF Init
<1>2. TypeOK
  BY <1>1, Zenon DEF Init, TypeOK
<1>3. Position
  BY DEF Init, Position
<1> QED BY <1>2, <1>3 DEF TypeInv

LEMMA TypeInvStep == TypeInv /\ [Next]_vars => TypeInv'
<1> SUFFICES ASSUME TypeInv, [Next]_vars PROVE TypeInv'
  OBVIOUS
<1> sql' = sql /\ Tasks' = Tasks
  BY PlanStable
<1> USE DEF TypeInv, TypeOK, Position, mainVars, chanVars, writerVars
<1>1. CASE Prepare
  BY <1>1 DEF Prepare
<1>2. CASE StartWriter
  BY <1>2 DEF StartWriter
<1>3. CASE StartWriterFails
  BY <1>3 DEF StartWriterFails
<1>4. CASE WritersStarted
  BY <1>4 DEF WritersStarted
<1>5. CASE NextDatabase
  <2>1. CASE dbsLeft = {}
    BY <1>5, <2>1 DEF NextDatabase
  <2>2. ASSUME NEW d \in dbsLeft, next' = <<d, 0, 0>>, pc' = "fetch"
        PROVE  next' \in Tasks /\ next'[1] \in dbsLeft
    <3>1. 0 \in 0 .. Len(Chunks[d]) /\ 0 \in 0 .. ChunksOf(d, 0)
      BY ChunksOfNat DEF ChunksOf
    <3>2. ~sql
      BY <1>5 DEF NextDatabase
    <3> QED BY <2>2, <3>1, <3>2, TaskMember
  <2>3. pc = "nextDatabase" /\ ~sql
    BY <1>5 DEF NextDatabase
  <2>4. CASE \E d \in dbsLeft : next' = <<d, 0, 0>> /\ pc' = "fetch"
    <3>1. next' \in Tasks /\ next'[1] \in dbsLeft /\ pc' = "fetch"
      BY <2>2, <2>4, Zenon
    <3> HIDE DEF TypeInv, TypeOK, Position
    <3>2. TypeOK'
      BY <1>5, <3>1 DEF NextDatabase, TypeInv, TypeOK
    <3>3. Position'
      BY <1>5, <2>3, <3>1 DEF NextDatabase, TypeInv, Position
    <3> QED BY <3>2, <3>3 DEF TypeInv
  <2> QED BY <1>5, <2>1, <2>4 DEF NextDatabase
<1>6. CASE Fetch
  BY <1>6 DEF Fetch
<1>7. CASE SendTask
  <2>1. taskChan' \in Seq(Tasks) /\ Len(taskChan') <= Cap
    BY <1>7, SendKeepsType DEF SendTask
  <2> QED BY <1>7, <2>1 DEF SendTask
<1>8. CASE Advance
  <2> DEFINE d == next[1]  i == next[2]  c == next[3]
  <2>1. pc = "advance" /\ ~sql /\ next \in Tasks /\ d \in dbsLeft
    BY <1>8 DEF Advance
  <2>2. d \in Databases /\ i \in 0 .. Len(Chunks[d]) /\ c \in 0 .. ChunksOf(d, i)
    BY <2>1, TaskShape
  <2>3. ChunksOf(d, i) \in Nat /\ Len(Chunks[d]) \in Nat
    BY <2>2, ChunksOfNat
  <2>4. CASE c < ChunksOf(d, i) /\ next' = <<d, i, c + 1>> /\ pc' = "fetch"
             /\ UNCHANGED dbsLeft
    <3>1. c + 1 \in 0 .. ChunksOf(d, i)
      BY <2>2, <2>3, <2>4
    <3>2. next' \in Tasks
      BY <2>1, <2>2, <2>4, <3>1, TaskMember
    <3> QED BY <1>8, <2>1, <2>4, <3>2 DEF Advance
  <2>5. CASE i < Len(Chunks[d]) /\ next' = <<d, i + 1, 0>> /\ pc' = "fetch"
             /\ UNCHANGED dbsLeft
    <3>0. i \in Nat /\ i < Len(Chunks[d])
      BY <2>2, <2>5
    <3> HIDE DEF i, d
    <3>1. i + 1 \in 0 .. Len(Chunks[d])
      BY <2>3, <3>0
    <3>2. 0 \in 0 .. ChunksOf(d, i + 1)
      BY <2>2, <3>1, ChunksOfNat
    <3>3. next' \in Tasks
      BY <2>1, <2>2, <2>5, <3>1, <3>2, TaskMember, Zenon
    <3> QED BY <1>8, <2>1, <2>5, <3>3 DEF Advance
  <2>6. CASE dbsLeft' = dbsLeft \ {d} /\ pc' = "nextDatabase" /\ UNCHANGED next
    BY <1>8, <2>1, <2>6 DEF Advance
  <2> QED BY <1>8, <2>4, <2>5, <2>6 DEF Advance
<1>9. CASE DumpSQL
  <2>1. SQLTask \in Tasks
    BY <1>9 DEF DumpSQL, Tasks
  <2>2. taskChan' \in Seq(Tasks) /\ Len(taskChan') <= Cap
    BY <1>9, <2>1, SendKeepsType DEF DumpSQL
  <2> QED BY <1>9, <2>2 DEF DumpSQL
<1>10. CASE CloseChan
  BY <1>10 DEF CloseChan
<1>11. CASE Wait
  BY <1>11 DEF Wait
<1>12. CASE TearDownWriters
  BY <1>12 DEF TearDownWriters
<1>13. CASE Return
  BY <1>13 DEF Return
<1>14. ASSUME NEW w \in Writers, TakeTask(w) PROVE TypeInv'
  BY <1>14 DEF TakeTask
<1>15. ASSUME NEW w \in Writers, StopOnClose(w) PROVE TypeInv'
  BY <1>15 DEF StopOnClose
<1>16. ASSUME NEW w \in Writers, StopOnCtxDone(w) PROVE TypeInv'
  BY <1>16 DEF StopOnCtxDone
<1>17. ASSUME NEW w \in Writers, HandleTask(w) PROVE TypeInv'
  BY <1>17 DEF HandleTask
<1>18. ASSUME NEW w \in Writers, HandleTaskFails(w) PROVE TypeInv'
  BY <1>18 DEF HandleTaskFails
<1>19. CASE Close
  BY <1>19 DEF Close
<1>20. CASE UNCHANGED vars
  BY <1>20 DEF vars
<1> QED
  BY <1>1, <1>2, <1>3, <1>4, <1>5, <1>6, <1>7, <1>8, <1>9, <1>10, <1>11, <1>12, <1>13,
     <1>14, <1>15, <1>16, <1>17, <1>18, <1>19, <1>20, Zenon DEF Next, Main, Writer, Terminated

(* Every variable keeps its type: in particular the channel never holds more *)
(* than its capacity (taskChan, sendTaskToChan).                             *)
THEOREM TypeCorrect == Spec => []TypeOK
<1>1. TypeInv => TypeOK
  BY DEF TypeInv
<1> QED BY <1>1, TypeInvInit, TypeInvStep, PTL DEF Spec

LEMMA TypeInvAlways == Spec => []TypeInv
  BY TypeInvInit, TypeInvStep, PTL DEF Spec

-----------------------------------------------------------------------------
LEMMA JoinedInit == Init => Joined
  BY DEF Init, Joined

LEMMA JoinedStep == TypeInv /\ Joined /\ [Next]_vars => Joined'
<1> SUFFICES ASSUME TypeInv, Joined, [Next]_vars PROVE Joined'
  OBVIOUS
<1> USE DEF Joined, mainVars, chanVars, writerVars
<1>1. CASE Prepare
  BY <1>1 DEF Prepare
<1>2. CASE StartWriter
  BY <1>2 DEF StartWriter
<1>3. CASE StartWriterFails
  BY <1>3 DEF StartWriterFails
<1>4. CASE WritersStarted
  BY <1>4 DEF WritersStarted
<1>5. CASE NextDatabase
  BY <1>5 DEF NextDatabase
<1>6. CASE Fetch
  BY <1>6 DEF Fetch
<1>7. CASE SendTask
  BY <1>7 DEF SendTask
<1>8. CASE Advance
  BY <1>8 DEF Advance
<1>9. CASE DumpSQL
  BY <1>9 DEF DumpSQL
<1>10. CASE CloseChan
  BY <1>10 DEF CloseChan
<1>11. CASE Wait
  BY <1>11 DEF Wait
<1>12. CASE TearDownWriters
  BY <1>12 DEF TearDownWriters
<1>13. CASE Return
  BY <1>13 DEF Return, TypeInv, TypeOK
<1>14. ASSUME NEW w \in Writers, TakeTask(w) PROVE Joined'
  BY <1>14 DEF TakeTask
<1>15. ASSUME NEW w \in Writers, StopOnClose(w) PROVE Joined'
  BY <1>15 DEF StopOnClose
<1>16. ASSUME NEW w \in Writers, StopOnCtxDone(w) PROVE Joined'
  BY <1>16 DEF StopOnCtxDone
<1>17. ASSUME NEW w \in Writers, HandleTask(w) PROVE Joined'
  BY <1>17 DEF HandleTask
<1>18. ASSUME NEW w \in Writers, HandleTaskFails(w) PROVE Joined'
  BY <1>18 DEF HandleTaskFails
<1>19. CASE Close
  BY <1>19 DEF Close
<1>20. CASE UNCHANGED vars
  BY <1>20 DEF vars
<1> QED
  BY <1>1, <1>2, <1>3, <1>4, <1>5, <1>6, <1>7, <1>8, <1>9, <1>10, <1>11, <1>12, <1>13,
     <1>14, <1>15, <1>16, <1>17, <1>18, <1>19, <1>20, Zenon DEF Next, Main, Writer, Terminated

LEMMA JoinedAlways == Spec => []Joined
  BY JoinedInit, JoinedStep, TypeInvAlways, PTL DEF Spec

(* An error of a writer is never turned into a nil from Dump, for any number *)
(* of writers and any order of their errors (errgroup, dump.go:234-245).      *)
THEOREM ErrorsAreReported == Spec => []WriterErrorReported
<1>1. Joined => WriterErrorReported
  BY DEF Joined, WriterErrorReported
<1> QED BY <1>1, JoinedAlways, PTL

(* The metadata file is the last thing a dump writes: no writer runs, holds a *)
(* connection or has failed when it exists (deferred calls of Dump).           *)
THEOREM MetadataComesLast == Spec => []MetadataIsLast
<1>1. Joined => MetadataIsLast
  BY DEF Joined, MetadataIsLast
<1> QED BY <1>1, JoinedAlways, PTL

-----------------------------------------------------------------------------
(* A task that was sent and is not lost: in the channel, in a writer's hands *)
(* or written.                                                               *)
Accounted(t) ==
  \/ \E i \in 1 .. Len(taskChan) : taskChan[i] = t
  \/ t \in written
  \/ \E w \in Writers : wstate[w] = "busy" /\ wtask[w] = t

(* The order in which the loops of dumpDatabases visit a database's tasks. *)
Before(t, u) ==
  t[1] = u[1] /\ (t[2] < u[2] \/ (t[2] = u[2] /\ t[3] < u[3]))

(* The tasks the producer has behind it. *)
Behind(t) ==
  CASE pc = "nextDatabase" -> t[1] \notin dbsLeft
    [] pc \in {"fetch", "send"} -> t[1] \notin dbsLeft \/ Before(t, next)
    [] pc = "advance" -> t[1] \notin dbsLeft \/ Before(t, next) \/ t = next
    [] pc \in {"closeChan", "wait"} -> TRUE
    [] OTHER -> dumpErr = "nil"

(* As long as no context is done, nothing behind the producer is lost and no *)
(* writer leaves before the channel is closed and drained.                   *)
NothingLost ==
  ~WriterCtxDone =>
    /\ \A t \in Tasks : Behind(t) => Accounted(t)
    /\ \A w \in Writers : wstate[w] = "done" => chanClosed /\ taskChan = <<>>

CompleteInv == TypeInv /\ Joined /\ NothingLost

LEMMA CompleteImplies == CompleteInv => SuccessMeansComplete
<1> SUFFICES ASSUME CompleteInv, dumpErr = "nil", ~cancelled PROVE written = Tasks
  BY DEF SuccessMeansComplete
<1>1. ~WriterCtxDone
  BY DEF CompleteInv, Joined, WriterCtxDone
<1>2. \A w \in Writers : wstate[w] = "done"
  BY DEF CompleteInv, Joined
<1>3. taskChan = <<>>
  BY <1>1, <1>2 DEF CompleteInv, NothingLost
<1>4. \A t \in Tasks : Behind(t)
  BY DEF CompleteInv, Joined, Behind
<1>5. \A t \in Tasks : t \in written
  <2> SUFFICES ASSUME NEW t \in Tasks PROVE t \in written
    OBVIOUS
  <2>1. Accounted(t)
    BY <1>1, <1>4 DEF CompleteInv, NothingLost
  <2>2. ~ \E i \in 1 .. Len(taskChan) : taskChan[i] = t
    BY <1>3
  <2>3. ~ \E w \in Writers : wstate[w] = "busy"
    BY <1>2
  <2> QED BY <2>1, <2>2, <2>3 DEF Accounted
<1> QED BY <1>5, Zenon DEF CompleteInv, TypeInv, TypeOK

LEMMA CompleteInit == Init => NothingLost
  BY DEF Init, NothingLost, Behind

(* A writer that takes a task, or writes it, does not lose any. *)
LEMMA TakeTaskKeeps ==
  ASSUME TypeInv, NEW w \in Writers, TakeTask(w), NEW t \in Tasks, Accounted(t)
  PROVE  Accounted(t)'
<1> USE DEF TakeTask, TypeInv, TypeOK
<1>1. CASE \E i \in 1 .. Len(taskChan) : taskChan[i] = t
  <2>1. PICK i \in 1 .. Len(taskChan) : taskChan[i] = t
    BY <1>1
  <2>2. CASE i = 1
    <3>1. wstate'[w] = "busy" /\ wtask'[w] = t
      BY <2>1, <2>2
    <3> QED BY <3>1 DEF Accounted
  <2>3. CASE i # 1
    <3>1. i - 1 \in 1 .. Len(taskChan') /\ taskChan'[i - 1] = t
      BY <2>1, <2>3
    <3> QED BY <3>1, Zenon DEF Accounted
  <2> QED BY <2>2, <2>3
<1>2. CASE t \in written
  BY <1>2 DEF Accounted
<1>3. CASE \E v \in Writers : wstate[v] = "busy" /\ wtask[v] = t
  <2>1. PICK v \in Writers : wstate[v] = "busy" /\ wtask[v] = t
    BY <1>3
  <2>2. wstate'[v] = "busy" /\ wtask'[v] = t
    BY <2>1
  <2> QED BY <2>2 DEF Accounted
<1> QED BY <1>1, <1>2, <1>3 DEF Accounted

LEMMA HandleTaskKeeps ==
  ASSUME TypeInv, NEW w \in Writers, HandleTask(w), NEW t \in Tasks, Accounted(t)
  PROVE  Accounted(t)'
<1> USE DEF HandleTask, TypeInv, TypeOK, chanVars
<1>1. CASE \E i \in 1 .. Len(taskChan) : taskChan[i] = t
  BY <1>1 DEF Accounted
<1>2. CASE t \in written
  BY <1>2 DEF Accounted
<1>3. CASE \E v \in Writers : wstate[v] = "busy" /\ wtask[v] = t
  <2>1. PICK v \in Writers : wstate[v] = "busy" /\ wtask[v] = t
    BY <1>3
  <2>2. CASE v = w
    BY <2>1, <2>2 DEF Accounted
  <2>3. CASE v # w
    <3>1. wstate'[v] = "busy" /\ wtask'[v] = t
      BY <2>1, <2>3
    <3> QED BY <3>1 DEF Accounted
  <2> QED BY <2>2, <2>3
<1> QED BY <1>1, <1>2, <1>3 DEF Accounted

(* Putting a task into the channel accounts for it and loses no other. *)
LEMMA SendKeeps ==
  ASSUME TypeInv, NEW u \in Tasks, taskChan' = Append(taskChan, u),
         UNCHANGED writerVars, NEW t \in Tasks, Accounted(t) \/ t = u
  PROVE  Accounted(t)'
<1> USE DEF TypeInv, TypeOK, writerVars
<1>0. /\ Len(taskChan) \in Nat
      /\ Len(taskChan') = Len(taskChan) + 1
      /\ taskChan'[Len(taskChan) + 1] = u
      /\ \A i \in 1 .. Len(taskChan) : taskChan'[i] = taskChan[i]
  OBVIOUS
<1>1. CASE t = u
  <2>1. Len(taskChan) + 1 \in 1 .. Len(taskChan')
    BY <1>0
  <2> QED BY <1>0, <1>1, <2>1 DEF Accounted
<1>2. CASE \E i \in 1 .. Len(taskChan) : taskChan[i] = t
  <2>1. PICK i \in 1 .. Len(taskChan) : taskChan[i] = t
    BY <1>2
  <2>2. i \in 1 .. Len(taskChan') /\ taskChan'[i] = t
    BY <1>0, <2>1
  <2> QED BY <2>2 DEF Accounted
<1>3. CASE ~(\E i \in 1 .. Len(taskChan) : taskChan[i] = t) /\ t # u
  BY <1>3 DEF Accounted
<1> QED BY <1>1, <1>2, <1>3

(* Moving to the next task leaves exactly one more task behind. *)
LEMMA AdvanceKeeps ==
  ASSUME TypeInv, Advance, NEW t \in Tasks, Behind(t)'
  PROVE  Behind(t)
<1>0. /\ ~sql /\ pc = "advance" /\ next \in Tasks
      /\ Behind(t) <=> t[1] \notin dbsLeft \/ Before(t, next) \/ t = next
  BY DEF Advance, TypeInv, Position, Behind
<1>1. /\ t = <<t[1], t[2], t[3]>>
      /\ t[1] \in Databases
      /\ t[2] \in 0 .. Len(Chunks[t[1]])
      /\ t[3] \in 0 .. ChunksOf(t[1], t[2])
  BY <1>0, TaskShape
<1>2. /\ next = <<next[1], next[2], next[3]>>
      /\ next[1] \in Databases
      /\ next[2] \in 0 .. Len(Chunks[next[1]])
      /\ next[3] \in 0 .. ChunksOf(next[1], next[2])
  BY <1>0, TaskShape
<1>3. /\ ChunksOf(t[1], t[2]) \in Nat /\ Len(Chunks[t[1]]) \in Nat
      /\ ChunksOf(next[1], next[2]) \in Nat /\ Len(Chunks[next[1]]) \in Nat
  BY <1>1, <1>2, ChunksOfNat
<1>4. t = next <=> t[1] = next[1] /\ t[2] = next[2] /\ t[3] = next[3]
  BY <1>1, <1>2
<1>5. CASE /\ next[3] < ChunksOf(next[1], next[2])
           /\ next' = <<next[1], next[2], next[3] + 1>>
           /\ pc' = "fetch" /\ UNCHANGED dbsLeft
  <2>1. Behind(t)' <=> t[1] \notin dbsLeft \/ Before(t, next')
    BY <1>0, <1>5 DEF Behind, Before
  <2>2. Before(t, next') => Before(t, next) \/ t = next
    <3>1. next'[1] = next[1] /\ next'[2] = next[2] /\ next'[3] = next[3] + 1
      BY <1>5
    <3>2. t[2] \in Int /\ t[3] \in Int /\ next[2] \in Int /\ next[3] \in Int
      BY <1>1, <1>2, <1>3
    <3> QED BY <1>4, <3>1, <3>2 DEF Before
  <2> QED BY <1>0, <2>1, <2>2
<1>6. CASE /\ next[3] = ChunksOf(next[1], next[2])
           /\ next' = <<next[1], next[2] + 1, 0>>
           /\ pc' = "fetch" /\ UNCHANGED dbsLeft
  <2>1. Behind(t)' <=> t[1] \notin dbsLeft \/ Before(t, next')
    BY <1>0, <1>6 DEF Behind, Before
  <2>2. Before(t, next') => Before(t, next) \/ t = next
    <3>1. next'[1] = next[1] /\ next'[2] = next[2] + 1 /\ next'[3] = 0
      BY <1>6
    <3>2. /\ t[2] \in Int /\ t[3] \in Int /\ 0 <= t[3]
          /\ next[2] \in Int /\ next[3] \in Int
      BY <1>1, <1>2, <1>3
    <3>3. t[1] = next[1] /\ t[2] = next[2] => t[3] <= next[3]
      BY <1>1, <1>3, <1>6
    <3> QED BY <1>4, <3>1, <3>2, <3>3 DEF Before
  <2> QED BY <1>0, <2>1, <2>2
<1>7. CASE /\ next[3] = ChunksOf(next[1], next[2])
           /\ next[2] = Len(Chunks[next[1]])
           /\ dbsLeft' = dbsLeft \ {next[1]}
           /\ pc' = "nextDatabase"
  <2>1. Behind(t)' <=> t[1] \notin dbsLeft \ {next[1]}
    BY <1>0, <1>7 DEF Behind
  <2>2. t[1] = next[1] => Before(t, next) \/ t = next
    BY <1>1, <1>2, <1>3, <1>4, <1>7 DEF Before
  <2> QED BY <1>0, <2>1, <2>2
<1> QED BY <1>0, <1>5, <1>6, <1>7 DEF Advance

(* A step that leaves the channel and the writers alone loses nothing if the *)
(* producer leaves no new task behind.                                       *)
LEMMA ProducerKeeps ==
  ASSUME NothingLost, UNCHANGED <<taskChan, wstate, wtask, wgErr, written>>,
         cancelled => cancelled', chanClosed => chanClosed', Tasks' = Tasks,
         ~WriterCtxDone => \A t \in Tasks : Behind(t)' => Behind(t)
  PROVE  NothingLost'
<1>1. WriterCtxDone => WriterCtxDone'
  BY DEF WriterCtxDone
<1>2. \A t \in Tasks : Accounted(t) => Accounted(t)'
  BY DEF Accounted
<1> QED BY <1>1, <1>2 DEF NothingLost

LEMMA NothingLostStep == TypeInv /\ Joined /\ NothingLost /\ [Next]_vars => NothingLost'
<1> SUFFICES ASSUME TypeInv, Joined, NothingLost, [Next]_vars PROVE NothingLost'
  OBVIOUS
<1> sql' = sql /\ Tasks' = Tasks
  BY PlanStable
<1> USE DEF mainVars, chanVars, writerVars
<1>1. CASE Prepare
  <2>1. dumpErr # "nil" /\ \A t \in Tasks : ~Behind(t)'
    BY <1>1 DEF Prepare, Behind, Joined
  <2> QED BY <1>1, <2>1, ProducerKeeps DEF Prepare
<1>2. CASE StartWriter
  <2>1. \A t \in Tasks : ~Behind(t)'
    BY <1>2 DEF StartWriter, Behind, Joined
  <2>2. \A w \in Writers : wstate'[w] = "done" => wstate[w] = "done"
    BY <1>2 DEF StartWriter, TypeInv, TypeOK
  <2> QED BY <1>2, <2>1, <2>2 DEF StartWriter, NothingLost, WriterCtxDone
<1>3. CASE StartWriterFails
  <2>1. \A t \in Tasks : ~Behind(t)'
    BY <1>3 DEF StartWriterFails, Behind
  <2> QED BY <1>3, <2>1, ProducerKeeps DEF StartWriterFails
<1>4. CASE WritersStarted
  <2>1. CASE ~sql /\ pc' = "nextDatabase"
    <3>1. \A t \in Tasks : t[1] \in Databases
      BY <2>1, TaskShape
    <3>2. dbsLeft = Databases
      BY <1>4 DEF WritersStarted, TypeInv, Position
    <3>3. \A t \in Tasks : ~Behind(t)'
      BY <1>4, <2>1, <3>1, <3>2 DEF WritersStarted, Behind
    <3> QED BY <1>4, <3>3, ProducerKeeps DEF WritersStarted
  <2>2. CASE pc' # "nextDatabase"
    <3>1. \A t \in Tasks : ~Behind(t)'
      BY <1>4, <2>2 DEF WritersStarted, Behind, Joined
    <3> QED BY <1>4, <3>1, ProducerKeeps DEF WritersStarted
  <2> QED BY <1>4, <2>1, <2>2 DEF WritersStarted
<1>5. CASE NextDatabase
  <2>1. CASE dbsLeft = {} /\ pc' = "closeChan"
    <3>1. \A t \in Tasks : Behind(t)
      BY <1>5, <2>1 DEF NextDatabase, Behind
    <3> QED BY <1>5, <3>1, ProducerKeeps DEF NextDatabase
  <2>2. CASE \E d \in dbsLeft : next' = <<d, 0, 0>> /\ pc' = "fetch"
    <3>1. PICK d \in dbsLeft : next' = <<d, 0, 0>> /\ pc' = "fetch"
      BY <2>2
    <3>2. \A t \in Tasks : ~Before(t, next')
      <4> SUFFICES ASSUME NEW t \in Tasks, Before(t, next') PROVE FALSE
        OBVIOUS
      <4>1. t[1] \in Databases /\ t[2] \in 0 .. Len(Chunks[t[1]])
            /\ t[3] \in 0 .. ChunksOf(t[1], t[2])
        BY <1>5, TaskShape DEF NextDatabase, TypeInv, Position
      <4>2. ChunksOf(t[1], t[2]) \in Nat /\ Len(Chunks[t[1]]) \in Nat
        BY <4>1, ChunksOfNat
      <4> QED BY <3>1, <4>1, <4>2 DEF Before
    <3>3. \A t \in Tasks : Behind(t)' => Behind(t)
      BY <1>5, <3>1, <3>2 DEF NextDatabase, Behind, Before
    <3> QED BY <1>5, <3>3, ProducerKeeps DEF NextDatabase
  <2> QED BY <1>5, <2>1, <2>2 DEF NextDatabase
<1>6. CASE Fetch
  <2>1. dumpErr # "nil"
    BY <1>6 DEF Fetch, Joined
  <2>2. ~WriterCtxDone => \A t \in Tasks : Behind(t)' => Behind(t)
    BY <1>6, <2>1 DEF Fetch, Behind, Before
  <2> QED BY <1>6, <2>2, ProducerKeeps DEF Fetch
<1>7. CASE SendTask
  <2>1. CASE WriterCtxDone /\ UNCHANGED taskChan
    BY <1>7, <2>1, ProducerKeeps DEF SendTask
  <2>2. CASE taskChan' = Append(taskChan, next) /\ pc' = "advance"
    <3>1. next \in Tasks
      BY <1>7 DEF SendTask, TypeInv, Position
    <3>2. \A t \in Tasks : Behind(t)' => Behind(t) \/ t = next
      BY <1>7, <2>2 DEF SendTask, Behind, Before
    <3>3. ~WriterCtxDone => \A t \in Tasks : Behind(t)' => Accounted(t)'
      BY <1>7, <2>2, <3>1, <3>2, SendKeeps DEF SendTask, NothingLost
    <3>4. ~chanClosed
      BY <1>7 DEF SendTask, Joined
    <3>5. ~WriterCtxDone => \A w \in Writers : wstate[w] # "done"
      BY <3>4 DEF NothingLost
    <3> QED BY <1>7, <3>3, <3>5 DEF SendTask, NothingLost, WriterCtxDone
  <2> QED BY <1>7, <2>1, <2>2 DEF SendTask
<1>8. CASE Advance
  <2>1. \A t \in Tasks : Behind(t)' => Behind(t)
    BY <1>8, AdvanceKeeps
  <2> QED BY <1>8, <2>1, ProducerKeeps DEF Advance
<1>9. CASE DumpSQL
  <2>1. CASE WriterCtxDone /\ UNCHANGED taskChan
    BY <1>9, <2>1, ProducerKeeps DEF DumpSQL
  <2>2. CASE taskChan' = Append(taskChan, SQLTask)
    <3>1. SQLTask \in Tasks /\ \A t \in Tasks : t = SQLTask
      BY <1>9 DEF DumpSQL, TypeInv, Position, Tasks
    <3>2. \A t \in Tasks : Accounted(t)'
      BY <1>9, <2>2, <3>1, SendKeeps DEF DumpSQL
    <3>3. ~WriterCtxDone => \A w \in Writers : wstate[w] # "done"
      BY <1>9 DEF DumpSQL, Joined, NothingLost
    <3> QED BY <1>9, <3>2, <3>3 DEF DumpSQL, NothingLost, WriterCtxDone
  <2> QED BY <1>9, <2>1, <2>2 DEF DumpSQL
<1>10. CASE CloseChan
  <2>1. \A t \in Tasks : Behind(t)' => Behind(t)
    BY <1>10 DEF CloseChan, Behind
  <2> QED BY <1>10, <2>1, ProducerKeeps DEF CloseChan
<1>11. CASE Wait
  <2>1. \A t \in Tasks : Behind(t)' => Behind(t)
    BY <1>11 DEF Wait, Behind
  <2> QED BY <1>11, <2>1, ProducerKeeps DEF Wait
<1>12. CASE TearDownWriters
  <2>1. \A t \in Tasks : Behind(t)' => Behind(t)
    BY <1>12 DEF TearDownWriters, Behind
  <2> QED BY <1>12, <2>1, ProducerKeeps DEF TearDownWriters
<1>13. CASE Return
  <2>1. \A t \in Tasks : Behind(t)' => Behind(t)
    BY <1>13 DEF Return, Behind
  <2> QED BY <1>13, <2>1, ProducerKeeps DEF Return
<1>14. ASSUME NEW w \in Writers, TakeTask(w) PROVE NothingLost'
  <2>1. \A t \in Tasks : Behind(t)' => Behind(t)
    BY <1>14 DEF TakeTask, Behind, Before
  <2>2. \A t \in Tasks : Accounted(t) => Accounted(t)'
    BY <1>14, TakeTaskKeeps
  <2>3. ~WriterCtxDone => \A v \in Writers : wstate[v] # "done"
    BY <1>14 DEF TakeTask, NothingLost
  <2>4. ~WriterCtxDone => \A v \in Writers : wstate'[v] # "done"
    BY <1>14, <2>3 DEF TakeTask, TypeInv, TypeOK
  <2> QED BY <1>14, <2>1, <2>2, <2>4 DEF TakeTask, NothingLost, WriterCtxDone
<1>15. ASSUME NEW w \in Writers, StopOnClose(w) PROVE NothingLost'
  <2>1. \A t \in Tasks : Behind(t)' => Behind(t)
    BY <1>15 DEF StopOnClose, Behind, Before
  <2>2. \A v \in Writers : wstate[v] = "busy" => wstate'[v] = "busy"
    BY <1>15 DEF StopOnClose, TypeInv, TypeOK
  <2>3. \A t \in Tasks : Accounted(t) => Accounted(t)'
    BY <1>15, <2>2 DEF StopOnClose, Accounted
  <2> QED BY <1>15, <2>1, <2>3 DEF StopOnClose, NothingLost, WriterCtxDone
<1>16. ASSUME NEW w \in Writers, StopOnCtxDone(w) PROVE NothingLost'
  BY <1>16 DEF StopOnCtxDone, NothingLost, WriterCtxDone
<1>17. ASSUME NEW w \in Writers, HandleTask(w) PROVE NothingLost'
  <2>1. \A t \in Tasks : Behind(t)' => Behind(t)
    BY <1>17 DEF HandleTask, Behind, Before
  <2>2. \A t \in Tasks : Accounted(t) => Accounted(t)'
    BY <1>17, HandleTaskKeeps
  <2>3. \A v \in Writers : wstate'[v] = "done" => wstate[v] = "done"
    BY <1>17 DEF HandleTask, TypeInv, TypeOK
  <2> QED BY <1>17, <2>1, <2>2, <2>3 DEF HandleTask, NothingLost, WriterCtxDone
<1>18. ASSUME NEW w \in Writers, HandleTaskFails(w) PROVE NothingLost'
  BY <1>18 DEF HandleTaskFails, NothingLost, WriterCtxDone
<1>19. CASE Close
  BY <1>19 DEF Close, NothingLost, WriterCtxDone
<1>20. CASE UNCHANGED vars
  <2>1. \A t \in Tasks : Behind(t)' => Behind(t)
    BY <1>20 DEF vars, Behind, Before
  <2> QED BY <1>20, <2>1, ProducerKeeps DEF vars
<1> QED
  BY <1>1, <1>2, <1>3, <1>4, <1>5, <1>6, <1>7, <1>8, <1>9, <1>10, <1>11, <1>12, <1>13,
     <1>14, <1>15, <1>16, <1>17, <1>18, <1>19, <1>20 DEF Next, Main, Writer, Terminated

(* A dump that returns nil and was not closed under way has written every task *)
(* of its plan (Dump, dumpDatabases, sendTaskToChan, Writer.run).              *)
THEOREM SuccessIsComplete == Spec => []SuccessMeansComplete
<1>1. Init => CompleteInv
  BY TypeInvInit, JoinedInit, CompleteInit DEF CompleteInv
<1>2. CompleteInv /\ [Next]_vars => CompleteInv'
  BY TypeInvStep, JoinedStep, NothingLostStep DEF CompleteInv
<1> QED BY <1>1, <1>2, CompleteImplies, PTL DEF Spec
-----------------------------------------------------------------------------
(* The tasks the producer may have sent: those behind it while it runs, any  *)
(* task once it has left its loop.                                           *)
Sent(t) ==
  CASE pc \in {"prepare", "startWriters", "dumpSQL"} -> FALSE
    [] pc = "nextDatabase" -> t[1] \notin dbsLeft
    [] pc \in {"fetch", "send"} -> t[1] \notin dbsLeft \/ Before(t, next)
    [] pc = "advance" -> t[1] \notin dbsLeft \/ Before(t, next) \/ t = next
    [] OTHER -> TRUE

(* No task is in the channel, in a writer's hands or written before it is sent. *)
OnlySent == \A t \in Tasks : Accounted(t) => Sent(t)

HandledInv == TypeInv /\ OnlySent /\ TaskHandledOnce

LEMMA HandledInit == Init => OnlySent /\ TaskHandledOnce
<1> SUFFICES ASSUME Init PROVE OnlySent /\ TaskHandledOnce
  OBVIOUS
<1>1. taskChan = <<>> /\ written = {} /\ \A w \in Writers : wstate[w] = "none"
  BY DEF Init
<1>2. Len(taskChan) = 0
  BY <1>1
<1>3. \A t \in Tasks : ~Accounted(t)
  BY <1>1, <1>2 DEF Accounted
<1> QED BY <1>1, <1>2, <1>3 DEF OnlySent, TaskHandledOnce, TaskRange

(* A task of the producer is new: nothing accounts for it before it is sent. *)
LEMMA NextIsNew ==
  ASSUME TypeInv, OnlySent, pc = "send"
  PROVE  next \in Tasks /\ ~Accounted(next)
<1>1. next \in Tasks /\ next[1] \in dbsLeft /\ ~sql
  BY DEF TypeInv, Position
<1>2. next[2] \in Int /\ next[3] \in Int
  BY <1>1, TaskShape, ChunksOfNat
<1>3. ~Before(next, next)
  BY <1>2 DEF Before
<1>4. ~Sent(next)
  BY <1>1, <1>3 DEF Sent
<1> QED BY <1>1, <1>4 DEF OnlySent

(* A step of the producer that sends nothing keeps what it has sent. *)
LEMMA AdvanceSent ==
  ASSUME TypeInv, Advance, NEW t \in Tasks, Sent(t)
  PROVE  Sent(t)'
<1>0. /\ ~sql /\ pc = "advance" /\ next \in Tasks
      /\ t[1] \notin dbsLeft \/ Before(t, next) \/ t = next
  BY DEF Advance, TypeInv, Position, Sent
<1>1. t[2] \in Int /\ t[3] \in Int /\ next[2] \in Int /\ next[3] \in Int
  BY <1>0, TaskShape, ChunksOfNat
<1>2. CASE /\ next' = <<next[1], next[2], next[3] + 1>>
           /\ pc' = "fetch" /\ UNCHANGED dbsLeft
  <2>1. next'[1] = next[1] /\ next'[2] = next[2] /\ next'[3] = next[3] + 1
    BY <1>2
  <2>2. Before(t, next) \/ t = next => Before(t, next')
    BY <1>1, <2>1 DEF Before
  <2>3. Sent(t)' <=> t[1] \notin dbsLeft \/ Before(t, next')
    BY <1>2 DEF Sent, Before
  <2> QED BY <1>0, <2>2, <2>3
<1>3. CASE /\ next' = <<next[1], next[2] + 1, 0>>
           /\ pc' = "fetch" /\ UNCHANGED dbsLeft
  <2>1. next'[1] = next[1] /\ next'[2] = next[2] + 1
    BY <1>3
  <2>2. Before(t, next) \/ t = next => Before(t, next')
    BY <1>1, <2>1 DEF Before
  <2>3. Sent(t)' <=> t[1] \notin dbsLeft \/ Before(t, next')
    BY <1>3 DEF Sent, Before
  <2> QED BY <1>0, <2>2, <2>3
<1>4. CASE dbsLeft' = dbsLeft \ {next[1]} /\ pc' = "nextDatabase"
  <2>1. Before(t, next) \/ t = next => t[1] = next[1]
    BY DEF Before
  <2>2. Sent(t)' <=> t[1] \notin dbsLeft'
    BY <1>4 DEF Sent
  <2> QED BY <1>0, <1>4, <2>1, <2>2
<1> QED BY <1>2, <1>3, <1>4 DEF Advance

(* A step that leaves the channel and the writers' tasks alone. *)
LEMMA NobodyHandles ==
  ASSUME OnlySent, TaskHandledOnce, Tasks' = Tasks,
         UNCHANGED <<taskChan, wtask, written>>,
         \A w \in Writers : wstate'[w] = "busy" => wstate[w] = "busy",
         \A t \in Tasks : Sent(t) => Sent(t)'
  PROVE  OnlySent' /\ TaskHandledOnce'
<1>1. \A t \in Tasks : Accounted(t)' => Accounted(t)
  BY DEF Accounted
<1>2. OnlySent'
  BY <1>1 DEF OnlySent
<1>3. TaskRange' = TaskRange
  BY DEF TaskRange
<1> QED BY <1>2, <1>3 DEF TaskHandledOnce

(* Sending a task that is accounted for nowhere. *)
LEMMA SendHandledOnce ==
  ASSUME TypeInv, TaskHandledOnce, NEW u \in Tasks, ~Accounted(u),
         taskChan' = Append(taskChan, u), UNCHANGED <<wstate, wtask, written>>
  PROVE  /\ TaskHandledOnce'
         /\ \A t \in Tasks : Accounted(t)' => Accounted(t) \/ t = u
<1>0. /\ Len(taskChan) \in Nat
      /\ Len(taskChan') = Len(taskChan) + 1
      /\ taskChan'[Len(taskChan) + 1] = u
      /\ \A i \in 1 .. Len(taskChan) : taskChan'[i] = taskChan[i]
  BY DEF TypeInv, TypeOK
<1>1. \A i \in 1 .. Len(taskChan) : taskChan[i] # u
  BY DEF Accounted
<1>2. u \notin written /\ \A w \in Writers : wstate[w] = "busy" => wtask[w] # u
  BY DEF Accounted
<1>3. TaskRange' = TaskRange \cup {u}
  <2>1. \A i \in 1 .. Len(taskChan') : taskChan'[i] \in TaskRange \cup {u}
    BY <1>0 DEF TaskRange
  <2>2. \A i \in 1 .. Len(taskChan) : taskChan[i] \in TaskRange'
    BY <1>0 DEF TaskRange
  <2>3. u \in TaskRange'
    BY <1>0 DEF TaskRange
  <2> QED BY <2>1, <2>2, <2>3 DEF TaskRange
<1>4. \A i, j \in 1 .. Len(taskChan') : taskChan'[i] = taskChan'[j] => i = j
  BY <1>0, <1>1 DEF TaskHandledOnce
<1>5. \A w \in Writers : wstate'[w] = "busy" => wtask'[w] \notin TaskRange' \cup written'
  BY <1>2, <1>3 DEF TaskHandledOnce
<1>6. TaskRange' \cap written' = {}
  BY <1>2, <1>3 DEF TaskHandledOnce
<1>7. TaskHandledOnce'
  BY <1>4, <1>5, <1>6 DEF TaskHandledOnce
<1>8. \A t \in Tasks : Accounted(t)' => Accounted(t) \/ t = u
  BY <1>0 DEF Accounted
<1> QED BY <1>7, <1>8

(* Taking a task moves the head of the channel into a writer's hands. *)
LEMMA TakeHandledOnce ==
  ASSUME TypeInv, OnlySent, TaskHandledOnce, NEW w \in Writers, TakeTask(w)
  PROVE  TaskHandledOnce' /\ \A t \in Tasks : Accounted(t)' => Accounted(t)
<1> DEFINE h == taskChan[1]
<1>0. /\ Len(taskChan) \in Nat /\ 1 \in 1 .. Len(taskChan)
      /\ Len(taskChan') = Len(taskChan) - 1
      /\ \A i \in 1 .. Len(taskChan') :
            i + 1 \in 1 .. Len(taskChan) /\ taskChan'[i] = taskChan[i + 1]
  BY DEF TakeTask, TypeInv, TypeOK
<1>1. /\ wstate'[w] = "busy" /\ wtask'[w] = h /\ wstate[w] = "idle"
      /\ \A v \in Writers \ {w} : wstate'[v] = wstate[v] /\ wtask'[v] = wtask[v]
      /\ written' = written
  BY DEF TakeTask, TypeInv, TypeOK
<1>2. h \in TaskRange /\ h \notin TaskRange'
  <2>1. h \in TaskRange
    BY <1>0 DEF TaskRange
  <2>2. ASSUME NEW i \in 1 .. Len(taskChan') PROVE taskChan'[i] # taskChan[1]
    <3>1. i + 1 \in 1 .. Len(taskChan) /\ i + 1 # 1 /\ taskChan'[i] = taskChan[i + 1]
      BY <1>0, <2>2
    <3> QED BY <1>0, <3>1 DEF TaskHandledOnce
  <2> QED BY <2>1, <2>2 DEF TaskRange
<1>3. TaskRange' \subseteq TaskRange
  BY <1>0 DEF TaskRange
<1>4. \A i, j \in 1 .. Len(taskChan') : taskChan'[i] = taskChan'[j] => i = j
  BY <1>0 DEF TaskHandledOnce
<1>5. h \notin written /\ \A v \in Writers : wstate[v] = "busy" => wtask[v] # h
  BY <1>2 DEF TaskHandledOnce
<1>6. ASSUME NEW v \in Writers, wstate'[v] = "busy"
      PROVE  /\ wtask'[v] \notin TaskRange' \cup written'
             /\ \A x \in Writers \ {v} : wstate'[x] = "busy" => wtask'[x] # wtask'[v]
  <2>1. CASE v = w
    BY <1>1, <1>2, <1>5, <2>1
  <2>2. CASE v # w
    <3>1. wstate[v] = "busy" /\ wtask'[v] = wtask[v]
      BY <1>1, <1>6, <2>2
    <3>2. wtask[v] \notin TaskRange \cup written
      BY <3>1 DEF TaskHandledOnce
    <3>3. \A x \in Writers \ {v} : wstate[x] = "busy" => wtask[x] # wtask[v]
      BY <3>1 DEF TaskHandledOnce
    <3>4. \A x \in Writers \ {v} : wstate'[x] = "busy" => wtask'[x] # wtask[v]
      BY <1>1, <1>5, <3>1, <3>3
    <3> QED BY <1>1, <1>3, <3>1, <3>2, <3>4
  <2> QED BY <2>1, <2>2
<1>7. TaskHandledOnce'
  BY <1>1, <1>3, <1>4, <1>6 DEF TaskHandledOnce
<1>8. ASSUME NEW t \in Tasks, Accounted(t)' PROVE Accounted(t)
  <2>1. CASE \E i \in 1 .. Len(taskChan') : taskChan'[i] = t
    BY <1>0, <2>1, Zenon DEF Accounted
  <2>2. CASE t \in written'
    BY <1>1, <2>2 DEF Accounted
  <2>3. CASE \E v \in Writers : wstate'[v] = "busy" /\ wtask'[v] = t
    BY <1>0, <1>1, <2>3 DEF Accounted
  <2> QED BY <1>8, <2>1, <2>2, <2>3, Zenon DEF Accounted
<1> QED BY <1>7, <1>8

(* Writing a task, or failing to, takes it out of the writer's hands. *)
LEMMA WriteHandledOnce ==
  ASSUME TypeInv, TaskHandledOnce, NEW w \in Writers, HandleTask(w)
  PROVE  TaskHandledOnce' /\ \A t \in Tasks : Accounted(t)' => Accounted(t)
<1>1. /\ wstate[w] = "busy" /\ wstate'[w] = "idle"
      /\ \A v \in Writers \ {w} : wstate'[v] = wstate[v] /\ wtask'[v] = wtask[v]
      /\ written' = written \cup {wtask[w]}
      /\ taskChan' = taskChan
  BY DEF HandleTask, TypeInv, TypeOK, chanVars
<1>2. TaskRange' = TaskRange
  BY <1>1 DEF TaskRange
<1>3. /\ wtask[w] \notin TaskRange
      /\ \A v \in Writers \ {w} : wstate[v] = "busy" => wtask[v] # wtask[w]
  BY <1>1 DEF TaskHandledOnce
<1>4. ASSUME NEW v \in Writers, wstate'[v] = "busy"
      PROVE  /\ wtask'[v] \notin TaskRange' \cup written'
             /\ \A x \in Writers \ {v} : wstate'[x] = "busy" => wtask'[x] # wtask'[v]
  <2>1. v # w /\ wstate[v] = "busy" /\ wtask'[v] = wtask[v]
    BY <1>1, <1>4
  <2>2. wtask[v] \notin TaskRange \cup written
    BY <2>1, Zenon DEF TaskHandledOnce
  <2>3. \A x \in Writers \ {v} : wstate'[x] = "busy" => wtask'[x] # wtask[v]
    BY <1>1, <2>1 DEF TaskHandledOnce
  <2> QED BY <1>1, <1>2, <1>3, <2>1, <2>2, <2>3
<1>5. TaskHandledOnce'
  BY <1>1, <1>2, <1>3, <1>4, ZenonT(30) DEF TaskHandledOnce
<1>6. \A t \in Tasks : Accounted(t)' => Accounted(t)
  BY <1>1, Zenon DEF Accounted
<1> QED BY <1>5, <1>6

LEMMA HandledStep ==
  TypeInv /\ OnlySent /\ TaskHandledOnce /\ [Next]_vars => OnlySent' /\ TaskHandledOnce'
<1> SUFFICES ASSUME TypeInv, OnlySent, TaskHandledOnce, [Next]_vars
             PROVE  OnlySent' /\ TaskHandledOnce'
  OBVIOUS
<1> sql' = sql /\ Tasks' = Tasks
  BY PlanStable
<1> USE DEF mainVars, chanVars, writerVars
<1>1. CASE Prepare
  BY <1>1, NobodyHandles DEF Prepare, Sent
<1>2. CASE StartWriter
  <2>1. \A w \in Writers : wstate'[w] = "busy" => wstate[w] = "busy"
    BY <1>2 DEF StartWriter, TypeInv, TypeOK
  <2> QED BY <1>2, <2>1, NobodyHandles DEF StartWriter, Sent
<1>3. CASE StartWriterFails
  BY <1>3, NobodyHandles DEF StartWriterFails, Sent
<1>4. CASE WritersStarted
  BY <1>4, NobodyHandles DEF WritersStarted, Sent
<1>5. CASE NextDatabase
  BY <1>5, NobodyHandles DEF NextDatabase, Sent
<1>6. CASE Fetch
  <2>1. \A t \in Tasks : Sent(t) => Sent(t)'
    BY <1>6 DEF Fetch, Sent, Before
  <2> QED BY <1>6, <2>1, NobodyHandles DEF Fetch
<1>7. CASE SendTask
  <2>1. CASE WriterCtxDone /\ pc' = "closeChan" /\ UNCHANGED taskChan
    BY <1>7, <2>1, NobodyHandles DEF SendTask, Sent
  <2>2. CASE taskChan' = Append(taskChan, next) /\ pc' = "advance"
    <3>1. next \in Tasks /\ ~Accounted(next)
      BY <1>7, NextIsNew DEF SendTask
    <3>2. /\ TaskHandledOnce'
          /\ \A t \in Tasks : Accounted(t)' => Accounted(t) \/ t = next
      BY <1>7, <2>2, <3>1, SendHandledOnce DEF SendTask
    <3>3. \A t \in Tasks : Sent(t) \/ t = next => Sent(t)'
      BY <1>7, <2>2 DEF SendTask, Sent, Before
    <3> QED BY <3>2, <3>3 DEF OnlySent
  <2> QED BY <1>7, <2>1, <2>2 DEF SendTask
<1>8. CASE Advance
  <2>1. \A t \in Tasks : Sent(t) => Sent(t)'
    BY <1>8, AdvanceSent
  <2> QED BY <1>8, <2>1, NobodyHandles DEF Advance
<1>9. CASE DumpSQL
  <2>1. CASE UNCHANGED taskChan
    BY <1>9, <2>1, NobodyHandles DEF DumpSQL, Sent
  <2>2. CASE taskChan' = Append(taskChan, SQLTask)
    <3>1. SQLTask \in Tasks /\ ~Accounted(SQLTask)
      BY <1>9 DEF DumpSQL, TypeInv, Position, Tasks, OnlySent, Sent
    <3>2. TaskHandledOnce'
      BY <1>9, <2>2, <3>1, SendHandledOnce DEF DumpSQL
    <3>3. \A t \in Tasks : Sent(t)'
      BY <1>9 DEF DumpSQL, Sent
    <3> QED BY <3>2, <3>3 DEF OnlySent
  <2> QED BY <1>9, <2>1, <2>2 DEF DumpSQL
<1>10. CASE CloseChan
  BY <1>10, NobodyHandles DEF CloseChan, Sent
<1>11. CASE Wait
  BY <1>11, NobodyHandles DEF Wait, Sent
<1>12. CASE TearDownWriters
  BY <1>12, NobodyHandles DEF TearDownWriters, Sent
<1>13. CASE Return
  BY <1>13, NobodyHandles DEF Return, Sent
<1>14. ASSUME NEW w \in Writers, TakeTask(w) PROVE OnlySent' /\ TaskHandledOnce'
  <2>1. \A t \in Tasks : Sent(t) => Sent(t)'
    BY <1>14 DEF TakeTask, Sent, Before
  <2> QED BY <1>14, <2>1, TakeHandledOnce DEF OnlySent
<1>15. ASSUME NEW w \in Writers, StopOnClose(w) PROVE OnlySent' /\ TaskHandledOnce'
  <2>1. \A t \in Tasks : Sent(t) => Sent(t)'
    BY <1>15 DEF StopOnClose, Sent, Before
  <2>2. \A v \in Writers : wstate'[v] = "busy" => wstate[v] = "busy"
    BY <1>15 DEF StopOnClose, TypeInv, TypeOK
  <2> QED BY <1>15, <2>1, <2>2, NobodyHandles DEF StopOnClose
<1>16. ASSUME NEW w \in Writers, StopOnCtxDone(w) PROVE OnlySent' /\ TaskHandledOnce'
  <2>1. \A t \in Tasks : Sent(t) => Sent(t)'
    BY <1>16 DEF StopOnCtxDone, Sent, Before
  <2>2. \A v \in Writers : wstate'[v] = "busy" => wstate[v] = "busy"
    BY <1>16 DEF StopOnCtxDone, TypeInv, TypeOK
  <2> QED BY <1>16, <2>1, <2>2, NobodyHandles DEF StopOnCtxDone
<1>17. ASSUME NEW w \in Writers, HandleTask(w) PROVE OnlySent' /\ TaskHandledOnce'
  <2>1. \A t \in Tasks : Sent(t) => Sent(t)'
    BY <1>17 DEF HandleTask, Sent, Before
  <2> QED BY <1>17, <2>1, WriteHandledOnce DEF OnlySent
<1>18. ASSUME NEW w \in Writers, HandleTaskFails(w) PROVE OnlySent' /\ TaskHandledOnce'
  <2>1. \A t \in Tasks : Sent(t) => Sent(t)'
    BY <1>18 DEF HandleTaskFails, Sent, Before
  <2>2. \A v \in Writers : wstate'[v] = "busy" => wstate[v] = "busy" /\ wtask'[v] = wtask[v]
    BY <1>18 DEF HandleTaskFails, TypeInv, TypeOK
  <2>3. \A t \in Tasks : Accounted(t)' => Accounted(t)
    BY <1>18, <2>2 DEF HandleTaskFails, Accounted
  <2>4. TaskRange' = TaskRange /\ written' = written /\ taskChan' = taskChan
    BY <1>18, Zenon DEF HandleTaskFails, TaskRange
  <2>5. TaskHandledOnce'
    BY <2>2, <2>4 DEF TaskHandledOnce
  <2> QED BY <2>1, <2>3, <2>5 DEF OnlySent
<1>19. CASE Close
  <2>1. \A t \in Tasks : Sent(t) => Sent(t)'
    BY <1>19 DEF Close, Sent, Before
  <2> QED BY <1>19, <2>1, NobodyHandles DEF Close
<1>20. CASE UNCHANGED vars
  <2>1. \A t \in Tasks : Sent(t) => Sent(t)'
    BY <1>20 DEF vars, Sent, Before
  <2> QED BY <1>20, <2>1, NobodyHandles DEF vars
<1> QED
  BY <1>1, <1>2, <1>3, <1>4, <1>5, <1>6, <1>7, <1>8, <1>9, <1>10, <1>11, <1>12, <1>13,
     <1>14, <1>15, <1>16, <1>17, <1>18, <1>19, <1>20 DEF Next, Main, Writer, Terminated

(* No two writers are ever given the same task, and none a task whose files are *)
(* written: two of them would create the same file (sendTaskToChan, Writer.run). *)
THEOREM NoTaskTwice == Spec => []TaskHandledOnce
<1>1. Init => HandledInv
  BY TypeInvInit, HandledInit DEF HandledInv
<1>2. HandledInv /\ [Next]_vars => HandledInv'
  BY TypeInvStep, HandledStep DEF HandledInv
<1>3. HandledInv => TaskHandledOnce
  BY DEF HandledInv
<1> QED BY <1>1, <1>2, <1>3, PTL DEF Spec
-----------------------------------------------------------------------------
(* Nobody waits for ever: when the goroutine of Dump has to wait, for room in the *)
(* channel or for the writers, one of these can go on.                            *)

(* The guards of Main: what it waits for at each of its steps. *)
MainReady ==
  /\ pc # "returned"
  /\ pc \in {"send", "dumpSQL"} => WriterCtxDone \/ Len(taskChan) < Cap
  /\ pc = "advance" => /\ next[3] <= ChunksOf(next[1], next[2])
                       /\ next[2] <= Len(Chunks[next[1]])
  /\ pc = "wait" => \A w \in Writers : wstate[w] = "done"
  /\ pc = "return" => dumpErr # "none"

(* The guards of Writer(w). *)
WriterReady(w) ==
  \/ wstate[w] = "busy"
  \/ wstate[w] = "idle" /\ (taskChan # <<>> \/ chanClosed \/ WriterCtxDone)

NobodyStuck == pc = "returned" \/ MainReady \/ \E w \in Writers : WriterReady(w)

(* A writer leaves its loop only when the channel is closed or the context is done, *)
(* and the producer starts with all of them running.                                *)
WritersAlive ==
  /\ pc \in {"fetch", "send", "advance", "nextDatabase", "dumpSQL", "closeChan", "wait"} =>
       \A w \in Writers : wstate[w] # "none"
  /\ \A w \in Writers : wstate[w] = "done" => chanClosed \/ WriterCtxDone
  /\ pc = "wait" => chanClosed
  /\ pc \in {"tearDownWriters", "return"} => dumpErr # "none"

LEMMA AliveInit == Init => WritersAlive
  BY DEF Init, WritersAlive

LEMMA AliveStep == TypeInv /\ WritersAlive /\ [Next]_vars => WritersAlive'
<1> SUFFICES ASSUME TypeInv, WritersAlive, [Next]_vars PROVE WritersAlive'
  OBVIOUS
<1>0. wstate \in [Writers -> {"none", "idle", "busy", "done"}]
  BY DEF TypeInv, TypeOK
<1> USE DEF WritersAlive, WriterCtxDone, mainVars, chanVars, writerVars
<1>1. CASE Prepare
  BY <1>1 DEF Prepare
<1>2. CASE StartWriter
  BY <1>0, <1>2 DEF StartWriter
<1>3. CASE StartWriterFails
  BY <1>3 DEF StartWriterFails
<1>4. CASE WritersStarted
  BY <1>4 DEF WritersStarted
<1>5. CASE NextDatabase
  BY <1>5 DEF NextDatabase
<1>6. CASE Fetch
  BY <1>6 DEF Fetch
<1>7. CASE SendTask
  BY <1>7 DEF SendTask
<1>8. CASE Advance
  BY <1>8 DEF Advance
<1>9. CASE DumpSQL
  BY <1>9 DEF DumpSQL
<1>10. CASE CloseChan
  BY <1>10 DEF CloseChan
<1>11. CASE Wait
  BY <1>11 DEF Wait
<1>12. CASE TearDownWriters
  BY <1>12 DEF TearDownWriters
<1>13. CASE Return
  BY <1>13 DEF Return
<1>14. ASSUME NEW w \in Writers, TakeTask(w) PROVE WritersAlive'
  BY <1>0, <1>14 DEF TakeTask
<1>15. ASSUME NEW w \in Writers, StopOnClose(w) PROVE WritersAlive'
  BY <1>0, <1>15 DEF StopOnClose
<1>16. ASSUME NEW w \in Writers, StopOnCtxDone(w) PROVE WritersAlive'
  BY <1>0, <1>16 DEF StopOnCtxDone
<1>17. ASSUME NEW w \in Writers, HandleTask(w) PROVE WritersAlive'
  BY <1>0, <1>17 DEF HandleTask
<1>18. ASSUME NEW w \in Writers, HandleTaskFails(w) PROVE WritersAlive'
  BY <1>0, <1>18 DEF HandleTaskFails
<1>19. CASE Close
  BY <1>19 DEF Close
<1>20. CASE UNCHANGED vars
  BY <1>20 DEF vars
<1> QED
  BY <1>1, <1>2, <1>3, <1>4, <1>5, <1>6, <1>7, <1>8, <1>9, <1>10, <1>11, <1>12, <1>13,
     <1>14, <1>15, <1>16, <1>17, <1>18, <1>19, <1>20, Zenon DEF Next, Main, Writer, Terminated

LEMMA AliveImplies == TypeInv /\ Joined /\ WritersAlive => NobodyStuck
<1> SUFFICES ASSUME TypeInv, Joined, WritersAlive, pc # "returned",
                    \A w \in Writers : ~WriterReady(w)
             PROVE  MainReady
  BY DEF NobodyStuck
<1>0. /\ wstate \in [Writers -> {"none", "idle", "busy", "done"}]
      /\ taskChan \in Seq(Tasks) /\ Len(taskChan) <= Cap
  BY DEF TypeInv, TypeOK
<1>1. PICK v \in Writers : TRUE
  BY WritersAssumption
<1>2. ASSUME pc \in {"send", "dumpSQL"} PROVE WriterCtxDone \/ Len(taskChan) < Cap
  <2> SUFFICES ASSUME ~WriterCtxDone PROVE Len(taskChan) < Cap
    OBVIOUS
  <2>1. wstate[v] \in {"idle", "done"}
    BY <1>0, <1>1, <1>2 DEF WritersAlive, WriterReady
  <2>2. taskChan = <<>>
    BY <1>1, <1>2, <2>1 DEF Joined, WritersAlive, WriterReady
  <2>3. Len(taskChan) = 0
    BY <2>2
  <2> QED BY <2>3, CapAssumption
<1>3. ASSUME pc = "wait" PROVE \A w \in Writers : wstate[w] = "done"
  BY <1>0, <1>3 DEF WritersAlive, WriterReady
<1>4. ASSUME pc = "advance"
      PROVE  next[3] <= ChunksOf(next[1], next[2]) /\ next[2] <= Len(Chunks[next[1]])
  <2>1. next \in Tasks /\ ~sql
    BY <1>4 DEF TypeInv, Position
  <2> QED BY <2>1, TaskShape
<1> QED BY <1>2, <1>3, <1>4 DEF MainReady, WritersAlive

(* Until Dump has returned, it or one of its writers can take a step, for any number *)
(* of writers, any capacity of taskChan and any plan: a full channel always has a    *)
(* writer that will empty it or a context that is done, and wg.Wait never waits for  *)
(* a writer that waits for the producer (sendTaskToChan, Writer.run, dump.go:234).   *)
THEOREM DumpNeverStuck == Spec => []NobodyStuck
<1>1. Init => WritersAlive
  BY AliveInit
<1>2. TypeInv /\ WritersAlive /\ [Next]_vars => WritersAlive'
  BY AliveStep
<1>3. TypeInv /\ Joined /\ WritersAlive => NobodyStuck
  BY AliveImplies
<1> QED BY <1>1, <1>2, <1>3, TypeInvAlways, JoinedAlways, PTL DEF Spec
=============================================================================
