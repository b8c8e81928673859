---------------------------- MODULE DumpPipeline ----------------------------
(***************************************************************************)
(* How Dump hands the work of one dump to its writers: the producer        *)
(* (dumpDatabases or dumpSQL) fills the bounded channel taskChan, the      *)
(* writers started by startWriters empty it, an errgroup joins them and    *)
(* cancels the shared context on the first error, and a dump that returns  *)
(* nil leaves the metadata file behind.  What a task contains is left out; *)
(* which task it is, and whether its files were written, is kept.          *)
(***************************************************************************)
EXTENDS Integers, Sequences, FiniteSets

CONSTANTS
    Writers,    \* the writers, conf.Threads of them
    Databases,  \* the databases of conf.Tables
    Chunks,     \* Chunks[d][i]: data tasks of the i-th table of database d
                \* (0 for a view, and for every table under --no-data)
    Cap         \* capacity of taskChan (defaultDumpThreads in the code)

ASSUME WritersAssumption == Writers # {}
ASSUME CapAssumption == Cap \in Nat \ {0}
ASSUME ChunksAssumption == Chunks \in [Databases -> Seq(Nat)]

VARIABLES
    sql,        \* conf.SQL # "": one query is dumped instead of databases
    pc,         \* where the goroutine that called Dump is
    dumpErr,    \* what Dump returns: "none" so far, "nil" or "error"
    dbsLeft,    \* databases the loop of dumpDatabases has not finished
    next,       \* the task dumpDatabases prepares or sends
    taskChan,   \* the tasks in the channel
    chanClosed, \* close(taskChan) has happened
    wstate,     \* what each writer goroutine does
    wtask,      \* the task a busy writer handles
    conns,      \* writers whose connection is open
    wgErr,      \* the errgroup holds an error
    cancelled,  \* Close has cancelled the Dumper's context
    written,    \* tasks whose files have been written
    metadata    \* the metadata file has been written

mainVars == <<sql, pc, dumpErr, dbsLeft, next>>
chanVars == <<taskChan, chanClosed>>
writerVars == <<wstate, wtask, conns, wgErr, written>>
vars == <<mainVars, chanVars, writerVars, cancelled, metadata>>

-----------------------------------------------------------------------------
(* A task is named by its place in the plan: <<d, 0, 0>> is the database   *)
(* meta of d, <<d, i, 0>> the meta of its i-th table or view, <<d, i, c>>  *)
(* the c-th data chunk of that table.                                      *)

SQLTask == <<"sql", 0, 0>>

ChunksOf(d, i) == IF i = 0 THEN 0 ELSE Chunks[d][i]

DatabaseTasks(d) ==
    UNION {{<<d, i, c>> : c \in 0 .. ChunksOf(d, i)} : i \in 0 .. Len(Chunks[d])}

Tasks == IF sql THEN {SQLTask} ELSE UNION {DatabaseTasks(d) : d \in Databases}

NoTask == <<"none", 0, 0>>

TaskRange == {taskChan[i] : i \in 1 .. Len(taskChan)}

\* the context of the writers: cancelled from above or by the errgroup
WriterCtxDone == cancelled \/ wgErr

Running(w) == wstate[w] \in {"idle", "busy"}

Init ==
    /\ sql \in BOOLEAN
    /\ pc = "prepare"
    /\ dumpErr = "none"
    /\ dbsLeft = Databases
    /\ next = NoTask
    /\ taskChan = <<>>
    /\ chanClosed = FALSE
    /\ wstate = [w \in Writers |-> "none"]
    /\ wtask = [w \in Writers |-> NoTask]
    /\ conns = {}
    /\ wgErr = FALSE
    /\ cancelled = FALSE
    /\ written = {}
    /\ metadata = FALSE

-----------------------------------------------------------------------------
(* Faulty variants of the definitions below, for the mutation runs.        *)

\* a writer leaves as soon as the channel is closed, whatever it still holds
StopOnCloseEarly(w) ==
    /\ wstate[w] = "idle"
    /\ chanClosed
    /\ wstate' = [wstate EXCEPT ![w] = "done"]
    /\ UNCHANGED <<mainVars, chanVars, wtask, conns, wgErr, written, cancelled, metadata>>

\* a query that fails while the data of a table is split makes the producer try the
\* table again, although the chunks before are in the channel
FetchStartsOver ==
    /\ pc = "fetch"
    /\ \/ pc' = "send" /\ UNCHANGED <<dumpErr, next>>
       \/ /\ next[3] > 1
          /\ next' = [next EXCEPT ![3] = 1]
          /\ UNCHANGED <<pc, dumpErr>>
       \/ next[3] <= 1 /\ pc' = "tearDownWriters" /\ dumpErr' = "error" /\ UNCHANGED next
       \/ WriterCtxDone /\ pc' = "closeChan" /\ UNCHANGED <<dumpErr, next>>
    /\ UNCHANGED <<sql, dbsLeft, chanVars, writerVars, cancelled, metadata>>

\* Dump returns without looking at what the group reports
WaitIgnoresError ==
    /\ pc = "wait"
    /\ \A w \in Writers : wstate[w] = "done"
    /\ dumpErr' = "nil"
    /\ pc' = "tearDownWriters"
    /\ UNCHANGED <<sql, dbsLeft, next, chanVars, writerVars, cancelled, metadata>>

\* the deferred function writes the metadata file whatever Dump returns
ReturnAlways ==
    /\ pc = "return"
    /\ metadata' \in BOOLEAN
    /\ pc' = "returned"
    /\ UNCHANGED <<sql, dumpErr, dbsLeft, next, chanVars, writerVars, cancelled>>

\* the producer tries again while the channel is full, whatever its context says
SendTaskRetries ==
    /\ pc = "send"
    /\ \/ /\ Len(taskChan) = Cap
          /\ pc' = "fetch"
          /\ UNCHANGED taskChan
       \/ /\ Len(taskChan) < Cap
          /\ taskChan' = Append(taskChan, next)
          /\ pc' = "advance"
    /\ UNCHANGED <<sql, dumpErr, dbsLeft, next, chanClosed, writerVars, cancelled,
                   metadata>>

\* the done context ends the select and not the loop
StopOnCtxDoneBreaks(w) ==
    /\ wstate[w] = "idle"
    /\ WriterCtxDone
    /\ UNCHANGED vars

-----------------------------------------------------------------------------
(* The goroutine of Dump.                                                  *)

\* Table list, consistency controller, meta connection, global metadata: any
\* of them may end the dump with an error; otherwise the writers are started.
Prepare ==
    /\ pc = "prepare"
    /\ \/ pc' = "startWriters" /\ UNCHANGED dumpErr
       \/ pc' = "return" /\ dumpErr' = "error"
    /\ UNCHANGED <<sql, dbsLeft, next, chanVars, writerVars, cancelled, metadata>>

\* One round of the loop of startWriters: a connection, a Writer, wg.Go.
StartWriter ==
    /\ pc = "startWriters"
    /\ \E w \in Writers :
         /\ wstate[w] = "none"
         /\ wstate' = [wstate EXCEPT ![w] = "idle"]
         /\ conns' = conns \cup {w}
    /\ UNCHANGED <<mainVars, chanVars, wtask, wgErr, written, cancelled, metadata>>

\* A connection cannot be opened: startWriters returns the error with an empty
\* tearDown, so the writers already running keep running and keep their
\* connections.
StartWriterFails ==
    /\ pc = "startWriters"
    /\ \E w \in Writers : wstate[w] = "none"
    /\ pc' = "return"
    /\ dumpErr' = "error"
    /\ UNCHANGED <<sql, dbsLeft, next, chanVars, writerVars, cancelled, metadata>>

\* All writers run.  Under --transactional-consistency the locks are dropped
\* here, and failing to drop them ends the dump.
WritersStarted ==
    /\ pc = "startWriters"
    /\ \A w \in Writers : wstate[w] # "none"
    /\ \/ pc' = (IF sql THEN "dumpSQL" ELSE "nextDatabase") /\ UNCHANGED dumpErr
       \/ pc' = "tearDownWriters" /\ dumpErr' = "error"
    /\ UNCHANGED <<sql, dbsLeft, next, chanVars, writerVars, cancelled, metadata>>

\* The outer loop of dumpDatabases, over a Go map: databases in any order.
NextDatabase ==
    /\ pc = "nextDatabase"
    /\ \/ /\ dbsLeft = {}
          /\ pc' = "closeChan"
          /\ UNCHANGED next
       \/ \E d \in dbsLeft :
            /\ next' = <<d, 0, 0>>
            /\ pc' = "fetch"
    /\ UNCHANGED <<sql, dumpErr, dbsLeft, chanVars, writerVars, cancelled, metadata>>

\* What the next task needs is read from the server through metaConn.  An
\* error leaves dumpDatabases and Dump at once, without close(taskChan) and
\* without wg.Wait; only context.Canceled, which a query reports when the
\* context it runs under is done, is passed over.
Fetch ==
    /\ pc = "fetch"
    /\ \/ pc' = "send" /\ UNCHANGED dumpErr
       \/ pc' = "tearDownWriters" /\ dumpErr' = "error"
       \/ WriterCtxDone /\ pc' = "closeChan" /\ UNCHANGED dumpErr
    /\ UNCHANGED <<sql, dbsLeft, next, chanVars, writerVars, cancelled, metadata>>

\* sendTaskToChan: a select between the context and room in the channel.  A
\* done context makes dumpDatabases return tctx.Err(), context.Canceled, which
\* Dump passes over.
SendTask ==
    /\ pc = "send"
    /\ \/ /\ WriterCtxDone
          /\ pc' = "closeChan"
          /\ UNCHANGED taskChan
       \/ /\ Len(taskChan) < Cap
          /\ taskChan' = Append(taskChan, next)
          /\ pc' = "advance"
    /\ UNCHANGED <<sql, dumpErr, dbsLeft, next, chanClosed, writerVars, cancelled,
                   metadata>>

\* On to the next chunk, the next table of the database, the next database.
Advance ==
    LET d == next[1]
        i == next[2]
        c == next[3]
    IN  /\ pc = "advance"
        /\ \/ /\ c < ChunksOf(d, i)
              /\ next' = <<d, i, c + 1>>
              /\ pc' = "fetch"
              /\ UNCHANGED dbsLeft
           \/ /\ c = ChunksOf(d, i)
              /\ i < Len(Chunks[d])
              /\ next' = <<d, i + 1, 0>>
              /\ pc' = "fetch"
              /\ UNCHANGED dbsLeft
           \/ /\ c = ChunksOf(d, i)
              /\ i = Len(Chunks[d])
              /\ dbsLeft' = dbsLeft \ {d}
              /\ pc' = "nextDatabase"
              /\ UNCHANGED next
        /\ UNCHANGED <<sql, dumpErr, chanVars, writerVars, cancelled, metadata>>

\* dumpSQL sends its single task, or finds the context done and says nothing.
DumpSQL ==
    /\ pc = "dumpSQL"
    /\ \/ WriterCtxDone /\ UNCHANGED taskChan
       \/ Len(taskChan) < Cap /\ taskChan' = Append(taskChan, SQLTask)
    /\ pc' = "closeChan"
    /\ UNCHANGED <<sql, dumpErr, dbsLeft, next, chanClosed, writerVars, cancelled,
                   metadata>>

CloseChan ==
    /\ pc = "closeChan"
    /\ chanClosed' = TRUE
    /\ pc' = "wait"
    /\ UNCHANGED <<sql, dumpErr, dbsLeft, next, taskChan, writerVars, cancelled, metadata>>

\* wg.Wait returns the first error of the group.
Wait ==
    /\ pc = "wait"
    /\ \A w \in Writers : wstate[w] = "done"
    /\ dumpErr' = (IF wgErr THEN "error" ELSE "nil")
    /\ pc' = "tearDownWriters"
    /\ UNCHANGED <<sql, dbsLeft, next, chanVars, writerVars, cancelled, metadata>>

\* The deferred tearDownWriters closes every writer's connection, whether or
\* not the writer still runs.
TearDownWriters ==
    /\ pc = "tearDownWriters"
    /\ conns' = {}
    /\ pc' = "return"
    /\ UNCHANGED <<sql, dumpErr, dbsLeft, next, chanVars, wstate, wtask, wgErr, written,
                   cancelled, metadata>>

\* The first deferred function, which runs last: the metadata file is written
\* for a dump without an error, and failing to write it is not reported.
Return ==
    /\ pc = "return"
    /\ \/ dumpErr = "nil" /\ metadata' \in BOOLEAN
       \/ dumpErr = "error" /\ UNCHANGED metadata
    /\ pc' = "returned"
    /\ UNCHANGED <<sql, dumpErr, dbsLeft, next, chanVars, writerVars, cancelled>>

-----------------------------------------------------------------------------
(* The writers, Writer.run.                                                *)

TakeTask(w) ==
    /\ wstate[w] = "idle"
    /\ taskChan # <<>>
    /\ wstate' = [wstate EXCEPT ![w] = "busy"]
    /\ wtask' = [wtask EXCEPT ![w] = Head(taskChan)]
    /\ taskChan' = Tail(taskChan)
    /\ UNCHANGED <<mainVars, chanClosed, conns, wgErr, written, cancelled, metadata>>

StopOnClose(w) ==
    /\ wstate[w] = "idle"
    /\ chanClosed
    /\ taskChan = <<>>
    /\ wstate' = [wstate EXCEPT ![w] = "done"]
    /\ UNCHANGED <<mainVars, chanVars, wtask, conns, wgErr, written, cancelled, metadata>>

\* The context is done: run returns nil, not the context's error.
StopOnCtxDone(w) ==
    /\ wstate[w] = "idle"
    /\ WriterCtxDone
    /\ wstate' = [wstate EXCEPT ![w] = "done"]
    /\ UNCHANGED <<mainVars, chanVars, wtask, conns, wgErr, written, cancelled, metadata>>

\* handleTask succeeds, with or without a done context.
HandleTask(w) ==
    /\ wstate[w] = "busy"
    /\ wstate' = [wstate EXCEPT ![w] = "idle"]
    /\ wtask' = [wtask EXCEPT ![w] = NoTask]
    /\ written' = written \cup {wtask[w]}
    /\ UNCHANGED <<mainVars, chanVars, conns, wgErr, cancelled, metadata>>

\* handleTask fails: run returns the error, the errgroup keeps it if it is the
\* first and cancels the context the writers and the producer share.
HandleTaskFails(w) ==
    /\ wstate[w] = "busy"
    /\ wstate' = [wstate EXCEPT ![w] = "done"]
    /\ wtask' = [wtask EXCEPT ![w] = NoTask]
    /\ wgErr' = TRUE
    /\ UNCHANGED <<mainVars, chanVars, conns, written, cancelled, metadata>>

\* The owner of the Dumper calls Close: after Dump in the command, at any time
\* from a program that embeds the package.
Close ==
    /\ ~cancelled
    /\ cancelled' = TRUE
    /\ UNCHANGED <<mainVars, chanVars, writerVars, metadata>>

\* Nothing is left to do: Dump has returned and no writer runs.
Terminated ==
    /\ pc = "returned"
    /\ \A w \in Writers : ~Running(w)
    /\ UNCHANGED vars

Main ==
    \/ Prepare \/ StartWriter \/ StartWriterFails \/ WritersStarted
    \/ NextDatabase \/ Fetch \/ SendTask \/ Advance \/ DumpSQL
    \/ CloseChan \/ Wait \/ TearDownWriters \/ Return

Writer(w) ==
    \/ TakeTask(w) \/ StopOnClose(w) \/ StopOnCtxDone(w)
    \/ HandleTask(w) \/ HandleTaskFails(w)

Next ==
    \/ Main
    \/ \E w \in Writers : Writer(w)
    \/ Close
    \/ Terminated

Spec == Init /\ [][Next]_vars

\* Every goroutine is scheduled: the caller of Dump and each writer, whose
\* handleTask ends because its queries and its storage calls end.
Fairness == WF_vars(Main) /\ \A w \in Writers : WF_vars(Writer(w))

FairSpec == Spec /\ Fairness

-----------------------------------------------------------------------------
(* Properties.                                                             *)

TypeOK ==
    /\ sql \in BOOLEAN
    /\ pc \in {"prepare", "startWriters", "nextDatabase", "fetch", "send", "advance",
               "dumpSQL", "closeChan", "wait", "tearDownWriters", "return", "returned"}
    /\ dumpErr \in {"none", "nil", "error"}
    /\ dbsLeft \subseteq Databases
    /\ next \in Tasks \cup {NoTask}
    /\ taskChan \in Seq(Tasks)
    /\ Len(taskChan) <= Cap
    /\ chanClosed \in BOOLEAN
    /\ wstate \in [Writers -> {"none", "idle", "busy", "done"}]
    /\ wtask \in [Writers -> Tasks \cup {NoTask}]
    /\ conns \subseteq Writers
    /\ wgErr \in BOOLEAN
    /\ cancelled \in BOOLEAN
    /\ written \subseteq Tasks
    /\ metadata \in BOOLEAN

\* A dump that was not closed under way and whose result is nil has written
\* every task of the plan: no database, table, view or chunk is lost between the
\* producer, the channel and the writers (Dump, dumpDatabases, Writer.run).
SuccessMeansComplete ==
    dumpErr = "nil" /\ ~cancelled => written = Tasks

\* The metadata file appears only when no writer is running any more and none of
\* them failed, so it never vouches for files that are still being written (the
\* deferred writeGlobalMetaData of Dump against wg.Wait).
MetadataIsLast ==
    metadata =>
        /\ dumpErr = "nil"
        /\ ~wgErr
        /\ \A w \in Writers : wstate[w] = "done" /\ w \notin conns

\* A writer's error reaches the caller: once a handleTask has failed, Dump does
\* not return nil (errgroup, the swallowed context.Canceled at dump.go:235).
WriterErrorReported ==
    wgErr => dumpErr # "nil"

\* No task is given to two writers, or to a writer after it was written: whatever
\* the producer meets between two tasks it sends each of them once, so a task is in
\* the channel once, in one writer's hands, or written (two writers would create
\* the same file).
TaskHandledOnce ==
    /\ \A i, j \in 1 .. Len(taskChan) : taskChan[i] = taskChan[j] => i = j
    /\ \A w \in Writers : wstate[w] = "busy" =>
         /\ wtask[w] \notin TaskRange \cup written
         /\ \A v \in Writers \ {w} : wstate[v] = "busy" => wtask[v] # wtask[w]
    /\ TaskRange \cap written = {}

\* Dump returns: the producer is never left blocked on a full channel, and Wait
\* never waits for a writer that waits for the producer (TestDumpBlock).
DumpReturns == <>(pc = "returned")

\* Close ends every writer, also those that an early return of Dump left behind
\* without closing their channel (dump.go:236, dump.go:260).
WritersStop ==
    cancelled /\ pc = "returned" ~> \A w \in Writers : ~Running(w)

=============================================================================
