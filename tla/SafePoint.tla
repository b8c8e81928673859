------------------------------ MODULE SafePoint ------------------------------
(***************************************************************************)
(* How a dump of TiDB keeps its snapshot from being garbage collected: the *)
(* steps of NewDumper that resolve the consistency, connect to PD, take    *)
(* the snapshot, start the service safe point and set up the sessions; the *)
(* goroutine updateServiceSafePoint that renews the safe point; and, as    *)
(* their environment, PD and the garbage collection of TiDB.               *)
(*                                                                         *)
(* Time is counted in seconds.  A timestamp of TiDB is the time it was     *)
(* given out, so the snapshot taken at time t has the timestamp t.         *)
(***************************************************************************)
EXTENDS Integers

CONSTANTS
    TTL,        \* defaultDumpGCSafePointTTL
    Retries,    \* the calls of a round are numbered 0 .. Retries
    CallTime,   \* longest time a call of PD takes
    StartTime,  \* longest time from the snapshot to the start of the service
    GCLife,     \* tikv_gc_life_time
    NoTS,       \* stands for a timestamp or a lease that is not set
    Configs,    \* the configurations and servers, see Configurations
    MaxTime     \* bound: the clock stops here

\* Consistency, Snapshot (NoTS: not given), the server (tidb: one that knows its PD
\* servers, oldTiDB: before gcSafePointVersion) and whether TiDB runs on TiKV
Configurations ==
    [consistency : {"auto", "flush", "lock", "snapshot", "none"}, snapshot : Int,
     server : {"tidb", "oldTiDB", "mysql", "unknown"}, tikv : BOOLEAN]

\* time between two ticks, and longest time until a round's last call returns
Interval == TTL \div 2
Round == Retries * (1 + CallTime) + CallTime

ASSUME NoTSAssumption == NoTS \in Int /\ NoTS < 0
ASSUME ServiceAssumption ==
    /\ TTL \in Nat /\ Retries \in Nat /\ CallTime \in Nat
    /\ Interval > 0 /\ Round <= TTL - Interval
ASSUME LifeAssumption ==
    /\ StartTime \in Nat /\ GCLife \in Nat /\ MaxTime \in Nat
    /\ StartTime + Round <= GCLife
ASSUME SafePointConfigsAssumption ==
    /\ Configs \subseteq Configurations
    /\ \A c \in Configs : c.snapshot # NoTS =>
           c.snapshot <= 0 /\ StartTime + Round - c.snapshot <= GCLife

VARIABLES
    conf,       \* configuration and server
    pc,         \* step of NewDumper, then the dump
    mode,       \* conf.Consistency
    pdClient,   \* tidbPDClientForGC is set
    snapshot,   \* conf.Snapshot
    session,    \* tidb_snapshot of the sessions
    closed,     \* the context is cancelled
    now,        \* the clock
    svc,        \* what updateServiceSafePoint does
    since,      \* when it began to do so
    retryCnt,   \* number of the call in its round
    tickAt,     \* when the ticker fires next
    tickReady,  \* a tick waits in the ticker's channel
    lease,      \* until when PD keeps the service safe point
    gc,         \* what lies before this timestamp is collected
    roundLost   \* (observation) every call of some round failed

startVars == <<mode, pdClient, snapshot, session>>
svcVars == <<svc, since, retryCnt, tickAt, tickReady, roundLost>>
pdVars == <<lease, gc>>
vars == <<conf, pc, startVars, closed, now, svcVars, pdVars>>

TiDB == conf.server \in {"tidb", "oldTiDB"}

Init ==
    /\ conf \in Configs
    /\ pc = "resolve"
    /\ mode = conf.consistency
    /\ pdClient = FALSE
    /\ snapshot = conf.snapshot
    /\ session = NoTS
    /\ closed = FALSE
    /\ now = 0
    /\ svc = "off"
    /\ since = 0
    /\ retryCnt = 0
    /\ tickAt = 0
    /\ tickReady = FALSE
    /\ lease = NoTS
    /\ gc = -GCLife
    /\ roundLost = FALSE

-----------------------------------------------------------------------------
(* The steps of NewDumper.                                                 *)

ResolveAutoConsistency ==
    /\ pc = "resolve"
    /\ mode' = IF conf.consistency # "auto" THEN conf.consistency
               ELSE IF TiDB THEN "snapshot"
               ELSE IF conf.server = "mysql" THEN "flush" ELSE "none"
    /\ pc' = "pdClient"
    /\ UNCHANGED <<conf, pdClient, snapshot, session, closed, now, svcVars, pdVars>>

\* the client is created only for a TiDB that lists PD servers, and only when they
\* belong to its cluster; an error on the way leaves the dump without one
TidbSetPDClientForGC ==
    /\ pc = "pdClient"
    /\ pdClient' \in (IF conf.server = "tidb" THEN BOOLEAN ELSE {FALSE})
    /\ pc' = "getSnapshot"
    /\ UNCHANGED <<conf, mode, snapshot, session, closed, now, svcVars, pdVars>>

\* an error of SHOW MASTER STATUS is only logged
TidbGetSnapshot ==
    /\ pc = "getSnapshot"
    /\ snapshot' \in (IF snapshot = NoTS /\ (pdClient \/ mode = "snapshot")
                      THEN {now, NoTS} ELSE {snapshot})
    /\ pc' = "startService"
    /\ UNCHANGED <<conf, mode, pdClient, session, closed, now, svcVars, pdVars>>

\* the goroutine starts with its first call
TidbStartGCSavepointUpdateService ==
    /\ pc = "startService"
    /\ pdClient => snapshot # NoTS
    /\ pc' = "session"
    /\ IF pdClient
       THEN /\ svc' = "call" /\ since' = now /\ retryCnt' = 0
            /\ tickAt' = now + Interval
       ELSE UNCHANGED <<svc, since, retryCnt, tickAt>>
    /\ UNCHANGED <<conf, startVars, closed, now, tickReady, roundLost, pdVars>>

SetSessionParam ==
    /\ pc = "session"
    /\ snapshot # NoTS => TiDB
    /\ session' = IF snapshot # NoTS /\ mode = "snapshot" /\ conf.tikv
                  THEN snapshot ELSE NoTS
    /\ pc' = "dump"
    /\ UNCHANGED <<conf, mode, pdClient, snapshot, closed, now, svcVars, pdVars>>

\* NewDumper returns an error: PD servers that cannot be listed, a snapshot that is not a
\* timestamp, a snapshot on a server other than TiDB, a query that fails.  The service, if
\* it runs already, is not stopped
NewDumperFails ==
    /\ pc \in {"resolve", "pdClient", "startService", "session"}
    /\ pc' = "failed"
    /\ UNCHANGED <<conf, startVars, closed, now, svcVars, pdVars>>

DumpReturns ==
    /\ pc = "dump"
    /\ pc' = "returned"
    /\ UNCHANGED <<conf, startVars, closed, now, svcVars, pdVars>>

\* Close of the Dumper, while it dumps or later
Close ==
    /\ pc \in {"dump", "returned", "failed"}
    /\ closed' = TRUE
    /\ UNCHANGED <<conf, pc, startVars, now, svcVars, pdVars>>

-----------------------------------------------------------------------------
(* The goroutine updateServiceSafePoint.                                   *)

\* (faulty variant, for mutation runs) the interval is passed for the TTL
RenewForInterval == lease' = IF gc <= snapshot THEN now + Interval ELSE lease

\* PD keeps the safe point for another TTL, unless the garbage collection is already
\* past it; its answer is the same
Renew == lease' = IF gc <= snapshot THEN now + TTL ELSE lease

CallSucceeds ==
    /\ svc = "call"
    /\ Renew
    /\ svc' = "tick"
    /\ UNCHANGED <<conf, pc, startVars, closed, now, since, retryCnt, tickAt, tickReady, gc,
                   roundLost>>

\* the call fails at PD, or only its answer is lost
CallFails ==
    /\ svc = "call"
    /\ Renew \/ UNCHANGED lease
    /\ svc' = "sleep"
    /\ since' = now
    /\ roundLost' = (roundLost \/ retryCnt = Retries)
    /\ UNCHANGED <<conf, pc, startVars, closed, now, retryCnt, tickAt, tickReady, gc>>

\* (faulty variant, for mutation runs) the call is not retried
WakeUpGivesUp ==
    /\ svc = "sleep"
    /\ now = since + 1
    /\ svc' = "tick"
    /\ since' = now
    /\ UNCHANGED <<conf, pc, startVars, closed, now, retryCnt, tickAt, tickReady, pdVars,
                   roundLost>>

\* one second later: the next call of the round, or its end
WakeUp ==
    /\ svc = "sleep"
    /\ now = since + 1
    /\ since' = now
    /\ IF retryCnt < Retries
       THEN svc' = "call" /\ retryCnt' = retryCnt + 1
       ELSE svc' = "tick" /\ UNCHANGED retryCnt
    /\ UNCHANGED <<conf, pc, startVars, closed, now, tickAt, tickReady, pdVars, roundLost>>

\* the ticker's channel has a tick: a new round
NextRound ==
    /\ svc = "tick"
    /\ tickReady
    /\ tickReady' = FALSE
    /\ svc' = "call"
    /\ since' = now
    /\ retryCnt' = 0
    /\ UNCHANGED <<conf, pc, startVars, closed, now, tickAt, pdVars, roundLost>>

\* (faulty variant, for mutation runs) the select leaves itself, not the loop
StopInCall ==
    /\ svc = "sleep"
    /\ closed
    /\ svc' = "ended"
    /\ UNCHANGED <<conf, pc, startVars, closed, now, since, retryCnt, tickAt, tickReady,
                   pdVars, roundLost>>

\* tctx.Done() in either select
Stop ==
    /\ svc \in {"sleep", "tick"}
    /\ closed
    /\ svc' = "ended"
    /\ UNCHANGED <<conf, pc, startVars, closed, now, since, retryCnt, tickAt, tickReady,
                   pdVars, roundLost>>

-----------------------------------------------------------------------------
(* The environment.                                                        *)

\* a second passes; the goroutine and PD are never later than they may be, and the clock
\* starts when the snapshot is taken
Tick ==
    /\ now < MaxTime
    /\ svc = "call" => now < since + CallTime
    /\ svc = "sleep" => now < since + 1
    /\ svc = "tick" => ~tickReady
    /\ pc \notin {"resolve", "pdClient", "getSnapshot"}
    /\ pc = "startService" => now < StartTime
    /\ now' = now + 1
    /\ IF svc # "off" /\ now' = tickAt
       THEN tickReady' = TRUE /\ tickAt' = tickAt + Interval
       ELSE UNCHANGED <<tickReady, tickAt>>
    /\ UNCHANGED <<conf, pc, startVars, closed, svc, since, retryCnt, pdVars, roundLost>>

\* TiDB moves its safe point as far as its life time allows, and PD
CollectGarbage ==
    LET kept == lease # NoTS /\ now <= lease /\ snapshot < now - GCLife
        target == IF kept THEN snapshot ELSE now - GCLife
    IN /\ gc < target
       /\ gc' = target
       /\ UNCHANGED <<conf, pc, startVars, closed, now, svcVars, lease>>

NewDumper ==
    \/ ResolveAutoConsistency \/ TidbSetPDClientForGC \/ TidbGetSnapshot
    \/ TidbStartGCSavepointUpdateService \/ SetSessionParam \/ NewDumperFails

UpdateServiceSafePoint == CallSucceeds \/ CallFails \/ WakeUp \/ NextRound \/ Stop

Next ==
    \/ NewDumper \/ DumpReturns \/ Close
    \/ UpdateServiceSafePoint
    \/ Tick \/ CollectGarbage

Spec == Init /\ [][Next]_vars

\* the goroutine runs, a call returns, and a select that meets tctx.Done() again and again
\* takes it
FairSpec == Spec /\ WF_vars(UpdateServiceSafePoint) /\ SF_vars(Stop)

-----------------------------------------------------------------------------
(* Properties.                                                             *)

\* (typing) every variable keeps its type
TypeOK ==
    /\ conf \in Configs
    /\ pc \in {"resolve", "pdClient", "getSnapshot", "startService", "session", "dump",
               "returned", "failed"}
    /\ mode \in {"auto", "flush", "lock", "snapshot", "none"}
    /\ pdClient \in BOOLEAN /\ closed \in BOOLEAN
    /\ snapshot \in Int /\ session \in Int
    /\ now \in 0 .. MaxTime
    /\ svc \in {"off", "call", "sleep", "tick", "ended"}
    /\ since \in 0 .. MaxTime /\ retryCnt \in 0 .. Retries
    /\ tickAt \in Nat /\ tickReady \in BOOLEAN
    /\ lease \in Int /\ gc \in Int
    /\ roundLost \in BOOLEAN

\* the timestamp the dump reads at, or one no later than those its transactions read at
ReadTS == IF session # NoTS THEN session ELSE snapshot

\* while a dump with a PD client runs, TiDB collects nothing its sessions may still read:
\* updateServiceSafePoint registers the snapshot before its life time is over and renews
\* it before PD drops it, as long as no round of calls fails to its last retry
SnapshotReadable ==
    pc = "dump" /\ pdClient /\ ~closed /\ ~roundLost => ReadTS # NoTS /\ gc <= ReadTS

\* once registered, the service safe point does not lapse while the goroutine runs, as
\* long as no round fails to its last retry
LeaseUnbroken ==
    lease # NoTS /\ svc # "ended" /\ ~roundLost => now <= lease

\* updateServiceSafePoint ends after Close, wherever it is: in a call, before a retry or
\* waiting for its ticker; it does not hold back the garbage collection of the cluster
ServiceEnds == closed /\ svc # "off" ~> svc = "ended"
=============================================================================
