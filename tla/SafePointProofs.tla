--------------------------- MODULE SafePointProofs ---------------------------
(***************************************************************************)
(* Proofs about SafePoint: for every time to live, number of retries,      *)
(* duration of a call and life time that satisfy the assumptions, the      *)
(* service safe point does not lapse and the snapshot stays readable.      *)
(*                                                                         *)
(* The argument follows a round of calls.  Left(k) is the longest time     *)
(* from the beginning of call k to the end of the round's last call, and   *)
(* Deadline the time at which the protection of the snapshot ends: the     *)
(* lease, or before the first renewal the life time TiDB grants anyway.    *)
(* Whatever the goroutine does, what is left of its round ends before the  *)
(* deadline.                                                               *)
(***************************************************************************)
EXTENDS SafePoint, TLAPS

USE NoTSAssumption, ServiceAssumption, LifeAssumption, SafePointConfigsAssumption

Left(k) == (Retries - k) * (1 + CallTime) + CallTime

Deadline == IF lease = NoTS THEN StartTime + Round ELSE lease

LEMMA IntervalType == Interval \in Nat \ {0} /\ Round \in Nat /\ Interval + Round <= TTL
<1>1. Interval \in Int
  BY DEF Interval
<1>2. Retries * (1 + CallTime) \in Nat
  OBVIOUS
<1> QED
  BY <1>1, <1>2 DEF Round

LEMMA LeftAtStart == Left(0) = Round
  BY DEF Left, Round

LEMMA LeftType == \A k \in 0 .. Retries : Left(k) \in Nat /\ Left(k) >= CallTime
<1> TAKE k \in 0 .. Retries
<1>1. \A m, n \in Nat : m * n \in Nat
  OBVIOUS
<1>2. Retries - k \in Nat /\ 1 + CallTime \in Nat
  OBVIOUS
<1>3. (Retries - k) * (1 + CallTime) \in Nat
  BY <1>1, <1>2
<1> QED
  BY <1>3 DEF Left

LEMMA LeftNext ==
    \A k \in 0 .. Retries : k < Retries => Left(k) = CallTime + 1 + Left(k + 1)
<1> SUFFICES ASSUME NEW k \in 0 .. Retries, k < Retries
             PROVE Left(k) = CallTime + 1 + Left(k + 1)
  OBVIOUS
<1>1. \A m, n \in Nat : (m + 1) * n = m * n + n
  OBVIOUS
<1>2. /\ Retries - (k + 1) \in Nat /\ 1 + CallTime \in Nat
      /\ Retries - k = (Retries - (k + 1)) + 1
  OBVIOUS
<1>3. (Retries - k) * (1 + CallTime)
        = (Retries - (k + 1)) * (1 + CallTime) + (1 + CallTime)
  BY <1>1, <1>2
<1>4. (Retries - (k + 1)) * (1 + CallTime) \in Int
  BY <1>2
<1> HIDE <1>2
<1> QED
  BY <1>3, <1>4 DEF Left

LEMMA LeftBounded == \A k \in 0 .. Retries : Left(k) <= Round
<1> TAKE k \in 0 .. Retries
<1>1. \A m, n, p \in Nat : m <= n => m * p <= n * p
  OBVIOUS
<1>2. Retries - k \in Nat /\ 1 + CallTime \in Nat /\ Retries - k <= Retries
  OBVIOUS
<1>3. (Retries - k) * (1 + CallTime) <= Retries * (1 + CallTime)
  BY <1>1, <1>2
<1>4. (Retries - k) * (1 + CallTime) \in Int /\ Retries * (1 + CallTime) \in Int
  BY <1>2
<1> QED
  BY <1>3, <1>4 DEF Left, Round

-----------------------------------------------------------------------------
(* Types.                                                                  *)

LEMMA ConfType ==
    ASSUME NEW c \in Configs
    PROVE /\ c.consistency \in {"auto", "flush", "lock", "snapshot", "none"}
          /\ c.snapshot \in Int
  BY DEF Configurations

LEMMA TypeInit == Init => TypeOK
<1> SUFFICES ASSUME Init PROVE TypeOK
  OBVIOUS
<1>1. /\ pdClient \in BOOLEAN /\ closed \in BOOLEAN /\ tickReady \in BOOLEAN
      /\ roundLost \in BOOLEAN
  BY Zenon DEF Init
<1>2. /\ conf \in Configs /\ mode = conf.consistency /\ snapshot = conf.snapshot
      /\ pc = "resolve" /\ svc = "off"
      /\ session = NoTS /\ lease = NoTS /\ gc = -GCLife
      /\ now = 0 /\ since = 0 /\ retryCnt = 0 /\ tickAt = 0
  BY DEF Init
<1> QED
  BY <1>1, <1>2, ConfType DEF TypeOK

LEMMA TypeStep == TypeOK /\ [Next]_vars => TypeOK'
<1> SUFFICES ASSUME TypeOK, [Next]_vars PROVE TypeOK'
  OBVIOUS
<1> USE DEF TypeOK, startVars, svcVars, pdVars
<1>0. conf.consistency \in {"auto", "flush", "lock", "snapshot", "none"}
  BY ConfType
<1>1. CASE ResolveAutoConsistency
  BY <1>0, <1>1 DEF ResolveAutoConsistency
<1>2. CASE TidbSetPDClientForGC
  BY <1>2, Zenon DEF TidbSetPDClientForGC
<1>3. CASE TidbGetSnapshot
  BY <1>3 DEF TidbGetSnapshot
<1>4. CASE TidbStartGCSavepointUpdateService
  BY <1>4, IntervalType DEF TidbStartGCSavepointUpdateService
<1>5. CASE SetSessionParam
  BY <1>5 DEF SetSessionParam
<1>6. CASE NewDumperFails \/ DumpReturns
  BY <1>6 DEF NewDumperFails, DumpReturns
<1>12. CASE Close
  BY <1>12 DEF Close
<1>7. CASE CallSucceeds \/ CallFails
  <2>1. roundLost' \in BOOLEAN /\ tickReady' \in BOOLEAN
    BY <1>7, Zenon DEF CallSucceeds, CallFails
  <2>2. lease' \in Int
    BY <1>7 DEF CallSucceeds, CallFails, Renew
  <2> QED
    BY <1>7, <2>1, <2>2 DEF CallSucceeds, CallFails
<1>8. CASE WakeUp \/ NextRound \/ Stop
  <2>1. roundLost' \in BOOLEAN /\ tickReady' \in BOOLEAN
    BY <1>8, Zenon DEF WakeUp, NextRound, Stop
  <2>2. retryCnt' \in 0 .. Retries
    BY <1>8 DEF WakeUp, NextRound, Stop
  <2> QED
    BY <1>8, <2>1, <2>2 DEF WakeUp, NextRound, Stop
<1>9. CASE Tick
  <2>1. tickReady' \in BOOLEAN
    BY <1>9, Zenon DEF Tick
  <2>2. tickAt' \in Nat
    BY <1>9, IntervalType DEF Tick
  <2> QED
    BY <1>9, <2>1, <2>2 DEF Tick
<1>10. CASE CollectGarbage
  BY <1>10 DEF CollectGarbage
<1>11. CASE UNCHANGED vars
  BY <1>11 DEF vars
<1> QED
  BY <1>1, <1>2, <1>3, <1>4, <1>5, <1>6, <1>7, <1>8, <1>9, <1>10, <1>11, <1>12
  DEF Next, NewDumper, UpdateServiceSafePoint

-----------------------------------------------------------------------------
(* The inductive invariant.                                                *)

\* NewDumper: the clock of the steps, what they have set up, and that nothing but the life
\* time protects the snapshot before the first renewal
StepInv ==
    /\ pc \in {"resolve", "pdClient", "getSnapshot"} => now = 0 /\ session = NoTS
    /\ pc \in {"resolve", "pdClient", "getSnapshot", "startService"} =>
           now <= StartTime /\ svc = "off"
    /\ svc = "off" => lease = NoTS
    /\ svc # "off" => snapshot # NoTS
    /\ svc = "ended" => closed
    /\ pc \in {"session", "dump"} /\ pdClient => svc # "off"
    /\ snapshot # NoTS => StartTime + Round - snapshot <= GCLife
    /\ lease = NoTS => gc <= now - GCLife
    /\ session \in {NoTS, snapshot}

\* the next tick is ahead, by an interval at most
TickInv == svc # "off" => now < tickAt /\ tickAt <= now + Interval

\* what is left of the round ends before the deadline, and so does the next round
RoundInv ==
    svc \notin {"off", "ended"} /\ ~roundLost =>
        /\ gc <= snapshot
        /\ svc = "call" => now <= since + CallTime /\ since + Left(retryCnt) <= Deadline
        /\ svc = "sleep" => /\ retryCnt < Retries
                            /\ now <= since + 1
                            /\ since + 1 + Left(retryCnt + 1) <= Deadline
        /\ svc = "tick" => /\ lease # NoTS
                           /\ (IF tickReady THEN now ELSE tickAt) + Round <= lease

Inv == TypeOK /\ StepInv /\ TickInv /\ RoundInv

LEMMA InvInit == Init => Inv
<1> SUFFICES ASSUME Init PROVE Inv
  OBVIOUS
<1>1. TypeOK
  BY TypeInit
<1>2. StepInv
  BY IntervalType DEF Init, StepInv, Configurations
<1>3. TickInv /\ RoundInv
  BY DEF Init, TickInv, RoundInv
<1> QED
  BY <1>1, <1>2, <1>3 DEF Inv

LEMMA StepInvStep == Inv /\ [Next]_vars => StepInv'
<1> SUFFICES ASSUME Inv, [Next]_vars PROVE StepInv'
  OBVIOUS
<1> USE IntervalType DEF Inv, TypeOK, StepInv, startVars, svcVars, pdVars
<1>1. CASE ResolveAutoConsistency \/ TidbSetPDClientForGC
  BY <1>1, Zenon DEF ResolveAutoConsistency, TidbSetPDClientForGC
<1>2. CASE TidbGetSnapshot
  <2>1. /\ pc = "getSnapshot" /\ pc' = "startService" /\ now' = now /\ session' = session
        /\ svc' = svc /\ closed' = closed /\ lease' = lease /\ gc' = gc
    BY <1>2 DEF TidbGetSnapshot
  <2>2. snapshot' = now \/ snapshot' = NoTS \/ snapshot' = snapshot
    BY <1>2 DEF TidbGetSnapshot
  <2>3. session = NoTS /\ now = 0 /\ svc = "off"
    BY <2>1
  <2> QED
    BY <2>1, <2>2, <2>3
<1>3. CASE TidbStartGCSavepointUpdateService
  BY <1>3 DEF TidbStartGCSavepointUpdateService
<1>4. CASE SetSessionParam
  BY <1>4 DEF SetSessionParam
<1>5. CASE NewDumperFails \/ DumpReturns \/ Close
  BY <1>5 DEF NewDumperFails, DumpReturns, Close
<1>6. CASE CallSucceeds \/ CallFails
  <2>1. lease' # lease => lease' # NoTS
    BY <1>6 DEF CallSucceeds, CallFails, Renew
  <2> QED
    BY <1>6, <2>1 DEF CallSucceeds, CallFails
<1>7. CASE WakeUp \/ NextRound
  BY <1>7 DEF WakeUp, NextRound
<1>11. CASE Stop
  BY <1>11 DEF Stop
<1>8. CASE Tick
  BY <1>8 DEF Tick
<1>9. CASE CollectGarbage
  BY <1>9 DEF CollectGarbage
<1>10. CASE UNCHANGED vars
  BY <1>10 DEF vars
<1> QED
  BY <1>1, <1>2, <1>3, <1>4, <1>5, <1>6, <1>7, <1>8, <1>9, <1>10, <1>11, Zenon
  DEF Next, NewDumper, UpdateServiceSafePoint

LEMMA TickInvStep == Inv /\ [Next]_vars => TickInv'
<1> SUFFICES ASSUME Inv, [Next]_vars PROVE TickInv'
  OBVIOUS
<1> USE IntervalType DEF Inv, TypeOK, TickInv, startVars, svcVars, pdVars
<1>1. CASE TidbStartGCSavepointUpdateService
  BY <1>1 DEF TidbStartGCSavepointUpdateService
<1>2. CASE Tick
  BY <1>2 DEF Tick
<1>3. CASE ResolveAutoConsistency \/ TidbSetPDClientForGC \/ TidbGetSnapshot
           \/ SetSessionParam \/ NewDumperFails \/ DumpReturns \/ Close
  BY <1>3, Zenon DEF ResolveAutoConsistency, TidbSetPDClientForGC, TidbGetSnapshot,
              SetSessionParam, NewDumperFails, DumpReturns, Close
<1>4. CASE UpdateServiceSafePoint
  BY <1>4 DEF UpdateServiceSafePoint, CallSucceeds, CallFails, WakeUp, NextRound, Stop
<1>5. CASE CollectGarbage \/ UNCHANGED vars
  BY <1>5 DEF CollectGarbage, vars
<1> QED
  BY <1>1, <1>2, <1>3, <1>4, <1>5 DEF Next, NewDumper

LEMMA RoundInvStep == Inv /\ [Next]_vars => RoundInv'
<1> SUFFICES ASSUME Inv, [Next]_vars, svc' \notin {"off", "ended"}, ~roundLost'
             PROVE /\ gc' <= snapshot'
                   /\ svc' = "call" => now' <= since' + CallTime
                                       /\ since' + Left(retryCnt') <= Deadline'
                   /\ svc' = "sleep" => /\ retryCnt' < Retries
                                        /\ now' <= since' + 1
                                        /\ since' + 1 + Left(retryCnt' + 1) <= Deadline'
                   /\ svc' = "tick" => /\ lease' # NoTS
                                       /\ (IF tickReady' THEN now' ELSE tickAt') + Round
                                            <= lease'
  BY DEF RoundInv
<1> USE DEF startVars, svcVars, pdVars
<1>t. TypeOK /\ Deadline \in Int
  BY IntervalType DEF Inv, TypeOK, Deadline
<1>0. CASE UNCHANGED <<svc, since, retryCnt, now, tickAt, tickReady, lease, snapshot, gc,
                       roundLost>>
  BY <1>0 DEF Inv, RoundInv, Deadline
<1>1. CASE ResolveAutoConsistency \/ TidbSetPDClientForGC \/ SetSessionParam
           \/ NewDumperFails \/ DumpReturns \/ Close
  BY <1>0, <1>1, Zenon DEF ResolveAutoConsistency, TidbSetPDClientForGC, SetSessionParam,
                    NewDumperFails, DumpReturns, Close
<1>2. CASE TidbGetSnapshot
  BY <1>2 DEF TidbGetSnapshot, Inv, StepInv
<1>3. CASE TidbStartGCSavepointUpdateService
  <2>1. /\ svc = "off" /\ pdClient /\ svc' = "call" /\ since' = now /\ now' = now
        /\ retryCnt' = 0 /\ lease' = lease /\ gc' = gc /\ snapshot' = snapshot
        /\ snapshot # NoTS
    BY <1>3 DEF TidbStartGCSavepointUpdateService, Inv, StepInv
  <2>2. lease = NoTS /\ now <= StartTime /\ gc <= now - GCLife
        /\ StartTime + Round - snapshot <= GCLife
    BY <1>3, <2>1 DEF TidbStartGCSavepointUpdateService, Inv, StepInv
  <2>3. Deadline' = StartTime + Round
    BY <2>1, <2>2 DEF Deadline
  <2> QED
    BY <2>1, <2>2, <2>3, <1>t, LeftAtStart, IntervalType DEF TypeOK
<1>4. CASE CallSucceeds
  <2>1. /\ svc = "call" /\ svc' = "tick" /\ now' = now /\ gc' = gc /\ snapshot' = snapshot
        /\ tickAt' = tickAt /\ tickReady' = tickReady /\ ~roundLost
    BY <1>4 DEF CallSucceeds
  <2>2. gc <= snapshot /\ tickAt <= now + Interval
    BY <2>1 DEF Inv, RoundInv, TickInv
  <2>3. lease' = now + TTL
    BY <1>4, <2>2 DEF CallSucceeds, Renew
  <2> QED
    BY <2>1, <2>2, <2>3, <1>t, IntervalType DEF TypeOK
<1>5. CASE CallFails
  <2>1. /\ svc = "call" /\ svc' = "sleep" /\ now' = now /\ since' = now /\ gc' = gc
        /\ snapshot' = snapshot /\ retryCnt' = retryCnt /\ ~roundLost /\ retryCnt # Retries
    BY <1>5, Zenon DEF CallFails
  <2>2. gc <= snapshot /\ now <= since + CallTime /\ since + Left(retryCnt) <= Deadline
    BY <2>1 DEF Inv, RoundInv
  <2>3. /\ retryCnt < Retries /\ retryCnt + 1 \in 0 .. Retries
        /\ Left(retryCnt) = CallTime + 1 + Left(retryCnt + 1)
        /\ Left(retryCnt + 1) \in Nat /\ Left(retryCnt) <= Round
    BY <2>1, <1>t, LeftNext, LeftType, LeftBounded DEF TypeOK
  <2>4. now + 1 + Left(retryCnt + 1) <= Deadline
    BY <2>2, <2>3, <1>t DEF TypeOK
  <2>5. CASE lease' = lease
    <3>1. Deadline' = Deadline
      BY <2>5 DEF Deadline
    <3> QED
      BY <2>1, <2>2, <2>3, <2>4, <3>1, <1>t DEF TypeOK
  <2>6. CASE lease' = now + TTL
    <3>1. Deadline' = now + TTL
      BY <2>6, <1>t DEF Deadline, TypeOK
    <3>2. now + 1 + Left(retryCnt + 1) <= now + TTL
      BY <2>3, <1>t, IntervalType DEF TypeOK
    <3> QED
      BY <2>1, <2>2, <2>3, <3>1, <3>2, <1>t DEF TypeOK
  <2> QED
    BY <1>5, <2>5, <2>6 DEF CallFails, Renew
<1>6. CASE WakeUp
  <2>1. /\ svc = "sleep" /\ now = since + 1 /\ since' = now /\ now' = now /\ gc' = gc
        /\ snapshot' = snapshot /\ lease' = lease /\ ~roundLost
    BY <1>6 DEF WakeUp
  <2>2. /\ gc <= snapshot /\ retryCnt < Retries
        /\ since + 1 + Left(retryCnt + 1) <= Deadline
    BY <2>1 DEF Inv, RoundInv
  <2>3. svc' = "call" /\ retryCnt' = retryCnt + 1
    BY <1>6, <2>2 DEF WakeUp
  <2>4. Deadline' = Deadline
    BY <2>1 DEF Deadline
  <2> QED
    BY <2>1, <2>2, <2>3, <2>4, <1>t DEF TypeOK
<1>7. CASE NextRound
  <2>1. /\ svc = "tick" /\ tickReady /\ svc' = "call" /\ since' = now /\ now' = now
        /\ retryCnt' = 0 /\ gc' = gc /\ snapshot' = snapshot /\ lease' = lease /\ ~roundLost
    BY <1>7 DEF NextRound
  <2>2. gc <= snapshot /\ lease # NoTS /\ now + Round <= lease
    BY <2>1 DEF Inv, RoundInv
  <2>3. Deadline' = lease
    BY <2>1, <2>2 DEF Deadline
  <2> QED
    BY <2>1, <2>2, <2>3, <1>t, LeftAtStart DEF TypeOK
<1>8. CASE Stop
  BY <1>8 DEF Stop
<1>9. CASE Tick
  <2>1. /\ svc' = svc /\ since' = since /\ retryCnt' = retryCnt /\ gc' = gc /\ lease' = lease
        /\ snapshot' = snapshot /\ now' = now + 1 /\ ~roundLost
        /\ svc = "call" => now < since + CallTime
        /\ svc = "sleep" => now < since + 1
        /\ svc = "tick" => ~tickReady
    BY <1>9 DEF Tick
  <2>2. Deadline' = Deadline
    BY <2>1 DEF Deadline
  <2>3. gc <= snapshot
    BY <2>1 DEF Inv, RoundInv
  <2>4. CASE svc = "call"
    <3>1. since + Left(retryCnt) <= Deadline
      BY <2>1, <2>4 DEF Inv, RoundInv
    <3> QED
      BY <2>1, <2>2, <2>3, <2>4, <3>1, <1>t DEF TypeOK
  <2>5. CASE svc = "sleep"
    <3>1. retryCnt < Retries /\ since + 1 + Left(retryCnt + 1) <= Deadline
      BY <2>1, <2>5 DEF Inv, RoundInv
    <3> QED
      BY <2>1, <2>2, <2>3, <2>5, <3>1, <1>t DEF TypeOK
  <2>6. CASE svc = "tick"
    <3>1. lease # NoTS /\ tickAt + Round <= lease
      BY <2>1, <2>6 DEF Inv, RoundInv
    <3>2. tickReady' => now' = tickAt
      BY <1>9, <2>1, <2>6, Zenon DEF Tick
    <3>3. ~tickReady' => tickAt' = tickAt
      BY <1>9, <2>1, <2>6 DEF Tick
    <3> QED
      BY <2>1, <2>3, <2>6, <3>1, <3>2, <3>3
  <2> QED
    BY <2>1, <2>4, <2>5, <2>6, <1>t DEF TypeOK
<1>10. CASE CollectGarbage
  <2>1. /\ svc' = svc /\ since' = since /\ retryCnt' = retryCnt /\ lease' = lease
        /\ snapshot' = snapshot /\ now' = now /\ tickReady' = tickReady /\ tickAt' = tickAt
        /\ ~roundLost
    BY <1>10 DEF CollectGarbage
  <2>2. Deadline' = Deadline
    BY <2>1 DEF Deadline
  <2>3. now <= Deadline
    <3>1. CASE svc = "call"
      BY <3>1, <2>1, <1>t, LeftType DEF Inv, RoundInv, TypeOK
    <3>2. CASE svc = "sleep"
      <4>1. Left(retryCnt + 1) \in Nat
        BY <3>2, <2>1, <1>t, LeftType DEF Inv, RoundInv, TypeOK
      <4> QED
        BY <3>2, <4>1, <2>1, <1>t DEF Inv, RoundInv, TypeOK
    <3>3. CASE svc = "tick"
      <4>1. lease # NoTS /\ (IF tickReady THEN now ELSE tickAt) + Round <= lease
            /\ now < tickAt
        BY <3>3, <2>1 DEF Inv, RoundInv, TickInv
      <4> QED
        BY <4>1, <1>t, IntervalType DEF TypeOK, Deadline
    <3> QED
      BY <2>1, <3>1, <3>2, <3>3, <1>t DEF TypeOK
  <2>4. gc' <= snapshot
    <3>1. snapshot # NoTS /\ StartTime + Round - snapshot <= GCLife
      BY <2>1 DEF Inv, StepInv
    <3>2. CASE lease = NoTS
      BY <1>10, <2>3, <3>1, <3>2, <1>t, IntervalType DEF CollectGarbage, Deadline, TypeOK
    <3>3. CASE lease # NoTS
      BY <1>10, <2>3, <3>3, <1>t DEF CollectGarbage, Deadline, TypeOK
    <3> QED
      BY <3>2, <3>3
  <2> QED
    BY <2>1, <2>2, <2>4 DEF Inv, RoundInv
<1>11. CASE UNCHANGED vars
  BY <1>0, <1>11 DEF vars
<1> QED
  BY <1>1, <1>2, <1>3, <1>4, <1>5, <1>6, <1>7, <1>8, <1>9, <1>10, <1>11
  DEF Next, NewDumper, UpdateServiceSafePoint

LEMMA InvStep == Inv /\ [Next]_vars => Inv'
  BY TypeStep, StepInvStep, TickInvStep, RoundInvStep DEF Inv

LEMMA InvHolds == Spec => []Inv
  BY InvInit, InvStep, PTL DEF Spec

-----------------------------------------------------------------------------

\* for every TTL, number of retries and duration of a call that fit into each other as
\* ServiceAssumption says, updateServiceSafePoint renews the service safe point before PD
\* drops it, unless a whole round of its calls fails
THEOREM LeaseNeverLapses == Spec => []LeaseUnbroken
<1>1. Inv => LeaseUnbroken
  <2> SUFFICES ASSUME Inv, lease # NoTS, svc # "ended", ~roundLost PROVE now <= lease
    BY DEF LeaseUnbroken
  <2>1. TypeOK /\ Deadline = lease /\ svc # "off"
    BY DEF Inv, StepInv, Deadline
  <2>2. CASE svc = "call"
    BY <2>1, <2>2, LeftType DEF Inv, RoundInv, TypeOK
  <2>3. CASE svc = "sleep"
    <3>1. Left(retryCnt + 1) \in Nat
      BY <2>1, <2>3, LeftType DEF Inv, RoundInv, TypeOK
    <3> QED
      BY <2>1, <2>3, <3>1 DEF Inv, RoundInv, TypeOK
  <2>4. CASE svc = "tick"
    <3>1. (IF tickReady THEN now ELSE tickAt) + Round <= lease /\ now < tickAt
      BY <2>4 DEF Inv, RoundInv, TickInv
    <3> QED
      BY <2>1, <3>1, IntervalType DEF TypeOK
  <2> QED
    BY <2>1, <2>2, <2>3, <2>4 DEF TypeOK
<1> QED
  BY <1>1, InvHolds, PTL

\* while a dump with a PD client runs, TiDB collects nothing its sessions may read, for
\* every life time that covers the start of the service and one round of its calls
THEOREM SnapshotStaysReadable == Spec => []SnapshotReadable
<1>1. Inv => SnapshotReadable
  <2> SUFFICES ASSUME Inv, pc = "dump", pdClient, ~closed, ~roundLost
               PROVE ReadTS # NoTS /\ gc <= ReadTS
    BY DEF SnapshotReadable
  <2>1. svc \notin {"off", "ended"} /\ snapshot # NoTS /\ session \in {NoTS, snapshot}
    BY DEF Inv, StepInv
  <2>2. gc <= snapshot
    BY <2>1 DEF Inv, RoundInv
  <2> QED
    BY <2>1, <2>2 DEF ReadTS
<1> QED
  BY <1>1, InvHolds, PTL

=============================================================================
