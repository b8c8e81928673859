-------------------------- MODULE ConcatTaskProofs --------------------------
(***************************************************************************)
(* Proofs about TiDBChunks and ConcatTask, for any table: any number of    *)
(* columns of the row key, of partitions and of regions, any answers of a  *)
(* TiDB 3.x about them, any capacity of tableChan.                         *)
(***************************************************************************)
EXTENDS ConcatTask, TLAPS

-----------------------------------------------------------------------------
(* Sequences.                                                              *)

LEMMA EmptySeqType ==
  ASSUME NEW A
  PROVE  <<>> \in Seq(A)
  OBVIOUS

LEMMA LenType ==
  ASSUME NEW A, NEW s \in Seq(A)
  PROVE  Len(s) \in Nat /\ (Len(s) = 0 <=> s = <<>>)
  OBVIOUS

LEMMA SeqOfFunction ==
  ASSUME NEW A, NEW n \in Nat, NEW f \in [1 .. n -> A]
  PROVE  f \in Seq(A) /\ Len(f) = n
  OBVIOUS

LEMMA AppendMeans ==
  ASSUME NEW A, NEW s \in Seq(A), NEW x \in A
  PROVE  /\ Append(s, x) \in Seq(A) /\ Len(Append(s, x)) = Len(s) + 1
         /\ \A n \in 1 .. Len(s) : Append(s, x)[n] = s[n]
         /\ Append(s, x)[Len(s) + 1] = x
  OBVIOUS

LEMMA TailMeans ==
  ASSUME NEW A, NEW s \in Seq(A), s # <<>>
  PROVE  /\ Head(s) \in A /\ Tail(s) \in Seq(A) /\ Len(Tail(s)) = Len(s) - 1
         /\ \A n \in 1 .. Len(s) - 1 : Tail(s)[n] = s[n + 1]
  OBVIOUS

LEMMA ConcatMeans ==
  ASSUME NEW A, NEW s \in Seq(A), NEW t \in Seq(A)
  PROVE  /\ s \o t \in Seq(A) /\ Len(s \o t) = Len(s) + Len(t)
         /\ \A n \in 1 .. Len(s) + Len(t) :
              (s \o t)[n] = IF n <= Len(s) THEN s[n] ELSE t[n - Len(s)]
  OBVIOUS

LEMMA ConcatEmpty ==
  ASSUME NEW A, NEW s \in Seq(A)
  PROVE  s \o <<>> = s
  OBVIOUS

LEMMA ExceptMeans ==
  ASSUME NEW A, NEW s \in Seq(A), NEW n \in 1 .. Len(s), NEW x \in A
  PROVE  [s EXCEPT ![n] = x] \in Seq(A) /\ Len([s EXCEPT ![n] = x]) = Len(s)
  OBVIOUS

-----------------------------------------------------------------------------
(* buildConcatTask runs concurrentDumpTable as it is.                      *)

LEMMA ConcatStep == [ConcatNext]_allVars => [Next]_vars
<1> SUFFICES ASSUME [ConcatNext]_allVars PROVE [Next]_vars
  OBVIOUS
<1>1. CASE Caller
  BY <1>1 DEF Caller, Renew, DumpTableData, SplitReturns, HandleSubTask, TakeErr,
     BuildConcatTask, SendResult, Next, vars
<1>2. CASE Splitter
  BY <1>2 DEF Splitter, AdjustRows, Split, Send, RestoreRows, SignalErr, Next, vars
<1>3. CASE UNCHANGED allVars
  BY <1>3 DEF allVars
<1> QED BY <1>1, <1>2, <1>3 DEF ConcatNext, Returned

(* ConcatSpec composes the actions of Spec: what is invariant under those is      *)
(* invariant here.                                                                 *)
LEMMA ConcatSplits == ConcatSpec => Spec
<1>1. ConcatInit => Init
  BY DEF ConcatInit
<1> QED BY <1>1, ConcatStep, PTL DEF ConcatSpec, Spec

-----------------------------------------------------------------------------
(* conf.Rows.                                                              *)

LEMMA SuitableRowsPositive ==
  ASSUME NEW avg \in RowLengths
  PROVE  GetSuitableRows(avg) \in Nat /\ GetSuitableRows(avg) > 0
<1>1. /\ avg \in Nat /\ avg <= BytesPerFile
      /\ BytesPerFile \in Nat /\ DefaultRows \in Nat \ {0} /\ MaxRows \in Nat \ {0}
  BY ConcatAssumption
<1>2. CASE avg = 0
  BY <1>1, <1>2 DEF GetSuitableRows
<1>3. CASE avg # 0
  <2> DEFINE q == BytesPerFile \div avg
  <2>1. q \in Nat /\ q > 0
    BY <1>1, <1>3
  <2> HIDE DEF q
  <2>2. \E x \in {q, MaxRows} : \A y \in {q, MaxRows} : x <= y
    BY <1>1, <2>1
  <2>3. Min({q, MaxRows}) \in {q, MaxRows}
    BY <2>2 DEF Min
  <2>4. GetSuitableRows(avg) = Min({q, MaxRows})
    BY <1>3 DEF GetSuitableRows, q
  <2> QED BY <1>1, <2>1, <2>3, <2>4
<1> QED BY <1>2, <1>3

(* conf.Rows is what --rows says unless the goroutine runs, which tells the caller *)
(* of its end only after it has put the value back.                                *)
RowsInv ==
  /\ conf.rows \in Nat
  /\ splitter \in {"off", "start", "restored", "ended"} => confRows = conf.rows
  /\ splitter = "run" => confRows \in Nat /\ confRows > 0
  /\ caller = "start" => splitter = "off"
  /\ caller = "split" => splitter = "run" /\ confRows = conf.rows
  /\ caller \in {"select", "drain", "send"} => conf.rows = UnspecifiedSize
  /\ caller \in {"drain", "send", "returned"} => splitter = "ended"
  /\ errCh # "open" => splitter = "ended"
  /\ caller \in {"start", "split", "select", "drain", "send", "returned"}
  /\ splitter \in {"off", "start", "run", "restored", "ended"}
  /\ splitter = "run" => caller \in {"split", "select"}
  /\ splitter \in {"start", "restored"} => caller = "select"

LEMMA RowsInvInit == ConcatInit => RowsInv
  BY ConcatAssumption DEF ConcatInit, Init, RowsInv

LEMMA ConfStable == [Next]_vars => conf' = conf
  BY DEF Next, LoadRegions, LoadRegionsFails, ReadBound, BoundsRead, SendClause,
     NextPartition, Fails, Terminated, vars

LEMMA RowsInvStep == RowsInv /\ [ConcatNext]_allVars => RowsInv'
<1> SUFFICES ASSUME RowsInv, [ConcatNext]_allVars PROVE RowsInv'
  OBVIOUS
<1> USE DEF RowsInv, UnspecifiedSize
<1>0. conf' = conf
  BY ConcatStep, ConfStable
<1>1. CASE Renew
  BY <1>0, <1>1 DEF Renew, concatVars
<1>2. CASE DumpTableData
  BY <1>0, <1>2 DEF DumpTableData
<1>3. CASE SplitReturns
  BY <1>0, <1>3 DEF SplitReturns
<1>4. CASE HandleSubTask
  BY <1>0, <1>4 DEF HandleSubTask
<1>5. CASE TakeErr
  BY <1>0, <1>5 DEF TakeErr
<1>6. CASE BuildConcatTask
  BY <1>0, <1>6 DEF BuildConcatTask
<1>7. CASE SendResult
  BY <1>0, <1>7 DEF SendResult
<1>8. CASE AdjustRows
  BY <1>0, <1>8, SuitableRowsPositive DEF AdjustRows
<1>9. CASE Split
  BY <1>0, <1>9 DEF Split, concatVars
<1>10. CASE Send
  BY <1>0, <1>10 DEF Send
<1>11. CASE RestoreRows
  BY <1>0, <1>11 DEF RestoreRows
<1>12. CASE SignalErr
  BY <1>0, <1>12 DEF SignalErr
<1>13. CASE UNCHANGED allVars
  BY <1>0, <1>13 DEF allVars, concatVars
<1> QED BY <1>1, <1>2, <1>3, <1>4, <1>5, <1>6, <1>7, <1>8, <1>9, <1>10, <1>11, <1>12, <1>13, Zenon
        DEF ConcatNext, Caller, Splitter, Returned

(* When dumpTableData returns, conf.Rows is what --rows says, and while                *)
(* concurrentDumpTable runs it is a number one can divide by (dump.go:347, dump.go:495), *)
(* for every length of rows that a server may tell.                                    *)
THEOREM RowsAreRestored == ConcatSpec => []RowsRestored
<1>1. RowsInv => RowsRestored
  BY DEF RowsInv, RowsRestored
<1> QED BY <1>1, RowsInvInit, RowsInvStep, PTL DEF ConcatSpec

-----------------------------------------------------------------------------
(* What the two goroutines wait for.                                       *)

(* The goroutine of buildConcatTask is started after the regions were asked for, and *)
(* when it is gone errCh tells.                                                      *)
WaitInv ==
  /\ splitter # "off" => pc # "regions"
  /\ splitter = "off" => caller = "start"
  /\ splitter = "ended" /\ caller = "select" => errCh # "open"

LEMMA WaitInvInit == ConcatInit => WaitInv
  BY DEF ConcatInit, WaitInv

LEMMA WaitInvStep == RowsInv /\ WaitInv /\ [ConcatNext]_allVars => WaitInv'
<1> SUFFICES ASSUME RowsInv, WaitInv, [ConcatNext]_allVars PROVE WaitInv'
  OBVIOUS
<1> USE DEF WaitInv
<1>1. CASE Renew
  BY <1>1 DEF Renew, LoadRegions, LoadRegionsFails, concatVars
<1>2. CASE DumpTableData
  BY <1>2 DEF DumpTableData, vars
<1>3. CASE SplitReturns
  BY <1>3 DEF SplitReturns, vars
<1>4. CASE HandleSubTask
  BY <1>4 DEF HandleSubTask, vars
<1>5. CASE TakeErr
  BY <1>5 DEF RowsInv, TakeErr, vars
<1>6. CASE BuildConcatTask
  BY <1>6 DEF RowsInv, BuildConcatTask, vars
<1>7. CASE SendResult
  BY <1>7 DEF RowsInv, SendResult, vars
<1>8. CASE AdjustRows
  BY <1>8 DEF AdjustRows, vars
<1>9. CASE Split
  BY <1>9 DEF Split, ReadBound, BoundsRead, NextPartition, Fails, concatVars
<1>10. CASE Send
  BY <1>10 DEF Send, SendClause
<1>11. CASE RestoreRows
  BY <1>11 DEF RestoreRows, vars
<1>12. CASE SignalErr
  BY <1>12 DEF SignalErr, vars
<1>13. CASE UNCHANGED allVars
  BY <1>13 DEF allVars, concatVars, vars
<1> QED BY <1>1, <1>2, <1>3, <1>4, <1>5, <1>6, <1>7, <1>8, <1>9, <1>10, <1>11, <1>12, <1>13, Zenon
        DEF ConcatNext, Caller, Splitter, Returned

-----------------------------------------------------------------------------
(* The order of row keys.                                                  *)

LEMMA KeyWeights ==
  ASSUME conf \in Configs
  PROVE  /\ NCols \in Nat /\ NCols > 0 /\ NParts \in Nat /\ NParts > 0
         /\ \A k \in Keys : \A x \in Cols : Weight[k[x]] \in Nat
<1>1. /\ conf.cols \in Nat \ {0} /\ conf.parts \in Nat \ {0}
      /\ \A t \in DOMAIN conf.weight : conf.weight[t] \in Nat
  BY ConfigsAssumption, Zenon
<1>2. ASSUME NEW k \in Keys, NEW x \in Cols PROVE Weight[k[x]] \in Nat
  <2>1. k[x] \in DOMAIN Weight
    BY DEF Keys
  <2> QED BY <1>1, <2>1 DEF Weight
<1> QED BY <1>1, <1>2 DEF NCols, NParts

(* k is before b in the order of the columns from f on. *)
LexLess(f, k, b) ==
  \E c \in f .. NCols : (\A x \in f .. c - 1 : Eq(k[x], b[x])) /\ Lt(k[c], b[c])

LEMMA LexUnfold ==
  ASSUME conf \in Configs, NEW f \in Cols, NEW k \in Keys, NEW b \in Keys
  PROVE  LexLess(f, k, b) <=> \/ Lt(k[f], b[f])
                              \/ Eq(k[f], b[f]) /\ f < NCols /\ LexLess(f + 1, k, b)
<1>1. NCols \in Nat /\ f \in 1 .. NCols
  BY KeyWeights DEF Cols
<1>2. ASSUME Lt(k[f], b[f]) PROVE LexLess(f, k, b)
  BY <1>1, <1>2 DEF LexLess
<1>3. ASSUME Eq(k[f], b[f]), f < NCols, LexLess(f + 1, k, b) PROVE LexLess(f, k, b)
  <2>1. PICK c \in f + 1 .. NCols : (\A x \in f + 1 .. c - 1 : Eq(k[x], b[x])) /\ Lt(k[c], b[c])
    BY <1>3 DEF LexLess
  <2>2. \A x \in f .. c - 1 : Eq(k[x], b[x])
    BY <1>1, <1>3, <2>1
  <2> QED BY <1>1, <2>1, <2>2 DEF LexLess
<1>4. ASSUME LexLess(f, k, b), ~Lt(k[f], b[f])
      PROVE  Eq(k[f], b[f]) /\ f < NCols /\ LexLess(f + 1, k, b)
  <2>1. PICK c \in f .. NCols : (\A x \in f .. c - 1 : Eq(k[x], b[x])) /\ Lt(k[c], b[c])
    BY <1>4 DEF LexLess
  <2>2. c \in f + 1 .. NCols
    BY <1>1, <1>4, <2>1
  <2>3. Eq(k[f], b[f]) /\ f < NCols
    BY <1>1, <2>1, <2>2
  <2>4. \A x \in f + 1 .. c - 1 : Eq(k[x], b[x])
    BY <1>1, <2>1
  <2> QED BY <2>1, <2>2, <2>3, <2>4 DEF LexLess
<1> QED BY <1>2, <1>3, <1>4

LEMMA LexTransitive ==
  ASSUME conf \in Configs, NEW a \in Keys, NEW b \in Keys, NEW d \in Keys,
         LexLess(1, a, b), LexLess(1, b, d)
  PROVE  LexLess(1, a, d)
<1>1. /\ NCols \in Nat
      /\ \A x \in 1 .. NCols : Weight[a[x]] \in Nat /\ Weight[b[x]] \in Nat /\ Weight[d[x]] \in Nat
  BY KeyWeights DEF Cols
<1>2. PICK y \in 1 .. NCols : (\A x \in 1 .. y - 1 : Eq(a[x], b[x])) /\ Lt(a[y], b[y])
  BY DEF LexLess
<1>3. PICK z \in 1 .. NCols : (\A x \in 1 .. z - 1 : Eq(b[x], d[x])) /\ Lt(b[z], d[z])
  BY DEF LexLess
<1>4. CASE y <= z
  <2>1. \A x \in 1 .. y - 1 : Eq(a[x], d[x])
    BY <1>1, <1>2, <1>3, <1>4 DEF Eq
  <2>2. Weight[b[y]] <= Weight[d[y]]
    <3>1. CASE y = z
      BY <1>1, <1>3, <3>1 DEF Lt
    <3>2. CASE y < z
      BY <1>1, <1>3, <3>2 DEF Eq
    <3> QED BY <1>4, <3>1, <3>2
  <2>3. Lt(a[y], d[y])
    BY <1>1, <1>2, <2>2 DEF Lt
  <2> QED BY <2>1, <2>3 DEF LexLess
<1>5. CASE z < y
  <2>1. \A x \in 1 .. z - 1 : Eq(a[x], d[x])
    BY <1>1, <1>2, <1>3, <1>5 DEF Eq
  <2>2. Lt(a[z], d[z])
    BY <1>1, <1>2, <1>3, <1>5 DEF Eq, Lt
  <2> QED BY <2>1, <2>2 DEF LexLess
<1> QED BY <1>4, <1>5

LEMMA BeforeIsLex ==
  ASSUME conf \in Configs, NEW a \in Keys, NEW b \in Keys
  PROVE  Before(a, b) <=> LexLess(1, a, b)
<1>1. \A c : AllEqual(1, c - 1, b) \cap {a} # {} <=> \A x \in 1 .. c - 1 : Eq(a[x], b[x])
  BY DEF AllEqual
<1> QED BY <1>1, Zenon DEF Before, LexLess, Cols

Sorted(vals) ==
  \A x, y \in 1 .. Len(vals) : x < y => vals[x] = vals[y] \/ LexLess(1, vals[x], vals[y])

-----------------------------------------------------------------------------
(* The meaning of a clause does not change while the table is dumped.      *)

LEMMA OrderStable ==
  ASSUME conf' = conf
  PROVE  /\ NCols' = NCols /\ NParts' = NParts /\ Weight' = Weight /\ ConfWhere' = ConfWhere
         /\ Cols' = Cols /\ Keys' = Keys /\ Parts' = Parts /\ Wanted' = Wanted
         /\ \A f, k, b : LexLess(f, k, b)' <=> LexLess(f, k, b)
<1>1. /\ NCols' = NCols /\ NParts' = NParts /\ Weight' = Weight /\ ConfWhere' = ConfWhere
      /\ Cols' = Cols /\ Keys' = Keys /\ Parts' = Parts
  BY DEF NCols, NParts, Weight, ConfWhere, Cols, Keys, Parts
<1>2. \A f, k, b : LexLess(f, k, b)' <=> LexLess(f, k, b)
  BY <1>1 DEF LexLess, Eq, Lt
<1> QED BY <1>1, <1>2 DEF Wanted, Selected

LEMMA CompareStable ==
  ASSUME conf' = conf, NEW f, NEW b, NEW compare, NEW we
  PROVE  CompareClause(f, b, compare, we)' = CompareClause(f, b, compare, we)
<1>1. /\ NCols' = NCols
      /\ \A c : Less(c, b)' = Less(c, b) /\ Greater(c, b)' = Greater(c, b)
      /\ \A c, d : AllEqual(c, d, b)' = AllEqual(c, d, b)
  BY OrderStable DEF Less, Greater, AllEqual, Lt, Gt, Eq
<1> QED BY <1>1 DEF CompareClause

LEMMA BetweenStable ==
  ASSUME conf' = conf, NEW low, NEW up
  PROVE  BetweenClause(low, up)' = BetweenClause(low, up)
<1>1. /\ NCols' = NCols
      /\ \A c : Less(c, up)' = Less(c, up) /\ Greater(c, low)' = Greater(c, low)
      /\ \A c, d : AllEqual(c, d, low)' = AllEqual(c, d, low)
      /\ \A c, d : AllEqual(c, d, up)' = AllEqual(c, d, up)
  BY OrderStable DEF Less, Greater, AllEqual, Lt, Gt, Eq
<1>2. \A f, b, compare, we :
        Selected(CompareClause(f, b, compare, we))' = Selected(CompareClause(f, b, compare, we))
  BY CompareStable DEF Selected
<1>3. \A f : RestBetween(f, low, up)' = RestBetween(f, low, up)
  BY <1>1, <1>2, Zenon DEF RestBetween
<1>4. CommonLength(low, up)' = CommonLength(low, up)
  BY <1>1 DEF CommonLength
<1> QED BY <1>1, <1>3, <1>4, Zenon DEF BetweenClause, And, Brackets, Selected

LEMMA WhereClauseStable ==
  ASSUME conf' = conf, NEW vals, NEW n
  PROVE  WhereClause(vals, n)' = WhereClause(vals, n)
  BY CompareStable, BetweenStable, ZenonT(30) DEF WhereClause

LEMMA QueryStable ==
  ASSUME conf' = conf, NEW w
  PROVE  QueryRows(w)' = QueryRows(w)
  BY OrderStable, Zenon DEF QueryRows, WhereCondition, And, Selected

-----------------------------------------------------------------------------
(* The split.  b[p] is the index of the first task of partition p: it has no variable *)
(* of its own, totalChunk meets it while bounds are read and startIdx while tasks are *)
(* sent.                                                                              *)

Clause(p, n) == IF handleVals[p] = <<>> THEN <<>> ELSE WhereClause(handleVals[p], n)

TaskOf(b, p, n) == [index |-> b[p] + n - 1, part |-> p, keys |-> QueryRows(Clause(p, n))]

SplitTypes ==
  /\ conf \in Configs
  /\ pc \in {"regions", "loaded", "bounds", "send", "done", "failed"}
  /\ handleVals \in [Parts -> Seq(Keys)]
  /\ part \in Parts
  /\ startIdx \in Nat /\ totalChunk \in Nat /\ i \in 0 .. Len(handleVals[part]) + 1
  /\ \A t \in sent : t.index \in Nat /\ t.part \in Parts

(* Before the first task. *)
Reading == pc \in {"regions", "loaded", "bounds"}

SortedInv == \A p \in Parts : Sorted(handleVals[p])

IndexInv ==
  /\ \A t \in sent : t.index < startIdx + i
  /\ \A n \in 0 .. startIdx + i - 1 : \E t \in sent : t.index = n
  /\ \A t, u \in sent : t.index = u.index => t = u

NextBase(b, p) == b[p] + Len(handleVals[p]) + 1

BaseInv(b) ==
  /\ b[1] = 0
  /\ Reading =>
       /\ startIdx = 0 /\ i = 0 /\ sent = {} /\ totalChunk = b[part]
       /\ \A p \in 1 .. part - 1 : b[p + 1] = NextBase(b, p)
  /\ pc \in {"send", "done"} =>
       totalChunk = b[NParts + 1] /\ \A p \in Parts : b[p + 1] = NextBase(b, p)
  /\ pc = "send" => startIdx = b[part]
  /\ pc = "done" => startIdx = b[NParts + 1] /\ i = 0

(* Every task is a clause of a partition, and all clauses so far are tasks. *)
TasksInv(b) ==
  /\ \A t \in sent : \E p \in Parts : \E n \in 1 .. Len(handleVals[p]) + 1 : t = TaskOf(b, p, n)
  /\ pc \in {"send", "done"} => \A p \in Parts : \A n \in 1 .. Len(handleVals[p]) + 1 :
       p < part \/ pc = "done" \/ (p = part /\ n <= i) => TaskOf(b, p, n) \in sent

Bases == [1 .. NParts + 1 -> Nat]

SplitInv ==
  SplitTypes /\ SortedInv /\ IndexInv /\ \E b \in Bases : BaseInv(b) /\ TasksInv(b)

LEMMA SplitInvInit == Init => SplitInv
<1> SUFFICES ASSUME Init PROVE SplitInv
  OBVIOUS
<1>1. conf \in Configs
  BY DEF Init
<1>2. 1 \in Parts /\ NParts \in Nat
  BY <1>1, KeyWeights DEF Parts
<1>3. SplitTypes
  <2>1. handleVals \in [Parts -> Seq(Keys)] /\ handleVals[part] = <<>> /\ i = 0
    BY <1>2 DEF Init
  <2>2. Len(handleVals[part]) = 0
    BY <2>1
  <2> QED BY <1>1, <1>2, <2>1, <2>2 DEF Init, SplitTypes
<1>4. SortedInv
  BY DEF Init, SortedInv, Sorted
<1>5. IndexInv
  BY DEF Init, IndexInv
<1>6. \E b \in Bases : BaseInv(b) /\ TasksInv(b)
  <2> DEFINE b == [p \in 1 .. NParts + 1 |-> 0]
  <2>1. b \in Bases /\ b[1] = 0
    BY <1>2 DEF Bases
  <2>2. Reading /\ startIdx = 0 /\ i = 0 /\ sent = {} /\ totalChunk = 0 /\ part = 1
    BY DEF Init, Reading
  <2> HIDE DEF b
  <2>3. BaseInv(b)
    BY <2>1, <2>2 DEF BaseInv, Reading
  <2>4. TasksInv(b)
    BY <2>2 DEF TasksInv, Reading
  <2> QED BY <2>1, <2>3, <2>4
<1> QED BY <1>3, <1>4, <1>5, <1>6 DEF SplitInv

(* What a step that leaves the bounds alone keeps. *)
LEMMA TasksStable ==
  ASSUME conf' = conf, handleVals' = handleVals
  PROVE  /\ Bases' = Bases
         /\ \A b, p : NextBase(b, p)' = NextBase(b, p)
         /\ \A b, p, n : TaskOf(b, p, n)' = TaskOf(b, p, n)
         /\ SortedInv => SortedInv'
<1>1. Bases' = Bases
  BY OrderStable DEF Bases
<1>2. \A b, p : NextBase(b, p)' = NextBase(b, p)
  BY DEF NextBase
<1>3. ASSUME NEW b, NEW p, NEW n PROVE TaskOf(b, p, n)' = TaskOf(b, p, n)
  <2>1. PICK vals : vals = handleVals[p]
    OBVIOUS
  <2> DEFINE w == IF vals = <<>> THEN <<>> ELSE WhereClause(vals, n)
  <2>2. w' = w
    BY WhereClauseStable
  <2>3. Clause(p, n) = w /\ Clause(p, n)' = w'
    BY <2>1 DEF Clause
  <2>4. PICK c : c = w
    OBVIOUS
  <2>5. Clause(p, n) = c /\ Clause(p, n)' = c
    BY <2>2, <2>3, <2>4
  <2>6. QueryRows(c)' = QueryRows(c)
    BY QueryStable
  <2> HIDE DEF w
  <2>7. QueryRows(Clause(p, n))' = QueryRows(Clause(p, n))
    BY <2>5, <2>6
  <2> QED BY <2>7 DEF TaskOf
<1>4. SortedInv => SortedInv'
  BY OrderStable DEF SortedInv, Sorted
<1> QED BY <1>1, <1>2, <1>3, <1>4

LEMMA PartBounds ==
  ASSUME conf \in Configs, NEW p \in Parts
  PROVE  /\ NParts \in Nat /\ p \in Nat /\ p > 0 /\ p <= NParts
         /\ p \in 1 .. NParts + 1 /\ p + 1 \in 1 .. NParts + 1
         /\ p # NParts => p + 1 \in Parts
  BY KeyWeights DEF Parts

(* A bound is read: it is beyond the last one, and so beyond all of them. *)
LEMMA ReadBoundStep ==
  ASSUME SplitInv, ReadBound
  PROVE  SplitInv'
<1>0. /\ conf' = conf /\ pc' = pc /\ part' = part /\ startIdx' = startIdx
      /\ totalChunk' = totalChunk /\ i' = i /\ sent' = sent /\ pc = "bounds"
  BY DEF ReadBound
<1>1. PICK k \in Keys : /\ handleVals[part] # <<>> => Before(handleVals[part][Len(handleVals[part])], k)
                        /\ handleVals' = [handleVals EXCEPT ![part] = Append(@, k)]
  BY Zenon DEF ReadBound
<1>2. /\ SplitTypes /\ SortedInv /\ IndexInv /\ conf \in Configs /\ part \in Parts
      /\ handleVals \in [Parts -> Seq(Keys)]
  BY DEF SplitInv, SplitTypes
<1>3. PICK b \in Bases : BaseInv(b) /\ TasksInv(b)
  BY DEF SplitInv
<1>4. /\ Parts' = Parts /\ Keys' = Keys /\ NParts' = NParts
      /\ \A f, x, y : LexLess(f, x, y)' <=> LexLess(f, x, y)
  BY <1>0, OrderStable
<1> DEFINE vals == handleVals[part]
           new == Append(vals, k)
<1>5. vals \in Seq(Keys) /\ Len(vals) \in Nat
  BY <1>2
<1> HIDE DEF vals
<1>6. /\ new \in Seq(Keys) /\ Len(new) = Len(vals) + 1
      /\ \A x \in 1 .. Len(vals) : new[x] = vals[x]
      /\ new[Len(vals) + 1] = k
  BY <1>5, AppendMeans
<1> HIDE DEF new
<1>7. handleVals' = [handleVals EXCEPT ![part] = new]
  BY <1>1 DEF vals, new
<1>8. /\ handleVals'[part] = new
      /\ \A p \in Parts : p # part => handleVals'[p] = handleVals[p]
      /\ handleVals' \in [Parts -> Seq(Keys)]
  BY <1>2, <1>6, <1>7
<1>9. i = 0
  BY <1>0, <1>3 DEF BaseInv, Reading
<1>10. SplitTypes'
  BY <1>0, <1>2, <1>4, <1>5, <1>6, <1>8, <1>9 DEF SplitTypes
<1>11. Sorted(vals)
  BY <1>2 DEF SortedInv, vals
<1>12. ASSUME NEW x \in 1 .. Len(vals) PROVE LexLess(1, vals[x], k)
  <2>1. vals # <<>> /\ Len(vals) \in 1 .. Len(vals) /\ vals[Len(vals)] \in Keys /\ vals[x] \in Keys
    BY <1>5
  <2>2. Before(vals[Len(vals)], k)
    BY <1>1, <2>1 DEF vals
  <2>3. LexLess(1, vals[Len(vals)], k)
    BY <1>2, <2>1, <2>2, BeforeIsLex
  <2>4. CASE x = Len(vals)
    BY <2>3, <2>4
  <2>5. CASE x < Len(vals)
    <3>1. vals[x] = vals[Len(vals)] \/ LexLess(1, vals[x], vals[Len(vals)])
      BY <1>11, <2>1, <2>5 DEF Sorted
    <3> QED BY <1>2, <2>1, <2>3, <3>1, LexTransitive
  <2> QED BY <1>5, <2>4, <2>5
<1>13. ASSUME NEW x \in 1 .. Len(new), NEW y \in 1 .. Len(new), x < y
       PROVE  new[x] = new[y] \/ LexLess(1, new[x], new[y])
  <2>1. x \in 1 .. Len(vals) /\ new[x] = vals[x]
    BY <1>5, <1>6, <1>13
  <2>2. CASE y = Len(vals) + 1
    BY <1>6, <1>12, <2>1, <2>2
  <2>3. CASE y # Len(vals) + 1
    <3>1. y \in 1 .. Len(vals) /\ new[y] = vals[y]
      BY <1>5, <1>6, <2>3
    <3> QED BY <1>11, <1>13, <2>1, <3>1 DEF Sorted
  <2> QED BY <2>2, <2>3
<1>14. SortedInv'
  <2>1. ASSUME NEW p \in Parts, NEW x \in 1 .. Len(handleVals'[p]),
               NEW y \in 1 .. Len(handleVals'[p]), x < y
        PROVE  \/ handleVals'[p][x] = handleVals'[p][y]
               \/ LexLess(1, handleVals'[p][x], handleVals'[p][y])
    <3>1. CASE p = part
      BY <1>8, <1>13, <2>1, <3>1
    <3>2. CASE p # part
      BY <1>2, <1>8, <2>1, <3>2, Zenon DEF SortedInv, Sorted
    <3> QED BY <3>1, <3>2
  <2> QED BY <1>4, <2>1 DEF SortedInv, Sorted
<1>15. IndexInv'
  BY <1>0, <1>2 DEF IndexInv
<1>16. BaseInv(b)'
  <2>1. \A p \in 1 .. part - 1 : p \in Parts /\ p # part
    BY <1>2, PartBounds DEF Parts
  <2>2. \A p \in 1 .. part - 1 : NextBase(b, p)' = NextBase(b, p)
    BY <1>8, <2>1 DEF NextBase
  <2> QED BY <1>0, <1>3, <2>2, Zenon DEF BaseInv, Reading
<1>17. TasksInv(b)' /\ Bases' = Bases
  <2>1. sent' = {}
    BY <1>0, <1>3 DEF BaseInv, Reading
  <2> QED BY <1>0, <1>4, <2>1 DEF TasksInv, Bases
<1> QED BY <1>3, <1>10, <1>14, <1>15, <1>16, <1>17 DEF SplitInv

(* All bounds of a partition are read: the next one's tasks begin after its clauses. *)
LEMMA BoundsReadStep ==
  ASSUME SplitInv, BoundsRead
  PROVE  SplitInv'
<1>0. /\ conf' = conf /\ startIdx' = startIdx /\ handleVals' = handleVals
      /\ i' = i /\ sent' = sent
      /\ totalChunk' = totalChunk + Len(handleVals[part]) + 1
      /\ part = NParts => pc' = "send" /\ part' = 1
      /\ part # NParts => part' = part + 1 /\ pc' = pc
  BY DEF BoundsRead
<1>1. /\ SplitTypes /\ SortedInv /\ IndexInv /\ conf \in Configs /\ part \in Parts
      /\ handleVals \in [Parts -> Seq(Keys)] /\ pc \in {"bounds", "loaded"}
  BY DEF SplitInv, SplitTypes, BoundsRead
<1>2. PICK b \in Bases : BaseInv(b) /\ TasksInv(b)
  BY DEF SplitInv
<1>3. /\ Parts' = Parts /\ Keys' = Keys /\ NParts' = NParts /\ Bases' = Bases
      /\ \A d, p : NextBase(d, p)' = NextBase(d, p)
      /\ SortedInv'
  BY <1>0, <1>1, OrderStable, TasksStable
<1>4. /\ NParts \in Nat /\ part \in Nat /\ part > 0 /\ part <= NParts
      /\ part \in 1 .. NParts + 1 /\ part + 1 \in 1 .. NParts + 1
      /\ part # NParts => part + 1 \in Parts
      /\ 1 \in Parts
  BY <1>1, PartBounds, KeyWeights DEF Parts
<1>5. /\ startIdx = 0 /\ i = 0 /\ sent = {} /\ totalChunk = b[part] /\ b[1] = 0
      /\ \A p \in 1 .. part - 1 : b[p + 1] = NextBase(b, p)
  BY <1>1, <1>2 DEF BaseInv, Reading
<1>6. \A p \in Parts : Len(handleVals[p]) \in Nat
  BY <1>1
<1>7. b \in [1 .. NParts + 1 -> Nat] /\ NextBase(b, part) \in Nat /\ totalChunk' = NextBase(b, part)
  BY <1>0, <1>1, <1>2, <1>4, <1>5, <1>6, SMTT(30) DEF Bases, NextBase
<1>8. PICK d \in Bases : /\ d[part + 1] = NextBase(b, part)
                        /\ \A p \in 1 .. NParts + 1 : p # part + 1 => d[p] = b[p]
  <2>1. [b EXCEPT ![part + 1] = NextBase(b, part)] \in Bases
    BY <1>4, <1>7 DEF Bases
  <2> QED BY <1>4, <1>7, <2>1, Zenon
<1>9. \A p \in 1 .. part : d[p + 1] = NextBase(d, p)
  <2> SUFFICES ASSUME NEW p \in 1 .. part PROVE d[p + 1] = NextBase(d, p)
    OBVIOUS
  <2>1. d[p] = b[p] /\ p \in 1 .. NParts + 1 /\ p + 1 \in 1 .. NParts + 1
    BY <1>4, <1>8
  <2>2. NextBase(d, p) = NextBase(b, p)
    BY <2>1 DEF NextBase
  <2>3. CASE p = part
    BY <1>8, <2>2, <2>3
  <2>4. CASE p # part
    BY <1>4, <1>5, <1>8, <2>1, <2>2, <2>4
  <2> QED BY <2>3, <2>4
<1>10. d[1] = 0
  BY <1>4, <1>5, <1>8
<1>11. part' \in Parts /\ pc' \in {"bounds", "loaded", "send"}
  BY <1>0, <1>1, <1>4
<1>12. SplitTypes'
  BY <1>0, <1>1, <1>3, <1>5, <1>6, <1>7, <1>11 DEF SplitTypes
<1>13. IndexInv'
  BY <1>0, <1>1 DEF IndexInv
<1>14. BaseInv(d)'
  <2>1. CASE part = NParts
    <3>1. \A p \in Parts : d[p + 1] = NextBase(d, p)
      BY <1>9, <2>1 DEF Parts
    <3> QED BY <1>0, <1>3, <1>5, <1>7, <1>8, <1>10, <2>1, <3>1, Zenon DEF BaseInv, Reading
  <2>2. CASE part # NParts
    <3>1. part' - 1 = part
      BY <1>0, <1>4, <2>2
    <3> QED BY <1>0, <1>1, <1>3, <1>5, <1>7, <1>8, <1>9, <1>10, <2>2, <3>1, Zenon DEF BaseInv, Reading
  <2> QED BY <2>1, <2>2
<1>15. TasksInv(d)'
  <2>1. CASE part = NParts
    <3>1. \A p \in Parts : ~(p < 1)
      BY <1>4 DEF Parts
    <3> QED BY <1>0, <1>3, <1>5, <2>1, <3>1 DEF TasksInv
  <2>2. CASE part # NParts
    BY <1>0, <1>1, <1>5, <2>2 DEF TasksInv
  <2> QED BY <2>1, <2>2
<1> QED BY <1>3, <1>8, <1>12, <1>13, <1>14, <1>15 DEF SplitInv

(* A clause is sent under the next index. *)
LEMMA SendIsNew ==
  ASSUME SplitInv, SendClause, NEW b \in Bases, BaseInv(b)
  PROVE  /\ sent' = sent \cup {TaskOf(b, part, i + 1)}
         /\ TaskOf(b, part, i + 1).index = startIdx + i
         /\ TaskOf(b, part, i + 1) \notin sent
<1>1. /\ startIdx = b[part] /\ startIdx \in Nat /\ i \in Nat
  <2>1. startIdx \in Nat /\ i \in Nat
    BY DEF SplitInv, SplitTypes
  <2> QED BY <2>1, Zenon DEF SendClause, BaseInv
<1>2. sent' = sent \cup {[index |-> startIdx + i, part |-> part,
                         keys |-> QueryRows(Clause(part, i + 1))]}
  BY Zenon DEF SendClause, Task, Clause
<1>3. b[part] + (i + 1) - 1 = startIdx + i
  BY <1>1
<1>4. TaskOf(b, part, i + 1) = [index |-> startIdx + i, part |-> part,
                                keys |-> QueryRows(Clause(part, i + 1))]
  BY <1>3 DEF TaskOf
<1>5. TaskOf(b, part, i + 1).index = startIdx + i
  BY <1>4
<1>6. \A t \in sent : t.index < startIdx + i
  BY DEF SplitInv, IndexInv
<1>7. TaskOf(b, part, i + 1) \notin sent
  BY <1>1, <1>5, <1>6
<1> QED BY <1>2, <1>4, <1>5, <1>7, Zenon

LEMMA SendClauseStep ==
  ASSUME SplitInv, SendClause
  PROVE  SplitInv'
<1>0. /\ conf' = conf /\ startIdx' = startIdx /\ handleVals' = handleVals /\ pc' = pc
      /\ part' = part /\ totalChunk' = totalChunk /\ i' = i + 1
      /\ pc = "send" /\ i <= Len(handleVals[part])
  BY DEF SendClause
<1>1. /\ SplitTypes /\ SortedInv /\ IndexInv /\ conf \in Configs /\ part \in Parts
      /\ handleVals \in [Parts -> Seq(Keys)]
      /\ startIdx \in Nat /\ i \in 0 .. Len(handleVals[part]) + 1
      /\ handleVals[part] \in Seq(Keys)
  BY DEF SplitInv, SplitTypes
<1>2. PICK b \in Bases : BaseInv(b) /\ TasksInv(b)
  BY DEF SplitInv
<1>3. /\ Parts' = Parts /\ Keys' = Keys /\ NParts' = NParts /\ Bases' = Bases
      /\ \A d, p : NextBase(d, p)' = NextBase(d, p)
      /\ \A d, p, n : TaskOf(d, p, n)' = TaskOf(d, p, n)
      /\ SortedInv'
  BY <1>0, <1>1, OrderStable, TasksStable, Zenon
<1>4. Len(handleVals[part]) \in Nat /\ i \in Nat /\ i + 1 \in 1 .. Len(handleVals[part]) + 1
  <2>1. Len(handleVals[part]) \in Nat
    BY <1>1, LenType, Zenon
  <2> QED BY <1>0, <1>1, <2>1
<1>5. PICK t : t = TaskOf(b, part, i + 1)
  OBVIOUS
<1>6. sent' = sent \cup {t} /\ t.index = startIdx + i /\ t \notin sent
  BY <1>2, <1>5, SendIsNew
<1>7. t.part = part
  BY <1>5 DEF TaskOf
<1>8. SplitTypes'
  <2>1. \A u \in sent' : u.index \in Nat /\ u.part \in Parts
    BY <1>1, <1>4, <1>6, <1>7 DEF SplitTypes
  <2>2. i' \in 0 .. Len(handleVals[part]) + 1
    BY <1>0, <1>4
  <2> QED BY <1>0, <1>1, <1>3, <2>1, <2>2, Zenon DEF SplitTypes
<1>9. IndexInv'
  <2>1. \A u \in sent : u.index \in Nat /\ u.index < startIdx + i
    BY <1>1 DEF SplitTypes, IndexInv
  <2>2. startIdx' + i' = (startIdx + i) + 1 /\ startIdx + i \in Nat
    BY <1>0, <1>1, <1>4
  <2>3. \A u \in sent' : u.index < startIdx' + i'
    BY <1>6, <2>1, <2>2
  <2>4. \A n \in 0 .. startIdx' + i' - 1 : \E u \in sent' : u.index = n
    <3> SUFFICES ASSUME NEW n \in 0 .. startIdx' + i' - 1 PROVE \E u \in sent' : u.index = n
      OBVIOUS
    <3>1. n = startIdx + i \/ n \in 0 .. startIdx + i - 1
      <4>1. startIdx \in Nat /\ i \in Nat /\ startIdx' = startIdx /\ i' = i + 1
        BY <1>0, <1>1, <1>4
      <4> QED BY <4>1
    <3>2. CASE n = startIdx + i
      BY <1>6, <3>2
    <3>3. CASE n \in 0 .. startIdx + i - 1
      <4>1. \E u \in sent : u.index = n
        BY <1>1, <3>3, Zenon DEF IndexInv
      <4> QED BY <1>6, <4>1, Zenon
    <3> QED BY <3>1, <3>2, <3>3
  <2>5. \A u, v \in sent' : u.index = v.index => u = v
    BY <1>1, <1>6, <2>1, <2>2 DEF IndexInv
  <2> QED BY <2>3, <2>4, <2>5 DEF IndexInv
<1>10. BaseInv(b)'
  BY <1>0, <1>2, <1>3, Zenon DEF BaseInv, Reading
<1>11. TasksInv(b)'
  <2>1. /\ \A u \in sent : \E p \in Parts : \E n \in 1 .. Len(handleVals[p]) + 1 : u = TaskOf(b, p, n)
        /\ \A p \in Parts : \A n \in 1 .. Len(handleVals[p]) + 1 :
             p < part \/ (p = part /\ n <= i) => TaskOf(b, p, n) \in sent
    BY <1>0, <1>2 DEF TasksInv
  <2>2. \A u \in sent' : \E p \in Parts : \E n \in 1 .. Len(handleVals[p]) + 1 : u = TaskOf(b, p, n)
    BY <1>1, <1>4, <1>5, <1>6, <2>1, Zenon
  <2>3. ASSUME NEW p \in Parts, NEW n \in 1 .. Len(handleVals[p]) + 1,
               p < part \/ (p = part /\ n <= i + 1)
        PROVE  TaskOf(b, p, n) \in sent'
    <3>1. CASE p < part \/ (p = part /\ n <= i)
      BY <1>6, <2>1, <3>1
    <3>2. CASE p = part /\ n = i + 1
      BY <1>5, <1>6, <3>2
    <3>3. p < part \/ (p = part /\ n <= i) \/ (p = part /\ n = i + 1)
      <4>1. n \in Int
        OBVIOUS
      <4> QED BY <1>4, <2>3, <4>1
    <3> QED BY <3>1, <3>2, <3>3
  <2> QED BY <1>0, <1>3, <2>2, <2>3, Zenon DEF TasksInv
<1> QED BY <1>2, <1>3, <1>8, <1>9, <1>10, <1>11 DEF SplitInv

(* All clauses of a partition are sent. *)
LEMMA NextPartitionStep ==
  ASSUME SplitInv, NextPartition
  PROVE  SplitInv'
<1>0. /\ conf' = conf /\ handleVals' = handleVals /\ totalChunk' = totalChunk /\ i' = 0
      /\ sent' = sent /\ pc = "send" /\ i = Len(handleVals[part]) + 1
      /\ startIdx' = startIdx + Len(handleVals[part]) + 1
      /\ part = NParts => pc' = "done" /\ part' = part
      /\ part # NParts => part' = part + 1 /\ pc' = pc
  BY DEF NextPartition
<1>1. /\ SplitTypes /\ SortedInv /\ IndexInv /\ conf \in Configs /\ part \in Parts
      /\ handleVals \in [Parts -> Seq(Keys)] /\ startIdx \in Nat
  BY DEF SplitInv, SplitTypes
<1>2. PICK b \in Bases : BaseInv(b) /\ TasksInv(b)
  BY DEF SplitInv
<1>3. /\ Parts' = Parts /\ Keys' = Keys /\ NParts' = NParts /\ Bases' = Bases
      /\ \A d, p : NextBase(d, p)' = NextBase(d, p)
      /\ \A d, p, n : TaskOf(d, p, n)' = TaskOf(d, p, n)
      /\ SortedInv'
  BY <1>0, <1>1, OrderStable, TasksStable, Zenon
<1>4. /\ NParts \in Nat /\ part \in Nat /\ part > 0 /\ part <= NParts
      /\ part # NParts => part + 1 \in Parts
  BY <1>1, PartBounds
<1>5. \A p \in Parts : Len(handleVals[p]) \in Nat
  BY <1>1
<1>6. part' \in Parts /\ pc' \in {"send", "done"}
  BY <1>0, <1>1, <1>4
<1>7. startIdx' \in Nat /\ startIdx' + i' = startIdx + i
  BY <1>0, <1>1, <1>5
<1>8. SplitTypes'
  <2>1. i' \in 0 .. Len(handleVals[part']) + 1
    BY <1>0, <1>5, <1>6
  <2> QED BY <1>0, <1>1, <1>3, <1>6, <1>7, <2>1, Zenon DEF SplitTypes
<1>9. IndexInv'
  BY <1>0, <1>1, <1>7 DEF IndexInv
<1>10. BaseInv(b)'
  <2>1. /\ b[1] = 0 /\ totalChunk = b[NParts + 1] /\ startIdx = b[part]
        /\ \A p \in Parts : b[p + 1] = NextBase(b, p)
    BY <1>0, <1>2, Zenon DEF BaseInv
  <2>2. startIdx' = b[part + 1]
    BY <1>0, <1>1, <2>1 DEF NextBase
  <2>3. CASE part = NParts
    BY <1>0, <1>3, <2>1, <2>2, <2>3, Zenon DEF BaseInv, Reading
  <2>4. CASE part # NParts
    BY <1>0, <1>3, <2>1, <2>2, <2>4, Zenon DEF BaseInv, Reading
  <2> QED BY <2>3, <2>4
<1>11. TasksInv(b)'
  <2>1. /\ \A u \in sent : \E p \in Parts : \E n \in 1 .. Len(handleVals[p]) + 1 : u = TaskOf(b, p, n)
        /\ \A p \in Parts : \A n \in 1 .. Len(handleVals[p]) + 1 :
             p < part \/ (p = part /\ n <= i) => TaskOf(b, p, n) \in sent
    BY <1>0, <1>2 DEF TasksInv
  <2>2. \A p \in Parts : p \in Nat /\ p <= NParts
    BY <1>4 DEF Parts
  <2>3. ASSUME NEW p \in Parts, NEW n \in 1 .. Len(handleVals[p]) + 1,
               p < part' \/ pc' = "done" \/ (p = part' /\ n <= i')
        PROVE  TaskOf(b, p, n) \in sent
    <3>1. n \in Nat /\ n > 0
      OBVIOUS
    <3>2. ~(n <= i')
      BY <1>0, <3>1
    <3>3. p <= part
      BY <1>0, <1>4, <2>2, <2>3, <3>2
    <3>4. p = part => n <= i
      BY <1>0, <1>5
    <3> QED BY <1>4, <2>1, <2>2, <3>3, <3>4
  <2> QED BY <1>0, <1>3, <2>1, <2>3, Zenon DEF TasksInv
<1> QED BY <1>2, <1>3, <1>8, <1>9, <1>10, <1>11 DEF SplitInv

-----------------------------------------------------------------------------
(* The tasks on their way from the split to the concatenated task.         *)

Numbered(s, from) == \A n \in 1 .. Len(s) : s[n].index = from + n - 1

LEMMA SeqGrows ==
  ASSUME NEW A, NEW B, A \subseteq B, NEW s \in Seq(A)
  PROVE  s \in Seq(B)
  OBVIOUS

LEMMA AppendNumbered ==
  ASSUME NEW A, NEW s \in Seq(A), NEW x \in A, NEW from \in Nat, Numbered(s, from),
         x.index = from + Len(s)
  PROVE  /\ Append(s, x) \in Seq(A) /\ Len(Append(s, x)) = Len(s) + 1
         /\ Numbered(Append(s, x), from)
<1>1. /\ Append(s, x) \in Seq(A) /\ Len(Append(s, x)) = Len(s) + 1 /\ Len(s) \in Nat
      /\ \A n \in 1 .. Len(s) : Append(s, x)[n] = s[n]
      /\ Append(s, x)[Len(s) + 1] = x
  BY AppendMeans
<1>2. \A n \in 1 .. Len(s) + 1 : Append(s, x)[n].index = from + n - 1
  <2> SUFFICES ASSUME NEW n \in 1 .. Len(s) + 1 PROVE Append(s, x)[n].index = from + n - 1
    OBVIOUS
  <2>1. CASE n = Len(s) + 1
    BY <1>1, <2>1
  <2>2. CASE n \in 1 .. Len(s)
    BY <1>1, <2>2 DEF Numbered
  <2>3. n = Len(s) + 1 \/ n \in 1 .. Len(s)
    BY <1>1
  <2> QED BY <2>1, <2>2, <2>3
<1> QED BY <1>1, <1>2, Zenon DEF Numbered

LEMMA TailNumbered ==
  ASSUME NEW A, NEW s \in Seq(A), s # <<>>, NEW from \in Nat, Numbered(s, from)
  PROVE  /\ Head(s) \in A /\ Head(s).index = from
         /\ Tail(s) \in Seq(A) /\ Len(Tail(s)) = Len(s) - 1 /\ Len(s) \in Nat /\ Len(s) > 0
         /\ Numbered(Tail(s), from + 1)
<1>1. Len(s) \in Nat /\ Len(s) > 0 /\ Head(s) = s[1] /\ s[1] \in A
  OBVIOUS
<1>2. /\ Tail(s) \in Seq(A) /\ Len(Tail(s)) = Len(s) - 1
      /\ \A n \in 1 .. Len(s) - 1 : Tail(s)[n] = s[n + 1]
  BY TailMeans
<1>3. s[1].index = from
  BY <1>1 DEF Numbered
<1>4. \A n \in 1 .. Len(s) - 1 : Tail(s)[n].index = from + 1 + n - 1
  <2> SUFFICES ASSUME NEW n \in 1 .. Len(s) - 1 PROVE Tail(s)[n].index = from + 1 + n - 1
    OBVIOUS
  <2>1. Tail(s)[n] = s[n + 1]
    BY <1>2
  <2>2. n + 1 \in 1 .. Len(s) /\ n \in Nat
    BY <1>1
  <2> QED BY <2>1, <2>2 DEF Numbered
<1> QED BY <1>1, <1>2, <1>3, <1>4 DEF Numbered

QueueSeqs ==
  tableDataArr \in Seq(sent) /\ tableChan \in Seq(sent) /\ Len(tableChan) <= Cap

(* Where the caller and the goroutine stand. *)
CallerInv ==
  /\ errCh \in {"open", "err", "closed"}
  /\ result \in {"none", "chunks", "concat", "whole", "error"}
  /\ caller = "start" => tableDataArr = <<>> /\ tableChan = <<>>
  /\ splitter \in {"off", "start"} => Reading
  /\ result # "none" => caller \in {"send", "returned"}
  /\ errCh = "closed" => pc = "done"
  /\ caller = "drain" => errCh = "closed"
  /\ caller = "send" \/ result = "concat" => pc = "done" /\ tableChan = <<>>

(* Collected tasks, then waiting ones, are all that were sent, by their indexes. *)
InOrder ==
  /\ Len(tableDataArr) + Len(tableChan) = startIdx + i
  /\ Numbered(tableDataArr, 0) /\ Numbered(tableChan, Len(tableDataArr))

Collecting == caller \in {"select", "drain", "send"} \/ result = "concat"

QueueInv == QueueSeqs /\ CallerInv /\ (Collecting => InOrder)

LEMMA QueueInvInit == ConcatInit => QueueInv
<1> SUFFICES ASSUME ConcatInit PROVE QueueInv
  OBVIOUS
<1>1. QueueSeqs
  <2>1. tableDataArr = <<>> /\ tableChan = <<>>
    BY DEF ConcatInit
  <2>2. Len(tableChan) <= Cap
    BY <2>1, ConcatAssumption
  <2> QED BY <2>1, <2>2, EmptySeqType, Zenon DEF QueueSeqs
<1>2. CallerInv
  BY Zenon DEF ConcatInit, Init, CallerInv, Reading
<1>3. ~Collecting
  BY DEF ConcatInit, Collecting
<1> QED BY <1>1, <1>2, <1>3 DEF QueueInv

(* A step that neither sends nor collects. *)
LEMMA QueueQuiet ==
  ASSUME QueueSeqs, UNCHANGED <<tableDataArr, tableChan, sent>>, startIdx' + i' = startIdx + i
  PROVE  QueueSeqs' /\ (InOrder => InOrder')
  BY DEF QueueSeqs, InOrder, Numbered

(* handleSubTask moves the oldest waiting task. *)
LEMMA HandleSubTaskKeeps ==
  ASSUME QueueSeqs, InOrder, HandleSubTask
  PROVE  QueueSeqs' /\ InOrder'
<1>0. /\ tableDataArr' = Append(tableDataArr, Head(tableChan)) /\ tableChan' = Tail(tableChan)
      /\ sent' = sent /\ startIdx' = startIdx /\ i' = i /\ tableChan # <<>>
  BY DEF HandleSubTask, vars
<1>1. /\ tableDataArr \in Seq(sent) /\ tableChan \in Seq(sent) /\ Len(tableChan) <= Cap
      /\ Len(tableDataArr) \in Nat
  BY DEF QueueSeqs
<1>2. /\ Head(tableChan) \in sent /\ Head(tableChan).index = Len(tableDataArr)
      /\ Tail(tableChan) \in Seq(sent) /\ Len(Tail(tableChan)) = Len(tableChan) - 1
      /\ Len(tableChan) \in Nat /\ Len(tableChan) > 0
      /\ Numbered(Tail(tableChan), Len(tableDataArr) + 1)
  BY <1>0, <1>1, TailNumbered, Zenon DEF InOrder
<1>3. Head(tableChan).index = 0 + Len(tableDataArr)
  BY <1>1, <1>2
<1>4. /\ Append(tableDataArr, Head(tableChan)) \in Seq(sent)
      /\ Len(Append(tableDataArr, Head(tableChan))) = Len(tableDataArr) + 1
      /\ Numbered(Append(tableDataArr, Head(tableChan)), 0)
  <2>1. 0 \in Nat
    OBVIOUS
  <2> QED BY <1>1, <1>2, <1>3, <2>1, AppendNumbered, Zenon DEF InOrder
<1>5. Len(tableDataArr') = Len(tableDataArr) + 1 /\ Len(tableChan') = Len(tableChan) - 1
  BY <1>0, <1>2, <1>4, Zenon
<1>6. Len(tableDataArr') + Len(tableChan') = startIdx' + i'
  BY <1>0, <1>1, <1>2, <1>5 DEF InOrder
<1>7. Len(tableChan') <= Cap
  BY <1>1, <1>2, <1>5, ConcatAssumption
<1>8. Numbered(tableDataArr', 0) /\ Numbered(tableChan', Len(tableDataArr'))
  BY <1>0, <1>2, <1>4, <1>5, Zenon
<1>9. (Numbered(tableDataArr, 0))' /\ (Numbered(tableChan, Len(tableDataArr)))'
  BY <1>8 DEF Numbered
<1>10. tableDataArr' \in Seq(sent') /\ tableChan' \in Seq(sent')
  BY <1>0, <1>2, <1>4, Zenon
<1> QED BY <1>6, <1>7, <1>9, <1>10 DEF QueueSeqs, InOrder

(* The goroutine sends a task where there is room. *)
LEMMA SendKeeps ==
  ASSUME SplitInv, QueueSeqs, Send
  PROVE  QueueSeqs' /\ (caller # "split" /\ InOrder => InOrder')
<1>0. /\ SendClause /\ tableDataArr' = tableDataArr /\ startIdx' = startIdx /\ i' = i + 1
      /\ caller = "split" => tableChan' = tableChan
      /\ caller # "split" =>
           /\ Len(tableChan) < Cap
           /\ tableChan' = Append(tableChan, CHOOSE t \in sent' : t \notin sent)
  BY Zenon DEF Send, SendClause
<1>1. PICK b \in Bases : BaseInv(b)
  BY DEF SplitInv
<1>2. PICK t : t = TaskOf(b, part, i + 1)
  OBVIOUS
<1>3. sent' = sent \cup {t} /\ t.index = startIdx + i /\ t \notin sent
  BY <1>0, <1>1, <1>2, SendIsNew, Zenon
<1>4. (CHOOSE u \in sent' : u \notin sent) = t
  BY <1>3
<1>5. tableDataArr \in Seq(sent') /\ tableChan \in Seq(sent')
  BY <1>3, SeqGrows DEF QueueSeqs
<1>6. CASE caller = "split"
  BY <1>0, <1>5, <1>6 DEF QueueSeqs
<1>7. CASE caller # "split"
  <2>1. /\ tableChan' = Append(tableChan, t) /\ t \in sent'
    BY <1>0, <1>3, <1>4, <1>7
  <2>2. tableChan' \in Seq(sent') /\ Len(tableChan') = Len(tableChan) + 1
    BY <1>5, <2>1, AppendMeans, Zenon
  <2>3. Len(tableChan) \in Nat /\ Len(tableDataArr) \in Nat
    BY DEF QueueSeqs
  <2>4. QueueSeqs'
    <3>1. Len(tableChan') <= Cap
      BY <1>0, <1>7, <2>2, <2>3, ConcatAssumption
    <3> QED BY <1>0, <1>5, <2>2, <3>1 DEF QueueSeqs
  <2>5. ASSUME InOrder PROVE InOrder'
    <3>1. startIdx \in Nat /\ i \in Nat
      BY DEF SplitInv, SplitTypes
    <3>2. /\ Len(tableDataArr) + Len(tableChan) = startIdx + i
          /\ Numbered(tableDataArr, 0) /\ Numbered(tableChan, Len(tableDataArr))
      BY <2>5 DEF InOrder
    <3>3. t.index = Len(tableDataArr) + Len(tableChan)
      BY <1>3, <3>2
    <3>4. Numbered(Append(tableChan, t), Len(tableDataArr))
      BY <1>5, <2>1, <2>3, <3>2, <3>3, AppendNumbered, Zenon
    <3>5. (Numbered(tableDataArr, 0))' /\ (Numbered(tableChan, Len(tableDataArr)))'
      BY <1>0, <2>1, <3>2, <3>4, Zenon DEF Numbered
    <3>6. Len(tableDataArr') + Len(tableChan') = startIdx' + i'
      BY <1>0, <2>2, <2>3, <3>1, <3>2
    <3> QED BY <3>5, <3>6 DEF InOrder
  <2> QED BY <2>4, <2>5
<1> QED BY <1>6, <1>7

(* The steps of concurrentDumpTable that send nothing. *)
LEMMA SplitKeeps ==
  ASSUME SplitInv, ReadBound \/ BoundsRead \/ NextPartition \/ Fails
  PROVE  sent' = sent /\ startIdx' + i' = startIdx + i
<1>1. CASE NextPartition
  <2>1. /\ startIdx \in Nat /\ Len(handleVals[part]) \in Nat
    BY DEF SplitInv, SplitTypes
  <2>2. /\ i = Len(handleVals[part]) + 1 /\ i' = 0 /\ sent' = sent
        /\ startIdx' = startIdx + Len(handleVals[part]) + 1
    BY <1>1, Zenon DEF NextPartition
  <2> QED BY <2>1, <2>2
<1>2. CASE ReadBound \/ BoundsRead \/ Fails
  BY <1>2, Zenon DEF ReadBound, BoundsRead, Fails
<1> QED BY <1>1, <1>2

LEMMA CallerInvStep ==
  ASSUME RowsInv, CallerInv, [ConcatNext]_allVars
  PROVE  CallerInv'
<1> USE DEF RowsInv, CallerInv, Reading
<1>1. CASE Renew
  BY <1>1, Zenon DEF Renew, LoadRegions, LoadRegionsFails, concatVars
<1>2. CASE DumpTableData
  BY <1>2, Zenon DEF DumpTableData, vars
<1>3. CASE SplitReturns
  BY <1>3, Zenon DEF SplitReturns, vars
<1>4. CASE HandleSubTask
  BY <1>4, Zenon DEF HandleSubTask, vars
<1>5. CASE TakeErr
  BY <1>5, Zenon DEF TakeErr, vars
<1>6. CASE BuildConcatTask
  <2>1. result' \in {"concat", "whole"}
    BY <1>6 DEF BuildConcatTask
  <2>2. /\ caller = "drain" /\ tableChan = <<>> /\ caller' = "send"
        /\ UNCHANGED <<pc, splitter, tableChan, errCh, tableDataArr>>
    BY <1>6, Zenon DEF BuildConcatTask, vars
  <2> QED BY <2>1, <2>2, Zenon
<1>7. CASE SendResult
  BY <1>7, Zenon DEF SendResult, vars
<1>8. CASE AdjustRows
  BY <1>8, Zenon DEF AdjustRows, vars
<1>9. CASE Split
  <2>1. pc # "done" /\ splitter = "run" /\ UNCHANGED concatVars
    BY <1>9, Zenon DEF Split, ReadBound, BoundsRead, NextPartition, Fails
  <2> QED BY <2>1, Zenon DEF concatVars
<1>10. CASE Send
  <2>1. /\ splitter = "run" /\ pc = "send" /\ pc' = pc
        /\ UNCHANGED <<caller, splitter, errCh, tableDataArr, result>>
    BY <1>10, Zenon DEF Send, SendClause
  <2> QED BY <2>1, Zenon
<1>11. CASE RestoreRows
  BY <1>11, Zenon DEF RestoreRows, vars
<1>12. CASE SignalErr
  BY <1>12, Zenon DEF SignalErr, vars
<1>13. CASE UNCHANGED allVars
  BY <1>13 DEF allVars, concatVars, vars
<1> QED BY <1>1, <1>2, <1>3, <1>4, <1>5, <1>6, <1>7, <1>8, <1>9, <1>10, <1>11, <1>12, <1>13, Zenon
        DEF ConcatNext, Caller, Splitter, Returned

LEMMA QueueInvStep ==
  ASSUME SplitInv, RowsInv, QueueInv, [ConcatNext]_allVars
  PROVE  QueueInv'
<1>0. QueueSeqs /\ CallerInv /\ (Collecting => InOrder) /\ CallerInv'
  BY CallerInvStep DEF QueueInv
<1> DEFINE Quiet == /\ UNCHANGED <<tableDataArr, tableChan, sent>>
                    /\ startIdx' + i' = startIdx + i
<1>1. ASSUME Quiet, Collecting' => Collecting
      PROVE  QueueInv'
  BY <1>0, <1>1, QueueQuiet DEF QueueInv
<1>2. CASE Renew
  <2>1. Quiet /\ caller' = caller /\ result' = result
    BY <1>2, Zenon DEF Renew, LoadRegions, LoadRegionsFails, concatVars
  <2> QED BY <1>1, <2>1 DEF Collecting
<1>3. CASE DumpTableData
  <2>1. Quiet
    BY <1>3, Zenon DEF DumpTableData, vars
  <2>2. InOrder
    <3>1. /\ tableDataArr = <<>> /\ tableChan = <<>> /\ Reading
      BY <1>0, <1>3, Zenon DEF DumpTableData, CallerInv, RowsInv
    <3>2. startIdx = 0 /\ i = 0
      BY <3>1, Zenon DEF SplitInv, BaseInv
    <3> QED BY <3>1, <3>2 DEF InOrder, Numbered
  <2> QED BY <1>0, <2>1, <2>2, QueueQuiet DEF QueueInv
<1>4. CASE SplitReturns
  <2>1. Quiet /\ ~Collecting'
    BY <1>4 DEF SplitReturns, vars, Collecting
  <2> QED BY <1>1, <2>1
<1>5. CASE HandleSubTask
  BY <1>0, <1>5, HandleSubTaskKeeps, Zenon DEF QueueInv, Collecting, HandleSubTask
<1>6. CASE TakeErr
  <2>1. Quiet /\ Collecting
    BY <1>6 DEF TakeErr, vars, Collecting
  <2> QED BY <1>1, <2>1
<1>7. CASE BuildConcatTask
  <2>1. Quiet /\ Collecting
    BY <1>7 DEF BuildConcatTask, vars, Collecting
  <2> QED BY <1>1, <2>1
<1>8. CASE SendResult
  <2>1. Quiet /\ Collecting
    BY <1>8 DEF SendResult, vars, Collecting
  <2> QED BY <1>1, <2>1
<1>9. CASE AdjustRows \/ RestoreRows \/ SignalErr
  <2>1. Quiet /\ caller' = caller /\ result' = result
    BY <1>9, Zenon DEF AdjustRows, RestoreRows, SignalErr, vars
  <2> QED BY <1>1, <2>1 DEF Collecting
<1>10. CASE Split
  <2>1. Quiet /\ caller' = caller /\ result' = result
    BY <1>10, SplitKeeps DEF Split, concatVars
  <2> QED BY <1>1, <2>1 DEF Collecting
<1>11. CASE Send
  <2>1. caller' = caller /\ result' = result /\ splitter = "run"
    BY <1>11 DEF Send
  <2>2. Collecting' => Collecting /\ caller # "split"
    BY <1>0, <2>1, Zenon DEF Collecting, CallerInv
  <2> QED BY <1>0, <1>11, <2>2, SendKeeps DEF QueueInv
<1>12. CASE UNCHANGED allVars
  <2>1. Quiet /\ caller' = caller /\ result' = result
    BY <1>12, Zenon DEF allVars, concatVars, vars
  <2> QED BY <1>1, <2>1 DEF Collecting
<1> QED BY <1>2, <1>3, <1>4, <1>5, <1>6, <1>7, <1>8, <1>9, <1>10, <1>11, <1>12
        DEF ConcatNext, Caller, Splitter, Returned

-----------------------------------------------------------------------------
(* Sets of numbers.                                                        *)

INSTANCE WellFoundedInduction

LEMMA Smallest ==
  ASSUME NEW T \in SUBSET Nat, T # {}
  PROVE  \E x \in T : \A y \in T : x <= y
<1>1. PICK x \in T : \A y \in T : ~(<<y, x>> \in OpToRel(<, Nat))
  BY WFMin, NatLessThanWellFounded, Zenon
<1>2. ASSUME NEW y \in T PROVE ~(y < x)
  BY <1>1, Zenon DEF OpToRel
<1> QED BY <1>2

LEMMA Largest ==
  ASSUME NEW n \in Nat, NEW T \in SUBSET (0 .. n), T # {}
  PROVE  \E x \in T : \A y \in T : y <= x
<1> DEFINE D == {d \in Nat : n - d \in T}
<1>1. D # {}
  <2>1. PICK x \in T : TRUE
    BY Zenon
  <2>2. n - x \in Nat /\ n - (n - x) = x
    OBVIOUS
  <2> QED BY <2>1, <2>2, Zenon
<1>2. PICK d \in D : \A e \in D : d <= e
  <2> HIDE DEF D
  <2>1. D \in SUBSET Nat
    BY DEF D
  <2> QED BY <1>1, <2>1, Smallest
<1>3. ASSUME NEW y \in T PROVE y <= n - d
  <2>1. y \in 0 .. n
    OBVIOUS
  <2>2. n - y \in Nat /\ n - (n - y) = y
    BY <2>1
  <2>3. n - y \in D
    BY <2>2
  <2>4. d <= n - y
    BY <1>2, <2>3
  <2> QED BY <2>1, <2>4
<1> QED BY <1>3

(* Max of FiniteSetsExt, for a set of indexes. *)
LEMMA MaxIsMember ==
  ASSUME NEW n \in Nat, NEW T \in SUBSET (1 .. n), T # {}
  PROVE  Max(T) \in T
<1>1. \E x \in T : \A y \in T : x >= y
  <2>1. T \in SUBSET (0 .. n)
    BY SMT
  <2>2. PICK x \in T : \A y \in T : y <= x
    BY <2>1, Largest, Zenon
  <2>3. ASSUME NEW y \in T PROVE x >= y
    BY <2>2
  <2> QED BY <2>3
<1> QED BY <1>1, Zenon DEF Max

-----------------------------------------------------------------------------
(* The answers of a TiDB 3.x.                                              *)

LEMMA ListDomain ==
  ASSUME NEW s, s \in Seq(Range(s))
  PROVE  Len(s) \in Nat /\ DOMAIN s = 1 .. Len(s) /\ \A n \in 1 .. Len(s) : s[n] \in Range(s)
  BY DEF Range

(* SHOW STATS_HISTOGRAMS gives partition q with this stamp. *)
ShownWith(info, stamp, q) ==
  \E r \in Range(info.shown) : /\ r.stamp = stamp /\ r.partition # NoPartition
                               /\ q = [table |-> r.table, partition |-> r.partition]

LEMMA SavedMeans ==
  ASSUME NEW info, Answer(info), NEW stamp, NEW q \in SavedPartition(info, stamp)
  PROVE  ShownWith(info, stamp, q)
<1> DEFINE at == {n \in DOMAIN info.shown :
                   /\ info.shown[n].stamp = stamp
                   /\ info.shown[n].partition # NoPartition
                   /\ info.shown[n].table \in DOMAIN info.ids}
<1>1. /\ Len(info.shown) \in Nat /\ DOMAIN info.shown = 1 .. Len(info.shown)
      /\ \A n \in 1 .. Len(info.shown) : info.shown[n] \in Range(info.shown)
  BY ListDomain, Zenon DEF Answer
<1>2. PICK n \in IF at = {} THEN {} ELSE {Max(at)} :
        q = [table |-> info.shown[n].table, partition |-> info.shown[n].partition]
  BY Zenon DEF SavedPartition
<1>3. n \in at
  <2>1. at \in SUBSET (1 .. Len(info.shown))
    BY <1>1, Zenon
  <2>2. at # {} /\ n = Max(at)
    BY <1>2, Zenon
  <2> HIDE DEF at
  <2> QED BY <1>1, <2>1, <2>2, MaxIsMember, Zenon
<1> QED BY <1>1, <1>2, <1>3, Zenon DEF ShownWith

LEMMA SavedExists ==
  ASSUME NEW info, NEW stamp, NEW r \in Range(info.shown),
         r.stamp = stamp, r.partition # NoPartition, r.table \in DOMAIN info.ids
  PROVE  SavedPartition(info, stamp) # {}
<1> DEFINE at == {n \in DOMAIN info.shown :
                   /\ info.shown[n].stamp = stamp
                   /\ info.shown[n].partition # NoPartition
                   /\ info.shown[n].table \in DOMAIN info.ids}
<1>1. PICK n \in DOMAIN info.shown : info.shown[n] = r
  BY DEF Range
<1>2. at # {}
  BY <1>1, Zenon
<1> QED BY <1>2, Zenon DEF SavedPartition

LEMMA PartitionIDMeans ==
  ASSUME NEW info, Answer(info), NEW q, NEW id \in PartitionIDs(info, q)
  PROVE  \E n \in 1 .. Len(info.stats) :
           id = info.stats[n].id /\ q \in SavedPartition(info, info.stats[n].stamp)
<1> DEFINE at == {n \in DOMAIN info.stats : q \in SavedPartition(info, info.stats[n].stamp)}
<1>1. Len(info.stats) \in Nat /\ DOMAIN info.stats = 1 .. Len(info.stats)
  BY ListDomain, Zenon DEF Answer
<1>2. PICK n \in IF at = {} THEN {} ELSE {Max(at)} : id = info.stats[n].id
  BY Zenon DEF PartitionIDs
<1>3. n \in at
  <2>1. at \in SUBSET (1 .. Len(info.stats))
    BY <1>1, Zenon
  <2>2. at # {} /\ n = Max(at)
    BY <1>2, Zenon
  <2> HIDE DEF at
  <2> QED BY <1>1, <2>1, <2>2, MaxIsMember, Zenon
<1> QED BY <1>1, <1>2, <1>3, Zenon

(* When the stamps tell partitions apart the identifiers of the table are found. *)
LEMMA OwnIDsFound ==
  ASSUME NEW info, Answer(info), Accurate(info), NEW t \in DOMAIN info.ids
  PROVE  OwnIDs(info, t) \subseteq TableIDs(info, t)
<1> DEFINE Saved == UNION {SavedPartition(info, info.stats[n].stamp) : n \in DOMAIN info.stats}
           parts == {q \in Saved : q.table = t}
<1>1. TableIDs(info, t) = IF parts = {} THEN {info.ids[t]}
                          ELSE UNION {PartitionIDs(info, q) : q \in parts}
  BY Zenon DEF TableIDs
<1>2. ASSUME NEW q \in parts
      PROVE  \E p \in info.own : p.table = t /\ p.partition = q.partition
  <2>1. PICK n \in DOMAIN info.stats : q \in SavedPartition(info, info.stats[n].stamp)
    OBVIOUS
  <2>2. PICK r \in Range(info.shown) :
          r.partition # NoPartition /\ q = [table |-> r.table, partition |-> r.partition]
    <3>1. ShownWith(info, info.stats[n].stamp, q)
      BY <2>1, SavedMeans, Zenon
    <3> QED BY <3>1, Zenon DEF ShownWith
  <2> QED BY <2>2, Zenon DEF Answer
<1>3. CASE {p \in info.own : p.table = t} = {}
  BY <1>1, <1>2, <1>3, Zenon DEF OwnIDs
<1>4. CASE {p \in info.own : p.table = t} # {}
  <2> SUFFICES ASSUME NEW p \in info.own, p.table = t PROVE p.id \in TableIDs(info, t)
    BY <1>4, Zenon DEF OwnIDs
  <2> DEFINE q == [table |-> t, partition |-> p.partition]
  <2>1. PICK s \in DOMAIN info.stats : info.stats[s].stamp = p.stamp /\ info.stats[s].id = p.id
    <3>1. PICK x \in Range(info.stats) : x.stamp = p.stamp /\ x.id = p.id
      BY Zenon DEF Accurate
    <3> QED BY <3>1, Zenon DEF Range
  <2>2. SavedPartition(info, p.stamp) # {}
    <3>1. PICK r \in Range(info.shown) :
            r.stamp = p.stamp /\ r.table = p.table /\ r.partition = p.partition
      BY Zenon DEF Accurate
    <3>2. p.partition # NoPartition
      BY Zenon DEF Answer
    <3> QED BY <3>1, <3>2, SavedExists, Zenon
  <2>3. q \in SavedPartition(info, p.stamp)
    <3>1. PICK x \in SavedPartition(info, p.stamp) : TRUE
      BY <2>2, Zenon
    <3>2. PICK r \in Range(info.shown) :
            r.stamp = p.stamp /\ x = [table |-> r.table, partition |-> r.partition]
      <4>1. ShownWith(info, p.stamp, x)
        BY SavedMeans, Zenon
      <4> QED BY <4>1, Zenon DEF ShownWith
    <3>3. r.table = t /\ r.partition = p.partition
      BY <3>2, Zenon DEF Accurate
    <3>4. x = q
      BY <3>2, <3>3, Zenon
    <3> QED BY <3>1, <3>4, Zenon
  <2>4. q \in parts
    <3>1. q.table = t
      BY Zenon
    <3> QED BY <2>1, <2>3, <3>1, Zenon
  <2>5. PartitionIDs(info, q) # {}
    BY <2>1, <2>3, Zenon DEF PartitionIDs
  <2>6. PICK id \in PartitionIDs(info, q) : TRUE
    BY <2>5, Zenon
  <2>7. PICK n \in 1 .. Len(info.stats) :
          id = info.stats[n].id /\ q \in SavedPartition(info, info.stats[n].stamp)
    BY PartitionIDMeans, Zenon
  <2>8. PICK r \in Range(info.shown) :
          /\ r.stamp = info.stats[n].stamp /\ r.partition # NoPartition
          /\ q = [table |-> r.table, partition |-> r.partition]
    <3>1. ShownWith(info, info.stats[n].stamp, q)
      BY <2>7, SavedMeans, Zenon
    <3> QED BY <3>1, Zenon DEF ShownWith
  <2>9. PICK o \in info.own :
          r.table = o.table /\ r.partition = o.partition /\ r.stamp = o.stamp
    BY <2>8, Zenon DEF Answer
  <2>10. id = o.id
    <3>1. info.stats[n] \in Range(info.stats)
      BY ListDomain, Zenon DEF Answer
    <3>2. info.stats[n].stamp = o.stamp
      BY <2>8, <2>9, Zenon
    <3>3. info.stats[n].id = o.id
      BY <3>1, <3>2, Zenon DEF Accurate
    <3> QED BY <2>7, <3>3, Zenon
  <2>11. o.table = p.table /\ o.partition = p.partition
    BY <2>8, <2>9, Zenon
  <2>12. o.id = p.id
    BY <2>11, Zenon DEF Answer
  <2>13. TableIDs(info, t) = UNION {PartitionIDs(info, x) : x \in parts}
    BY <1>1, <2>4, Zenon
  <2> QED BY <2>4, <2>6, <2>10, <2>12, <2>13, Zenon
<1> QED BY <1>3, <1>4, Zenon

LEMMA HandlesMean ==
  ASSUME NEW info, Answer(info), NEW t, NEW h \in Handles(info, t)
  PROVE  \E r \in Range(info.regions) : RowID(info, h) = r.rowID /\ r.rowID # NoRowID
<1>1. /\ DOMAIN info.regions = 1 .. Len(info.regions)
      /\ \A n \in 1 .. Len(info.regions) : info.regions[n] \in Range(info.regions)
  BY ListDomain, Zenon DEF Answer
<1>2. h[1] \in DOMAIN info.regions /\ RowID(info, h) # NoRowID
  BY Zenon DEF Handles, RegionsOf
<1> QED BY <1>1, <1>2, Zenon DEF RowID

(* A sorted list has the row ids of all start keys, and no others, in their order. *)
ListsRowIDs(s, info, t) ==
  /\ DOMAIN s = 1 .. Cardinality(Handles(info, t))
  /\ \A n \in DOMAIN s : \E h \in Handles(info, t) : s[n] = RowID(info, h)
  /\ \A m, n \in DOMAIN s : m < n => s[m] <= s[n]
  /\ \A h \in Handles(info, t) : \E n \in DOMAIN s : s[n] = RowID(info, h)

LEMMA TableInfoMeans ==
  ASSUME NEW info, NEW t, NEW s \in TableInfos(info, t)
  PROVE  ListsRowIDs(s, info, t)
<1> DEFINE H == Handles(info, t)
           D == 1 .. Cardinality(H)
<1>1. PICK o \in [D -> H] :
        /\ Range(o) = H
        /\ \A m, n \in D : m < n => RowID(info, o[m]) <= RowID(info, o[n])
        /\ s = [n \in D |-> RowID(info, o[n])]
  BY Zenon DEF TableInfos
<1> HIDE DEF D
<1>2. DOMAIN s = D /\ \A n \in D : o[n] \in H /\ s[n] = RowID(info, o[n])
  BY <1>1, Zenon
<1>3. \A h \in H : \E n \in D : o[n] = h
  BY <1>1, Zenon DEF Range
<1>4. \A m, n \in D : m < n => s[m] <= s[n]
  BY <1>1, <1>2, Zenon
<1> QED BY <1>2, <1>3, <1>4, Zenon DEF D, ListsRowIDs

-----------------------------------------------------------------------------
(* What the clauses select.                                                *)

LEMMA ClauseLen ==
  ASSUME conf \in Configs, NEW f \in Cols, NEW b \in Keys, NEW compare, NEW we
  PROVE  /\ NCols - f + 1 \in Nat
         /\ Len(CompareClause(f, b, compare, we)) = NCols - f + 1
<1>1. NCols - f + 1 \in Nat
  BY KeyWeights DEF Cols
<1> QED BY <1>1 DEF CompareClause

LEMMA SelectedCompare ==
  ASSUME conf \in Configs, NEW f \in Cols, NEW b \in Keys, NEW compare, NEW we \in BOOLEAN, NEW k
  PROVE  k \in Selected(CompareClause(f, b, compare, we)) <=>
           \E c \in f .. NCols :
             k \in AllEqual(f, c - 1, b) \cap
                   ((IF compare = "<" THEN Less(c, b) ELSE Greater(c, b)) \cup
                    (IF we /\ c = NCols THEN AllEqual(c, c, b) ELSE {}))
<1> DEFINE m == NCols - f + 1
           cl == CompareClause(f, b, compare, we)
           At(c) == AllEqual(f, c - 1, b) \cap
                   ((IF compare = "<" THEN Less(c, b) ELSE Greater(c, b)) \cup
                    (IF we /\ c = NCols THEN AllEqual(c, c, b) ELSE {}))
<1>1. NCols \in Nat /\ f \in Nat /\ f <= NCols /\ m \in Nat
  BY KeyWeights, ClauseLen DEF Cols
<1>2. \A n \in 1 .. m : cl[n] = At(f + n - 1)
  BY Zenon DEF CompareClause
<1>3. k \in Selected(cl) <=> \E n \in 1 .. m : k \in cl[n]
  BY ClauseLen, Zenon DEF Selected
<1>4. ASSUME NEW n \in 1 .. m PROVE f + n - 1 \in f .. NCols
  BY <1>1
<1>5. ASSUME NEW c \in f .. NCols PROVE c - f + 1 \in 1 .. m /\ f + (c - f + 1) - 1 = c
  BY <1>1
<1> HIDE DEF m, cl, At
<1>6. k \in Selected(cl) <=> \E c \in f .. NCols : k \in At(c)
  BY <1>2, <1>3, <1>4, <1>5
<1> QED BY <1>6, Zenon DEF cl, At

(* "(-inf, bound)" *)
LEMMA LessMeans ==
  ASSUME conf \in Configs, NEW f \in Cols, NEW b \in Keys, NEW k \in Keys
  PROVE  k \in Selected(CompareClause(f, b, "<", FALSE)) <=> LexLess(f, k, b)
<1>1. k \in Selected(CompareClause(f, b, "<", FALSE)) <=>
        \E c \in f .. NCols : k \in AllEqual(f, c - 1, b) /\ k \in Less(c, b)
  BY SelectedCompare, Zenon
<1>2. \A c : k \in AllEqual(f, c - 1, b) <=> \A x \in f .. c - 1 : Eq(k[x], b[x])
  BY DEF AllEqual
<1>3. \A c : k \in Less(c, b) <=> Lt(k[c], b[c])
  BY DEF Less
<1> QED BY <1>1, <1>2, <1>3, Zenon DEF LexLess

(* "[bound, +inf)": a key that is not before the bound is beyond it in the first *)
(* column that tells them apart, or equal to it.                                 *)
LEMMA GreaterMeans ==
  ASSUME conf \in Configs, NEW f \in Cols, NEW b \in Keys, NEW k \in Keys
  PROVE  k \in Selected(CompareClause(f, b, ">", TRUE)) <=> ~LexLess(f, k, b)
<1>0. /\ NCols \in Nat /\ f \in Nat /\ f > 0 /\ f <= NCols
      /\ \A x \in f .. NCols : Weight[k[x]] \in Nat /\ Weight[b[x]] \in Nat
  BY KeyWeights DEF Cols
<1>1. k \in Selected(CompareClause(f, b, ">", TRUE)) <=>
        \E c \in f .. NCols : /\ k \in AllEqual(f, c - 1, b)
                              /\ \/ k \in Greater(c, b)
                                 \/ c = NCols /\ k \in AllEqual(c, c, b)
  BY SelectedCompare, Zenon
<1>2. \A c : k \in AllEqual(f, c - 1, b) <=> \A x \in f .. c - 1 : Eq(k[x], b[x])
  BY DEF AllEqual
<1>3. \A c \in f .. NCols : /\ k \in Greater(c, b) <=> Gt(k[c], b[c])
                            /\ k \in AllEqual(c, c, b) <=> Eq(k[c], b[c])
  BY <1>0 DEF Greater, AllEqual
<1>4. ASSUME NEW c \in f .. NCols, \A x \in f .. c - 1 : Eq(k[x], b[x]),
             Gt(k[c], b[c]) \/ (c = NCols /\ Eq(k[c], b[c])), LexLess(f, k, b)
      PROVE  FALSE
  <2>1. PICK d \in f .. NCols : (\A x \in f .. d - 1 : Eq(k[x], b[x])) /\ Lt(k[d], b[d])
    BY <1>4, Zenon DEF LexLess
  <2>2. CASE d < c
    BY <1>0, <1>4, <2>1, <2>2 DEF Eq, Lt
  <2>3. CASE d = c
    BY <1>0, <1>4, <2>1, <2>3 DEF Eq, Lt, Gt
  <2>4. CASE c < d
    BY <1>0, <1>4, <2>1, <2>4 DEF Eq, Gt
  <2> QED BY <1>0, <2>2, <2>3, <2>4
<1>5. ASSUME ~LexLess(f, k, b)
      PROVE  \E c \in f .. NCols : /\ \A x \in f .. c - 1 : Eq(k[x], b[x])
                                   /\ Gt(k[c], b[c]) \/ (c = NCols /\ Eq(k[c], b[c]))
  <2> DEFINE D == {x \in f .. NCols : ~Eq(k[x], b[x])}
  <2>1. CASE D = {}
    BY <1>0, <2>1
  <2>2. CASE D # {}
    <3>1. D \in SUBSET Nat
      BY <1>0
    <3>2. PICK c \in D : \A y \in D : c <= y
      BY <2>2, <3>1, Smallest, Zenon
    <3>3. \A x \in f .. c - 1 : Eq(k[x], b[x])
      BY <1>0, <3>2
    <3>4. ~Lt(k[c], b[c])
      BY <1>5, <3>2, <3>3, Zenon DEF LexLess
    <3>5. Gt(k[c], b[c])
      BY <1>0, <3>2, <3>4 DEF Eq, Lt, Gt
    <3> QED BY <3>2, <3>3, <3>5, Zenon
  <2> QED BY <2>1, <2>2, Zenon
<1> QED BY <1>1, <1>2, <1>3, <1>4, <1>5, Zenon

LEMMA SelectedThree ==
  ASSUME NEW A, NEW B, NEW C, NEW k
  PROVE  k \in Selected(<<A, B, C>>) <=> k \in A \/ k \in B \/ k \in C
  BY DEF Selected

LEMMA NextColumn == \A n, f \in Nat : f <= n /\ f # n => f < n /\ f + 1 \in 1 .. n
  OBVIOUS

(* The clause between two bounds that differ in column f. *)
LEMMA RestBetweenMeans ==
  ASSUME conf \in Configs, NEW f \in Cols, NEW low \in Keys, NEW up \in Keys, NEW k \in Keys,
         Lt(low[f], up[f])
  PROVE  k \in Selected(RestBetween(f, low, up)) <=> ~LexLess(f, k, low) /\ LexLess(f, k, up)
<1>0. /\ NCols \in Nat /\ f \in Nat /\ f > 0 /\ f <= NCols
      /\ Weight[k[f]] \in Nat /\ Weight[low[f]] \in Nat /\ Weight[up[f]] \in Nat
  BY KeyWeights DEF Cols
<1>1. /\ k \in Greater(f, low) <=> Gt(k[f], low[f])
      /\ k \in Less(f, up) <=> Lt(k[f], up[f])
      /\ k \in AllEqual(f, f, low) <=> Eq(k[f], low[f])
      /\ k \in AllEqual(f, f, up) <=> Eq(k[f], up[f])
  BY <1>0 DEF Greater, Less, AllEqual
<1>2. /\ LexLess(f, k, low) <=> \/ Lt(k[f], low[f])
                                \/ Eq(k[f], low[f]) /\ f < NCols /\ LexLess(f + 1, k, low)
      /\ LexLess(f, k, up) <=> \/ Lt(k[f], up[f])
                               \/ Eq(k[f], up[f]) /\ f < NCols /\ LexLess(f + 1, k, up)
  BY LexUnfold, Zenon
<1>5. /\ ~Lt(k[f], low[f]) <=> Gt(k[f], low[f]) \/ Eq(k[f], low[f])
      /\ Eq(k[f], low[f]) => ~Gt(k[f], low[f]) /\ Lt(k[f], up[f]) /\ ~Eq(k[f], up[f])
      /\ Eq(k[f], up[f]) => Gt(k[f], low[f]) /\ ~Lt(k[f], up[f])
  BY <1>0, SMTT(30) DEF Lt, Gt, Eq
<1>3. CASE f = NCols
  <2>1. k \in Selected(RestBetween(f, low, up)) <=>
          k \in (Greater(f, low) \cup AllEqual(f, f, low)) \cap Less(f, up)
    BY <1>3 DEF RestBetween, Selected
  <2>2. ~(f < NCols)
    BY <1>0, <1>3
  <2> QED BY <1>1, <1>2, <1>5, <2>1, <2>2, Zenon
<1>4. CASE f # NCols
  <2> DEFINE A == Greater(f, low) \cap Less(f, up)
             B == AllEqual(f, f, low) \cap Selected(CompareClause(f + 1, low, ">", TRUE))
             C == AllEqual(f, f, up) \cap Selected(CompareClause(f + 1, up, "<", FALSE))
  <2>1. RestBetween(f, low, up) = <<A, B, C>>
    BY <1>4, Zenon DEF RestBetween
  <2>2. f < NCols /\ f + 1 \in Cols
    BY <1>0, <1>4, NextColumn, Zenon DEF Cols
  <2>3. /\ k \in A <=> Gt(k[f], low[f]) /\ Lt(k[f], up[f])
        /\ k \in B <=> Eq(k[f], low[f]) /\ ~LexLess(f + 1, k, low)
        /\ k \in C <=> Eq(k[f], up[f]) /\ LexLess(f + 1, k, up)
    BY <1>1, <2>2, LessMeans, GreaterMeans, Zenon
  <2> HIDE DEF A, B, C
  <2>4. k \in Selected(<<A, B, C>>) <=> k \in A \/ k \in B \/ k \in C
    BY SelectedThree, Zenon
  <2> QED BY <1>2, <1>5, <2>1, <2>2, <2>3, <2>4, Zenon
<1> QED BY <1>3, <1>4, Zenon

LEMMA OneAnd ==
  ASSUME NEW a, NEW h
  PROVE  [<<a>> EXCEPT ![Len(<<a>>)] = @ \cap h] = <<a \cap h>>
  OBVIOUS

LEMMA AndOne ==
  ASSUME NEW S, NEW a \in SUBSET S, NEW d \in Seq(SUBSET S), d # <<>>
  PROVE  /\ And(<<a>>, d) # <<>>
         /\ \A k \in a : k \in Selected(And(<<a>>, d)) <=> k \in Selected(d)
         /\ Len(d) = 1 => Selected(And(<<a>>, d)) \subseteq a
<1> DEFINE e == <<a \cap d[1]>>
<1>2. And(<<a>>, d) = e \o Tail(d)
  <2>1. Head(d) = d[1]
    OBVIOUS
  <2> QED BY <2>1, OneAnd, Zenon DEF And
<1>3. /\ Len(d) \in Nat /\ Len(d) > 0 /\ d[1] \in SUBSET S
      /\ Tail(d) \in Seq(SUBSET S) /\ Len(Tail(d)) = Len(d) - 1
      /\ \A n \in 1 .. Len(d) - 1 : Tail(d)[n] = d[n + 1]
  OBVIOUS
<1>4. e \in Seq(SUBSET S) /\ Len(e) = 1 /\ e[1] = a \cap d[1]
  BY <1>3
<1> HIDE DEF e
<1> DEFINE g == e \o Tail(d)
<1>6. /\ g \in Seq(SUBSET S) /\ Len(g) = Len(e) + Len(Tail(d))
      /\ \A n \in 1 .. Len(e) + Len(Tail(d)) :
           g[n] = IF n <= Len(e) THEN e[n] ELSE Tail(d)[n - Len(e)]
  BY <1>3, <1>4, ConcatMeans, SMTT(30)
<1> HIDE DEF g
<1>7. Len(g) = Len(d) /\ g[1] = e[1]
  BY <1>3, <1>4, <1>6
<1>8. ASSUME NEW n \in 2 .. Len(d) PROVE g[n] = d[n]
  <2>1. n - 1 \in 1 .. Len(d) - 1 /\ (n - 1) + 1 = n
    BY <1>3
  <2>2. g[n] = Tail(d)[n - 1]
    BY <1>3, <1>4, <1>6
  <2> QED BY <1>3, <2>1, <2>2, Zenon
<1>9. And(<<a>>, d) = g
  BY <1>2, Zenon DEF g
<1>10. g # <<>>
  BY <1>3, <1>7
<1>11. ASSUME NEW k \in a PROVE k \in Selected(g) <=> k \in Selected(d)
  <2>1. \A n \in 1 .. Len(d) : k \in g[n] <=> k \in d[n]
    BY <1>3, <1>4, <1>7, <1>8
  <2> QED BY <1>7, <2>1, Zenon DEF Selected
<1>12. Len(d) = 1 => Selected(g) \subseteq a
  BY <1>4, <1>7 DEF Selected
<1> QED BY <1>9, <1>10, <1>11, <1>12, Zenon

LEMMA CommonLengthMeans ==
  ASSUME conf \in Configs, NEW low \in Keys, NEW up \in Keys
  PROVE  /\ CommonLength(low, up) \in 0 .. NCols
         /\ \A x \in 1 .. CommonLength(low, up) : low[x] = up[x]
         /\ CommonLength(low, up) < NCols =>
              low[CommonLength(low, up) + 1] # up[CommonLength(low, up) + 1]
<1>0. NCols \in Nat
  BY KeyWeights, Zenon
<1> DEFINE D == {x \in 1 .. NCols : low[x] # up[x]}
           P(n) == /\ \A x \in 1 .. n : low[x] = up[x]
                   /\ n < NCols => low[n + 1] # up[n + 1]
<1>1. \E n \in 0 .. NCols : P(n)
  <2>1. CASE D = {}
    BY <1>0, <2>1
  <2>2. CASE D # {}
    <3>1. D \in SUBSET Nat
      BY <1>0
    <3>2. PICK c \in D : \A y \in D : c <= y
      BY <2>2, <3>1, Smallest, Zenon
    <3>3. c - 1 \in 0 .. NCols /\ (c - 1) + 1 = c
      BY <1>0, <3>2
    <3>4. \A x \in 1 .. c - 1 : low[x] = up[x]
      BY <1>0, <3>2
    <3>5. P(c - 1)
      BY <3>2, <3>3, <3>4, Zenon
    <3> QED BY <3>3, <3>5, Zenon
  <2> QED BY <2>1, <2>2, Zenon
<1>2. CommonLength(low, up) = CHOOSE n \in 0 .. NCols : P(n)
  BY DEF CommonLength
<1> HIDE DEF P
<1>3. CommonLength(low, up) \in 0 .. NCols /\ P(CommonLength(low, up))
  BY <1>1, <1>2
<1> QED BY <1>3, Zenon DEF P

LEMMA LexPrefix ==
  ASSUME conf \in Configs, NEW n \in Nat, n < NCols, NEW k \in Keys, NEW b \in Keys,
         \A x \in 1 .. n : Eq(k[x], b[x])
  PROVE  LexLess(1, k, b) <=> LexLess(n + 1, k, b)
<1>0. NCols \in Nat /\ \A x \in 1 .. NCols : Weight[k[x]] \in Nat /\ Weight[b[x]] \in Nat
  BY KeyWeights, Zenon DEF Cols
<1>1. ASSUME LexLess(1, k, b) PROVE LexLess(n + 1, k, b)
  <2>1. PICK c \in 1 .. NCols : (\A x \in 1 .. c - 1 : Eq(k[x], b[x])) /\ Lt(k[c], b[c])
    BY <1>1, Zenon DEF LexLess
  <2>2. ~(c <= n)
    BY <1>0, <2>1 DEF Eq, Lt
  <2>3. c \in n + 1 .. NCols /\ n + 1 .. c - 1 \subseteq 1 .. c - 1
    BY <1>0, <2>2
  <2> QED BY <2>1, <2>3, Zenon DEF LexLess
<1>2. ASSUME LexLess(n + 1, k, b) PROVE LexLess(1, k, b)
  <2>1. PICK c \in n + 1 .. NCols :
          (\A x \in n + 1 .. c - 1 : Eq(k[x], b[x])) /\ Lt(k[c], b[c])
    BY <1>2, Zenon DEF LexLess
  <2>2. c \in 1 .. NCols /\ \A x \in 1 .. c - 1 : Eq(k[x], b[x])
    BY <1>0, <2>1
  <2> QED BY <2>1, <2>2, Zenon DEF LexLess
<1> QED BY <1>1, <1>2, Zenon

(* Two texts of a column that the server takes for equal are the same text. *)
TextsDiffer == \A s, t \in DOMAIN Weight : Weight[s] = Weight[t] => s = t

(* getCommonLength, which compares texts, finds the columns that the server takes *)
(* for equal.                                                                     *)
Comparable == TextsDiffer \/ NCols = 1

(* "[low, up)" *)
LEMMA BetweenMeans ==
  ASSUME conf \in Configs, Comparable, NEW low \in Keys, NEW up \in Keys,
         LexLess(1, low, up), NEW k \in Keys
  PROVE  k \in Selected(BetweenClause(low, up)) <=> ~LexLess(1, k, low) /\ LexLess(1, k, up)
<1> DEFINE n == CommonLength(low, up)
           f == n + 1
<1>0. /\ NCols \in Nat
      /\ \A x \in 1 .. NCols : /\ Weight[k[x]] \in Nat /\ Weight[low[x]] \in Nat
                               /\ Weight[up[x]] \in Nat
                               /\ low[x] \in DOMAIN Weight /\ up[x] \in DOMAIN Weight
  BY KeyWeights, Zenon DEF Cols, Keys
<1>1. /\ n \in 0 .. NCols /\ \A x \in 1 .. n : low[x] = up[x]
      /\ n < NCols => low[n + 1] # up[n + 1]
  BY CommonLengthMeans, Zenon
<1>2. PICK c \in 1 .. NCols : (\A x \in 1 .. c - 1 : Eq(low[x], up[x])) /\ Lt(low[c], up[c])
  BY Zenon DEF LexLess
<1> HIDE DEF n
<1>3. n \in Nat /\ n < c /\ f \in 1 .. NCols /\ f <= c
  BY <1>0, <1>1, <1>2 DEF Lt
<1>4. Lt(low[f], up[f])
  <2>1. low[f] # up[f]
    BY <1>0, <1>1, <1>3
  <2>2. CASE c = f
    BY <1>2, <2>2, Zenon
  <2>3. CASE f < c
    BY <1>0, <1>2, <1>3, <2>1, <2>3 DEF Comparable, TextsDiffer, Eq
  <2> QED BY <1>3, <2>2, <2>3
<1>5. k \in Selected(RestBetween(f, low, up)) <=> ~LexLess(f, k, low) /\ LexLess(f, k, up)
  BY <1>3, <1>4, RestBetweenMeans, Zenon DEF Cols
<1>6. n # NCols
  BY <1>0, <1>3
<1>7. CASE n = 0
  <2>1. BetweenClause(low, up) = RestBetween(1, low, up)
    BY <1>6, <1>7 DEF BetweenClause, n
  <2> QED BY <1>5, <1>7, <2>1
<1>8. CASE n # 0
  <2> DEFINE E == AllEqual(1, n, low)
             R == Selected(RestBetween(f, low, up))
  <2>1. BetweenClause(low, up) = And(<<E>>, Brackets(RestBetween(f, low, up)))
    BY <1>6, <1>8 DEF BetweenClause, n
  <2>2. k \in Selected(BetweenClause(low, up)) <=> k \in E /\ k \in R
    <3>1. BetweenClause(low, up) = And(<<E>>, <<R>>)
      BY <2>1, Zenon DEF Brackets
    <3>2. And(<<E>>, <<R>>) = <<E \cap R>> \o <<>>
      <4>1. Head(<<R>>) = R /\ Tail(<<R>>) = <<>>
        OBVIOUS
      <4> QED BY <4>1, OneAnd, Zenon DEF And
    <3> HIDE DEF E, R
    <3>3. <<E \cap R>> \o <<>> = <<E \cap R>>
      <4>1. <<E \cap R>> \in Seq({E \cap R})
        OBVIOUS
      <4> QED BY <4>1, ConcatEmpty, Zenon
    <3>4. Selected(<<E \cap R>>) = E \cap R
      BY DEF Selected
    <3> QED BY <3>1, <3>2, <3>3, <3>4, Zenon
  <2>3. k \in E <=> \A x \in 1 .. n : Eq(k[x], low[x])
    BY Zenon DEF AllEqual
  <2>4. CASE k \in E
    <3>1. \A x \in 1 .. n : Eq(k[x], low[x]) /\ Eq(k[x], up[x])
      BY <1>1, <2>3, <2>4, Zenon DEF Eq
    <3>2. n < NCols
      BY <1>0, <1>3
    <3>3. /\ LexLess(1, k, low) <=> LexLess(f, k, low)
          /\ LexLess(1, k, up) <=> LexLess(f, k, up)
      BY <1>3, <3>1, <3>2, LexPrefix, Zenon
    <3> QED BY <1>5, <2>2, <2>4, <3>3, Zenon
  <2>5. CASE k \notin E
    <3>1. PICK y \in 1 .. n : ~Eq(k[y], low[y])
      BY <2>3, <2>5, Zenon
    <3>2. ASSUME NEW b \in {low, up}, NEW d \in {low, up}, LexLess(1, k, b)
          PROVE  LexLess(1, k, d)
      <4>1. PICK z \in 1 .. NCols : (\A x \in 1 .. z - 1 : Eq(k[x], b[x])) /\ Lt(k[z], b[z])
        BY <3>2, Zenon DEF LexLess
      <4>2. \A x \in 1 .. n : b[x] = d[x] /\ b[x] = low[x]
        BY <1>1, Zenon
      <4>3. z <= n
        BY <1>0, <1>3, <3>1, <4>1, <4>2, SMTT(30)
      <4>4. (\A x \in 1 .. z - 1 : Eq(k[x], d[x])) /\ Lt(k[z], d[z])
        BY <1>0, <1>3, <4>1, <4>2, <4>3
      <4> QED BY <4>1, <4>4, Zenon DEF LexLess
    <3>3. LexLess(1, k, low) <=> LexLess(1, k, up)
      BY <3>2, Zenon
    <3> QED BY <2>2, <2>5, <3>3, Zenon
  <2> QED BY <2>4, <2>5, Zenon
<1> QED BY <1>7, <1>8, Zenon

(* A bound that is read twice: the clause between the two selects nothing. *)
LEMMA BetweenSame ==
  ASSUME conf \in Configs, NEW low \in Keys, NEW k \in Keys
  PROVE  k \in Selected(BetweenClause(low, low)) <=> ~LexLess(1, k, low) /\ LexLess(1, k, low)
<1>1. CommonLength(low, low) = NCols /\ NCols # 0
  <2>1. /\ CommonLength(low, low) \in 0 .. NCols /\ NCols \in Nat /\ NCols > 0
        /\ ~(CommonLength(low, low) < NCols)
    BY CommonLengthMeans, KeyWeights, Zenon
  <2> QED BY <2>1
<1>2. BetweenClause(low, low) = <<{}>>
  BY <1>1 DEF BetweenClause
<1> QED BY <1>2 DEF Selected

-----------------------------------------------------------------------------
(* The clauses of one partition.                                           *)

LEMMA WhereClauseMeans ==
  ASSUME conf \in Configs, Comparable, NEW vals \in Seq(Keys), vals # <<>>, Sorted(vals),
         NEW n \in 1 .. Len(vals) + 1, NEW k \in Keys
  PROVE  k \in Selected(WhereClause(vals, n)) <=>
           /\ n > 1 => ~LexLess(1, k, vals[n - 1])
           /\ n <= Len(vals) => LexLess(1, k, vals[n])
<1>0. Len(vals) \in Nat /\ Len(vals) > 0 /\ 1 \in Cols /\ \A x \in 1 .. Len(vals) : vals[x] \in Keys
  <2>1. 1 \in Cols
    BY KeyWeights DEF Cols
  <2> QED BY <2>1
<1>1. CASE n = 1
  <2>1. n # Len(vals) + 1 /\ n <= Len(vals) /\ ~(n > 1) /\ vals[1] \in Keys
    BY <1>0, <1>1
  <2>2. WhereClause(vals, n) = CompareClause(1, vals[1], "<", FALSE)
    BY <1>1, <2>1 DEF WhereClause
  <2>3. k \in Selected(CompareClause(1, vals[1], "<", FALSE)) <=> LexLess(1, k, vals[1])
    BY <1>0, <2>1, LessMeans, Zenon
  <2> QED BY <1>1, <2>1, <2>2, <2>3, Zenon
<1>2. CASE n = Len(vals) + 1
  <2>1. n # 1 /\ n - 1 \in 1 .. Len(vals) /\ n > 1 /\ ~(n <= Len(vals))
    BY <1>0, <1>2
  <2>2. WhereClause(vals, n) = CompareClause(1, vals[n - 1], ">", TRUE)
    BY <1>2, <2>1 DEF WhereClause
  <2>3. vals[n - 1] \in Keys
    BY <1>0, <2>1
  <2>4. k \in Selected(CompareClause(1, vals[n - 1], ">", TRUE)) <=> ~LexLess(1, k, vals[n - 1])
    BY <1>0, <2>3, GreaterMeans, Zenon
  <2> QED BY <2>1, <2>2, <2>4, Zenon
<1>3. CASE n # 1 /\ n # Len(vals) + 1
  <2>1. n - 1 \in 1 .. Len(vals) /\ n \in 1 .. Len(vals) /\ n - 1 < n /\ n > 1 /\ n <= Len(vals)
    BY <1>0, <1>3
  <2>2. WhereClause(vals, n) = BetweenClause(vals[n - 1], vals[n])
    BY <1>3 DEF WhereClause
  <2>3. vals[n - 1] = vals[n] \/ LexLess(1, vals[n - 1], vals[n])
    BY <2>1, Zenon DEF Sorted
  <2>4. vals[n - 1] \in Keys /\ vals[n] \in Keys
    BY <1>0, <2>1
  <2>5. k \in Selected(BetweenClause(vals[n - 1], vals[n])) <=>
          ~LexLess(1, k, vals[n - 1]) /\ LexLess(1, k, vals[n])
    BY <2>3, <2>4, BetweenMeans, BetweenSame, Zenon
  <2> QED BY <2>1, <2>2, <2>5, Zenon
<1> QED BY <1>1, <1>2, <1>3, Zenon

(* Every key is in one clause: that of the first bound it is before, or the last one. *)
LEMMA KeyInOneClause ==
  ASSUME conf \in Configs, Comparable, NEW vals \in Seq(Keys), vals # <<>>, Sorted(vals),
         NEW k \in Keys
  PROVE  \E n \in 1 .. Len(vals) + 1 :
           /\ k \in Selected(WhereClause(vals, n))
           /\ \A m \in 1 .. Len(vals) + 1 : k \in Selected(WhereClause(vals, m)) => m = n
<1>0. Len(vals) \in Nat /\ Len(vals) > 0 /\ \A x \in 1 .. Len(vals) : vals[x] \in Keys
  OBVIOUS
<1>1. \A n \in 1 .. Len(vals) + 1 :
        k \in Selected(WhereClause(vals, n)) <=>
           /\ n > 1 => ~LexLess(1, k, vals[n - 1])
           /\ n <= Len(vals) => LexLess(1, k, vals[n])
  BY WhereClauseMeans, Zenon
<1>2. ASSUME NEW x \in 1 .. Len(vals), NEW y \in 1 .. Len(vals), x <= y,
             LexLess(1, k, vals[x])
      PROVE  LexLess(1, k, vals[y])
  <2>1. CASE x = y
    BY <1>2, <2>1
  <2>2. CASE x < y
    <3>1. vals[x] = vals[y] \/ LexLess(1, vals[x], vals[y])
      BY <2>2 DEF Sorted
    <3> QED BY <1>0, <1>2, <3>1, LexTransitive, Zenon
  <2> QED BY <1>0, <1>2, <2>1, <2>2
<1>3. ASSUME NEW m \in 1 .. Len(vals) + 1, NEW n \in 1 .. Len(vals) + 1, m < n,
             k \in Selected(WhereClause(vals, m)), k \in Selected(WhereClause(vals, n))
      PROVE  FALSE
  <2>1. m \in 1 .. Len(vals) /\ n - 1 \in 1 .. Len(vals) /\ m <= n - 1 /\ n > 1 /\ m <= Len(vals)
    BY <1>0, <1>3
  <2>2. LexLess(1, k, vals[m]) /\ ~LexLess(1, k, vals[n - 1])
    BY <1>1, <1>3, <2>1, Zenon
  <2> QED BY <1>2, <2>1, <2>2
<1>4. \E n \in 1 .. Len(vals) + 1 : k \in Selected(WhereClause(vals, n))
  <2> DEFINE D == {x \in 1 .. Len(vals) : LexLess(1, k, vals[x])}
  <2>1. CASE D = {}
    <3>1. ~LexLess(1, k, vals[Len(vals)])
      BY <1>0, <2>1
    <3>2. Len(vals) + 1 \in 1 .. Len(vals) + 1 /\ (Len(vals) + 1) - 1 = Len(vals)
          /\ ~(Len(vals) + 1 <= Len(vals))
      BY <1>0
    <3> QED BY <1>1, <3>1, <3>2, Zenon
  <2>2. CASE D # {}
    <3>1. D \in SUBSET Nat
      BY <1>0
    <3>2. PICK n \in D : \A y \in D : n <= y
      BY <2>2, <3>1, Smallest, Zenon
    <3>3. n \in 1 .. Len(vals) + 1 /\ LexLess(1, k, vals[n])
      BY <1>0, <3>2
    <3>4. n > 1 => ~LexLess(1, k, vals[n - 1])
      BY <1>0, <3>2
    <3> QED BY <1>1, <3>3, <3>4, Zenon
  <2> QED BY <2>1, <2>2
<1>5. PICK n \in 1 .. Len(vals) + 1 : k \in Selected(WhereClause(vals, n))
  BY <1>4
<1>6. \A m \in 1 .. Len(vals) + 1 : k \in Selected(WhereClause(vals, m)) => m = n
  BY <1>0, <1>3, <1>5
<1> QED BY <1>5, <1>6

-----------------------------------------------------------------------------
(* The types of conditions.                                                *)

LEMMA SelectedType ==
  ASSUME NEW S, NEW c \in Seq(SUBSET S)
  PROVE  Selected(c) \subseteq S
  BY DEF Selected

LEMMA AndType ==
  ASSUME NEW S, NEW c \in Seq(SUBSET S), NEW d \in Seq(SUBSET S), c # <<>>, d # <<>>
  PROVE  And(c, d) \in Seq(SUBSET S) /\ And(c, d) # <<>>
<1> DEFINE g == [c EXCEPT ![Len(c)] = @ \cap Head(d)]
<1>1. Len(c) \in Nat /\ Len(c) > 0 /\ Len(c) \in 1 .. Len(c) /\ c[Len(c)] \in SUBSET S
  OBVIOUS
<1>2. Head(d) \in SUBSET S /\ Tail(d) \in Seq(SUBSET S)
  OBVIOUS
<1>3. c[Len(c)] \cap Head(d) \in SUBSET S
  BY <1>1, <1>2
<1>4. g \in Seq(SUBSET S) /\ Len(g) = Len(c)
  BY <1>1, <1>3, ExceptMeans
<1>5. And(c, d) = g \o Tail(d)
  BY DEF And
<1> HIDE DEF g
<1>6. g # <<>>
  BY <1>1, <1>4
<1>8. g \o Tail(d) \in Seq(SUBSET S) /\ g \o Tail(d) # <<>>
  BY <1>2, <1>4, <1>6, ConcatMeans
<1> QED BY <1>5, <1>8

LEMMA CompareType ==
  ASSUME conf \in Configs, NEW f \in Cols, NEW b \in Keys, NEW compare, NEW we \in BOOLEAN
  PROVE  /\ CompareClause(f, b, compare, we) \in Seq(SUBSET Keys)
         /\ CompareClause(f, b, compare, we) # <<>>
<1> DEFINE m == NCols - f + 1
           cl == CompareClause(f, b, compare, we)
<1>1. m \in Nat /\ m > 0 /\ Len(cl) = m
  BY KeyWeights, ClauseLen DEF Cols
<1>2. \A n \in 1 .. m : cl[n] \in SUBSET Keys
  BY Zenon DEF CompareClause, AllEqual
<1>3. cl = [n \in 1 .. m |-> cl[n]]
  BY Zenon DEF CompareClause
<1> HIDE DEF m, cl
<1>4. cl \in [1 .. m -> SUBSET Keys]
  BY <1>2, <1>3
<1>5. cl \in Seq(SUBSET Keys)
  BY <1>1, <1>4, SeqOfFunction
<1> QED BY <1>1, <1>5 DEF cl

LEMMA WhereClauseType ==
  ASSUME conf \in Configs, NEW vals \in Seq(Keys), vals # <<>>, NEW n \in 1 .. Len(vals) + 1
  PROVE  WhereClause(vals, n) \in Seq(SUBSET Keys) /\ WhereClause(vals, n) # <<>>
<1>0. /\ Len(vals) \in Nat /\ Len(vals) > 0 /\ 1 \in Cols /\ NCols \in Nat
      /\ \A x \in 1 .. Len(vals) : vals[x] \in Keys
  <2>1. 1 \in Cols /\ NCols \in Nat
    BY KeyWeights DEF Cols
  <2> QED BY <2>1
<1>1. CASE n = 1
  <2>1. n # Len(vals) + 1 /\ vals[1] \in Keys
    BY <1>0, <1>1
  <2>2. WhereClause(vals, n) = CompareClause(1, vals[1], "<", FALSE)
    BY <1>1, <2>1 DEF WhereClause
  <2> QED BY <1>0, <2>1, <2>2, CompareType, Zenon
<1>2. CASE n = Len(vals) + 1 /\ n # 1
  <2>1. n - 1 \in 1 .. Len(vals) /\ vals[n - 1] \in Keys
    BY <1>0, <1>2
  <2>2. WhereClause(vals, n) = CompareClause(1, vals[n - 1], ">", TRUE)
    BY <1>2 DEF WhereClause
  <2> QED BY <1>0, <2>1, <2>2, CompareType, Zenon
<1>3. CASE n # 1 /\ n # Len(vals) + 1
  <2>1. n - 1 \in 1 .. Len(vals) /\ n \in 1 .. Len(vals)
    BY <1>0, <1>3
  <2> DEFINE low == vals[n - 1]
             up == vals[n]
             m == CommonLength(low, up)
  <2>2. WhereClause(vals, n) = BetweenClause(low, up)
    BY <1>3 DEF WhereClause
  <2>3. low \in Keys /\ up \in Keys
    BY <1>0, <2>1
  <2> HIDE DEF low, up
  <2>4. m \in 0 .. NCols
    BY <2>3, CommonLengthMeans
  <2>5. ASSUME NEW f
        PROVE  RestBetween(f, low, up) \in Seq(SUBSET Keys) /\ RestBetween(f, low, up) # <<>>
    <3>1. /\ Greater(f, low) \in SUBSET Keys /\ Less(f, up) \in SUBSET Keys
          /\ AllEqual(f, f, low) \in SUBSET Keys /\ AllEqual(f, f, up) \in SUBSET Keys
      BY Zenon DEF Greater, Less, AllEqual
    <3>2. CASE f = NCols
      <4> DEFINE A == (Greater(f, low) \cup AllEqual(f, f, low)) \cap Less(f, up)
      <4>1. RestBetween(f, low, up) = <<A>> /\ A \in SUBSET Keys
        BY <3>1, <3>2, Zenon DEF RestBetween
      <4> HIDE DEF A
      <4> QED BY <4>1
    <3>3. CASE f # NCols
      <4> DEFINE A == Greater(f, low) \cap Less(f, up)
                 B == AllEqual(f, f, low) \cap Selected(CompareClause(f + 1, low, ">", TRUE))
                 C == AllEqual(f, f, up) \cap Selected(CompareClause(f + 1, up, "<", FALSE))
      <4>1. RestBetween(f, low, up) = <<A, B, C>>
        BY <3>3, Zenon DEF RestBetween
      <4>2. A \in SUBSET Keys /\ B \in SUBSET Keys /\ C \in SUBSET Keys
        BY <3>1, Zenon
      <4> HIDE DEF A, B, C
      <4> QED BY <4>1, <4>2
    <3> QED BY <3>2, <3>3, Zenon
  <2>6. CASE m = NCols
    <3>1. BetweenClause(low, up) = <<{}>>
      <4>1. NCols # 0
        BY KeyWeights
      <4> QED BY <2>6, <4>1 DEF BetweenClause
    <3>2. <<{}>> \in Seq(SUBSET Keys) /\ <<{}>> # <<>>
      OBVIOUS
    <3> QED BY <2>2, <3>1, <3>2
  <2>7. CASE m # NCols /\ m = 0
    <3>1. BetweenClause(low, up) = RestBetween(1, low, up)
      BY <2>7 DEF BetweenClause
    <3> QED BY <2>2, <2>5, <3>1
  <2>8. CASE m # NCols /\ m # 0
    <3> DEFINE E == AllEqual(1, m, low)
               B == Brackets(RestBetween(m + 1, low, up))
    <3>1. BetweenClause(low, up) = And(<<E>>, B)
      BY <2>8 DEF BetweenClause
    <3>2. E \in SUBSET Keys
      BY DEF AllEqual
    <3>3. Selected(RestBetween(m + 1, low, up)) \in SUBSET Keys
      BY <2>5, SelectedType, Zenon
    <3>4. B \in Seq(SUBSET Keys) /\ B # <<>>
      BY <3>3 DEF Brackets
    <3> HIDE DEF E, B, m
    <3>5. <<E>> \in Seq(SUBSET Keys) /\ <<E>> # <<>>
      BY <3>2
    <3> QED BY <2>2, <3>1, <3>4, <3>5, AndType, Zenon
  <2> QED BY <2>6, <2>7, <2>8, Zenon
<1> QED BY <1>1, <1>2, <1>3

-----------------------------------------------------------------------------
(* The queries.                                                            *)

LEMMA WhereType ==
  ASSUME conf \in Configs
  PROVE  ConfWhere \in Seq(SUBSET Keys)
  BY ConfigsAssumption, Zenon DEF ConfWhere, Keys, Cols, NCols, Weight

LEMMA QueryType ==
  ASSUME conf \in Configs, NEW w \in Seq(SUBSET Keys)
  PROVE  QueryRows(w) \subseteq Keys
<1>1. ConfWhere \in Seq(SUBSET Keys)
  BY WhereType
<1>2. WhereCondition(w) \in Seq(SUBSET Keys)
  <2>1. CASE ConfWhere = <<>> \/ w = <<>>
    BY <1>1, <2>1 DEF WhereCondition
  <2>2. CASE ConfWhere # <<>> /\ w # <<>>
    <3>1. WhereCondition(w) = And(ConfWhere, w)
      BY <2>2 DEF WhereCondition
    <3> QED BY <1>1, <2>2, <3>1, AndType, Zenon
  <2> QED BY <2>1, <2>2
<1>3. Selected(WhereCondition(w)) \subseteq Keys
  BY <1>2, SelectedType
<1> QED BY <1>3 DEF QueryRows

LEMMA OneDisjunct ==
  ASSUME NEW S, NEW c \in Seq(S), Len(c) <= 1, c # <<>>
  PROVE  Len(c) = 1 /\ c = <<c[1]>> /\ c[1] \in S
<1>1. Len(c) \in Nat \ {0}
  BY LenType, Zenon
<1>2. \A x \in Nat \ {0} : x <= 1 => x = 1
  OBVIOUS
<1>3. Len(c) = 1
  BY <1>1, <1>2, Zenon
<1> QED BY <1>3

(* A condition of one disjunct does not change which wanted rows a clause selects. *)
LEMMA QuerySelects ==
  ASSUME conf \in Configs, Len(ConfWhere) <= 1, NEW w \in Seq(SUBSET Keys), NEW k \in Wanted
  PROVE  k \in QueryRows(w) <=> w = <<>> \/ k \in Selected(w)
<1>1. ConfWhere \in Seq(SUBSET Keys)
  BY WhereType
<1>2. CASE ConfWhere = <<>>
  <2>1. k \in Keys
    BY <1>2 DEF Wanted
  <2>2. WhereCondition(w) = w
    BY <1>2 DEF WhereCondition
  <2> QED BY <2>1, <2>2 DEF QueryRows
<1>3. CASE ConfWhere # <<>>
  <2>1. Len(ConfWhere) = 1 /\ k \in Selected(ConfWhere)
    <3>1. Len(ConfWhere) = 1
      BY <1>1, <1>3, OneDisjunct, Zenon
    <3>2. k \in Selected(ConfWhere)
      BY <1>3 DEF Wanted
    <3> QED BY <3>1, <3>2, Zenon
  <2>2. ConfWhere = <<ConfWhere[1]>> /\ ConfWhere[1] \in SUBSET Keys
    BY <1>1, <1>3, OneDisjunct, Zenon
  <2>3. k \in ConfWhere[1]
    BY <2>1 DEF Selected
  <2>4. CASE w = <<>>
    <3>1. WhereCondition(w) = ConfWhere
      BY <2>4 DEF WhereCondition
    <3> QED BY <1>3, <2>1, <2>4, <3>1 DEF QueryRows
  <2>5. CASE w # <<>>
    <3> DEFINE a == ConfWhere[1]
               g == And(<<a>>, w)
    <3>1. WhereCondition(w) = g
      BY <1>3, <2>2, <2>5 DEF WhereCondition
    <3>2. a \in SUBSET Keys
      BY <2>2
    <3>3. k \in a
      BY <2>3, Zenon
    <3> HIDE DEF a
    <3>4. g # <<>> /\ (k \in Selected(g) <=> k \in Selected(w))
      BY <2>5, <3>2, <3>3, AndOne, Zenon
    <3> QED BY <2>5, <3>1, <3>4, Zenon DEF QueryRows
  <2> QED BY <2>4, <2>5
<1> QED BY <1>2, <1>3

LEMMA OneColumnCompare ==
  ASSUME conf \in Configs, NCols = 1, NEW b \in Keys, NEW compare, NEW we
  PROVE  Len(CompareClause(1, b, compare, we)) = 1
<1>1. 1 \in Cols
  BY DEF Cols
<1>2. Len(CompareClause(1, b, compare, we)) = NCols - 1 + 1
  BY <1>1, ClauseLen, Zenon
<1> QED BY <1>2

(* One column: a clause is one disjunct, which a condition of one restricts. *)
LEMMA OneColumnClause ==
  ASSUME conf \in Configs, NCols = 1, NEW vals \in Seq(Keys), vals # <<>>,
         NEW n \in 1 .. Len(vals) + 1
  PROVE  Len(WhereClause(vals, n)) = 1
<1>0. /\ Len(vals) \in Nat /\ Len(vals) > 0 /\ 1 \in Cols
      /\ \A x \in 1 .. Len(vals) : vals[x] \in Keys
  <2>1. 1 \in Cols
    BY DEF Cols
  <2> QED BY <2>1
<1>1. CASE n = 1
  <2>1. n # Len(vals) + 1 /\ vals[1] \in Keys
    BY <1>0, <1>1
  <2>2. WhereClause(vals, n) = CompareClause(1, vals[1], "<", FALSE)
    BY <1>1, <2>1 DEF WhereClause
  <2> QED BY <2>1, <2>2, OneColumnCompare, Zenon
<1>2. CASE n = Len(vals) + 1 /\ n # 1
  <2>1. n - 1 \in 1 .. Len(vals) /\ vals[n - 1] \in Keys
    BY <1>0, <1>2
  <2>2. WhereClause(vals, n) = CompareClause(1, vals[n - 1], ">", TRUE)
    BY <1>2 DEF WhereClause
  <2> QED BY <2>1, <2>2, OneColumnCompare, Zenon
<1>3. CASE n # 1 /\ n # Len(vals) + 1
  <2>1. n - 1 \in 1 .. Len(vals) /\ n \in 1 .. Len(vals)
    BY <1>0, <1>3
  <2> DEFINE low == vals[n - 1]
             up == vals[n]
             m == CommonLength(low, up)
  <2>2. WhereClause(vals, n) = BetweenClause(low, up)
    BY <1>3 DEF WhereClause
  <2>3. low \in Keys /\ up \in Keys
    BY <1>0, <2>1
  <2> HIDE DEF low, up
  <2>4. m \in 0 .. NCols
    BY <2>3, CommonLengthMeans, Zenon
  <2>5. CASE m = 1
    <3>1. BetweenClause(low, up) = <<{}>>
      BY <2>5 DEF BetweenClause
    <3> QED BY <2>2, <3>1
  <2>6. CASE m = 0
    <3>1. BetweenClause(low, up) = RestBetween(1, low, up)
      BY <2>6 DEF BetweenClause
    <3>2. RestBetween(1, low, up) =
            <<(Greater(1, low) \cup AllEqual(1, 1, low)) \cap Less(1, up)>>
      BY Zenon DEF RestBetween
    <3> QED BY <2>2, <3>1, <3>2
  <2> QED BY <2>4, <2>5, <2>6
<1> QED BY <1>1, <1>2, <1>3

(* The dumps in which buildWhereCondition needs no brackets. *)
NoBracketsNeeded == ConfWhere = <<>> \/ (Len(ConfWhere) = 1 /\ NCols = 1)

LEMMA QueryWithinWanted ==
  ASSUME conf \in Configs, NoBracketsNeeded, NEW w \in Seq(SUBSET Keys),
         w = <<>> \/ (NCols = 1 => Len(w) = 1)
  PROVE  QueryRows(w) \subseteq Wanted
<1>1. ConfWhere \in Seq(SUBSET Keys)
  BY WhereType
<1>2. CASE ConfWhere = <<>>
  BY <1>2, QueryType DEF Wanted
<1>3. CASE ConfWhere # <<>>
  <2>1. Len(ConfWhere) = 1 /\ NCols = 1
    BY <1>3 DEF NoBracketsNeeded
  <2>2. ConfWhere = <<ConfWhere[1]>> /\ ConfWhere[1] \in SUBSET Keys
    BY <1>1, <2>1, OneDisjunct
  <2>3. ConfWhere[1] \subseteq Wanted
    BY <1>3, <2>1 DEF Wanted, Selected
  <2>4. CASE w = <<>>
    <3>1. WhereCondition(w) = ConfWhere
      BY <2>4 DEF WhereCondition
    <3> QED BY <1>3, <3>1 DEF QueryRows, Wanted
  <2>5. CASE w # <<>>
    <3> DEFINE a == ConfWhere[1]
               g == And(<<a>>, w)
    <3>1. WhereCondition(w) = g
      BY <1>3, <2>2, <2>5 DEF WhereCondition
    <3>2. a \in SUBSET Keys
      BY <2>2
    <3>3. Len(w) = 1
      BY <2>1, <2>5
    <3>4. a \subseteq Wanted
      BY <2>3, Zenon
    <3> HIDE DEF a
    <3>5. g # <<>> /\ Selected(g) \subseteq a
      BY <2>5, <3>2, <3>3, AndOne, Zenon
    <3> QED BY <3>1, <3>4, <3>5, Zenon DEF QueryRows
  <2> QED BY <2>4, <2>5
<1> QED BY <1>2, <1>3

(* The clause of a task has the type of a condition. *)
LEMMA ClauseType ==
  ASSUME SplitInv, NEW p \in Parts, NEW n \in 1 .. Len(handleVals[p]) + 1
  PROVE  /\ Clause(p, n) \in Seq(SUBSET Keys)
         /\ Clause(p, n) = <<>> <=> handleVals[p] = <<>>
<1>1. conf \in Configs /\ handleVals[p] \in Seq(Keys)
  BY Zenon DEF SplitInv, SplitTypes
<1>2. CASE handleVals[p] = <<>>
  <2>1. Clause(p, n) = <<>>
    BY <1>2, Zenon DEF Clause
  <2> QED BY <1>2, <2>1, EmptySeqType, Zenon
<1>3. CASE handleVals[p] # <<>>
  <2>1. Clause(p, n) = WhereClause(handleVals[p], n)
    BY <1>3, Zenon DEF Clause
  <2> QED BY <1>1, <1>3, <2>1, WhereClauseType, Zenon
<1> QED BY <1>2, <1>3, Zenon

LEMMA TaskKeys ==
  ASSUME SplitInv, NEW t \in sent
  PROVE  t.keys \subseteq Keys
<1>1. PICK b \in Bases : TasksInv(b)
  BY DEF SplitInv
<1>2. PICK p \in Parts : \E n \in 1 .. Len(handleVals[p]) + 1 : t = TaskOf(b, p, n)
  BY <1>1, Zenon DEF TasksInv
<1>3. PICK n \in 1 .. Len(handleVals[p]) + 1 : t = TaskOf(b, p, n)
  BY <1>2
<1>4. t.keys = QueryRows(Clause(p, n)) /\ conf \in Configs
  BY <1>3, Zenon DEF TaskOf, SplitInv, SplitTypes
<1> QED BY <1>4, ClauseType, QueryType, Zenon

-----------------------------------------------------------------------------
(* The split of a table of TiDB 3.x, and of any table.                     *)

(* The bounds that renewSelectTableRegionFuncForLowerTiDB can find. *)
RegionBounds(info) == {[n \in DOMAIN s |-> <<s[n]>>] : s \in TableInfos(info, "t")}

LEMMA ThreeXTable ==
  ASSUME conf \in Configs, NEW info \in conf.infos
  PROVE  /\ NCols = 1 /\ NParts = 1 /\ Answer(info) /\ "t" \in DOMAIN info.ids
         /\ \A x \in DOMAIN Weight : x \in Int /\ Weight[x] \in Nat
         /\ \A x, y \in DOMAIN Weight : x < y => Weight[x] < Weight[y]
         /\ \A h \in Handles(info, "t") : RowID(info, h) \in DOMAIN Weight
<1>1. /\ conf.cols = 1 /\ conf.parts = 1 /\ Answer(info) /\ "t" \in DOMAIN info.ids
      /\ DOMAIN conf.weight \subseteq Int
      /\ \A x \in DOMAIN conf.weight : conf.weight[x] \in Nat
      /\ \A x, y \in DOMAIN conf.weight : x < y => conf.weight[x] < conf.weight[y]
      /\ \A r \in Range(info.regions) : r.rowID \in DOMAIN conf.weight \cup {NoRowID}
  BY ConfigsAssumption, Zenon
<1>2. ASSUME NEW h \in Handles(info, "t") PROVE RowID(info, h) \in DOMAIN conf.weight
  <2>1. PICK r \in Range(info.regions) : RowID(info, h) = r.rowID /\ r.rowID # NoRowID
    BY <1>1, HandlesMean, Zenon
  <2> QED BY <1>1, <2>1, Zenon
<1> QED BY <1>1, <1>2, Zenon DEF NCols, NParts, Weight

LEMMA OneInOne == 1 \in 1 .. 1
  OBVIOUS

(* They are keys, in order; a region that holds several partitions is there as often. *)
LEMMA RegionBoundsSorted ==
  ASSUME conf \in Configs, NEW info \in conf.infos, NEW v \in RegionBounds(info)
  PROVE  v \in Seq(Keys) /\ Sorted(v)
<1> DEFINE c == Cardinality(Handles(info, "t"))
<1>0. PICK s \in TableInfos(info, "t") : v = [n \in DOMAIN s |-> <<s[n]>>]
  BY Zenon DEF RegionBounds
<1>1. /\ NCols = 1 /\ c \in Nat
      /\ \A x, y \in DOMAIN Weight : x < y => Weight[x] < Weight[y]
      /\ \A x \in DOMAIN Weight : x \in Int
      /\ \A h \in Handles(info, "t") : RowID(info, h) \in DOMAIN Weight
  BY ThreeXTable, Zenon DEF Answer
<1>2. /\ DOMAIN s = 1 .. c
      /\ \A n \in DOMAIN s : \E h \in Handles(info, "t") : s[n] = RowID(info, h)
      /\ \A m, n \in DOMAIN s : m < n => s[m] <= s[n]
  <2>1. ListsRowIDs(s, info, "t")
    BY TableInfoMeans, Zenon
  <2> QED BY <2>1, Zenon DEF ListsRowIDs
<1> HIDE DEF c
<1>3. \A n \in 1 .. c : s[n] \in DOMAIN Weight
  BY <1>1, <1>2, Zenon
<1>4. v = [n \in 1 .. c |-> <<s[n]>>]
  BY <1>0, <1>2, Zenon
<1>5. Keys = [1 .. 1 -> DOMAIN Weight]
  BY <1>1, Zenon DEF Keys, Cols
<1>6. \A n \in 1 .. c : <<s[n]>> \in Keys
  BY <1>3, <1>5
<1>7. v \in Seq(Keys) /\ Len(v) = c
  BY <1>1, <1>4, <1>6, SeqOfFunction, Zenon
<1>8. ASSUME NEW x \in 1 .. c, NEW y \in 1 .. c, x < y
      PROVE  v[x] = v[y] \/ LexLess(1, v[x], v[y])
  <2>1. s[x] <= s[y] /\ s[x] \in Int /\ s[y] \in Int
    BY <1>1, <1>2, <1>3, <1>8, Zenon
  <2>2. v[x] = <<s[x]>> /\ v[y] = <<s[y]>>
    BY <1>4, Zenon
  <2>3. CASE s[x] = s[y]
    BY <2>2, <2>3, Zenon
  <2>4. CASE s[x] < s[y]
    <3>1. Lt(v[x][1], v[y][1])
      <4>1. v[x][1] = s[x] /\ v[y][1] = s[y]
        BY <2>2
      <4>2. Weight[s[x]] < Weight[s[y]]
        BY <1>1, <1>3, <2>4, Zenon
      <4> QED BY <4>1, <4>2, Zenon DEF Lt
    <3>2. v[x] \in Keys /\ v[y] \in Keys
      BY <1>6, <2>2, Zenon
    <3>3. 1 \in Cols
      BY <1>1, OneInOne, Zenon DEF Cols
    <3> QED BY <3>1, <3>2, <3>3, LexUnfold, Zenon
  <2>5. s[x] = s[y] \/ s[x] < s[y]
    <3>1. \A u, w \in Int : u <= w => u = w \/ u < w
      OBVIOUS
    <3> QED BY <2>1, <3>1, Zenon
  <2> QED BY <2>3, <2>4, <2>5, Zenon
<1> QED BY <1>7, <1>8, Zenon DEF Sorted

LEMMA LoadRegionsStep ==
  ASSUME SplitInv, LoadRegions
  PROVE  SplitInv'
<1>0. /\ conf' = conf /\ part' = part /\ startIdx' = startIdx /\ totalChunk' = totalChunk
      /\ i' = i /\ sent' = sent /\ pc = "regions" /\ pc' = "loaded"
  BY Zenon DEF LoadRegions
<1>a. PICK info \in conf.infos :
        \E v \in RegionBounds(info) : handleVals' = [p \in Parts |-> v]
  BY ZenonT(30) DEF LoadRegions, RegionBounds
<1>1. PICK v \in RegionBounds(info) : handleVals' = [p \in Parts |-> v]
  BY <1>a, Zenon
<1>2. /\ SplitTypes /\ IndexInv /\ conf \in Configs /\ part \in Parts
  BY Zenon DEF SplitInv, SplitTypes
<1>3. PICK b \in Bases : BaseInv(b) /\ TasksInv(b)
  BY Zenon DEF SplitInv
<1>4. /\ Parts' = Parts /\ Keys' = Keys /\ NParts' = NParts
      /\ \A f, x, y : LexLess(f, x, y)' <=> LexLess(f, x, y)
  BY <1>0, OrderStable, Zenon
<1>5. NParts = 1
  BY <1>2, ThreeXTable, Zenon
<1>6. v \in Seq(Keys) /\ Sorted(v)
  BY <1>2, RegionBoundsSorted, Zenon
<1>7. handleVals' \in [Parts -> Seq(Keys)] /\ \A p \in Parts : handleVals'[p] = v
  BY <1>1, <1>6, Zenon
<1>8. startIdx = 0 /\ i = 0 /\ sent = {} /\ totalChunk = b[part] /\ part = 1 /\ b[1] = 0
  BY <1>0, <1>2, <1>3, <1>5 DEF BaseInv, Reading, Parts
<1>9. SplitTypes'
  <2>1. i' \in 0 .. Len(handleVals'[part']) + 1
    BY <1>0, <1>2, <1>7, <1>8
  <2> QED BY <1>0, <1>2, <1>4, <1>7, <2>1, Zenon DEF SplitTypes
<1>10. SortedInv'
  BY <1>4, <1>6, <1>7, Zenon DEF SortedInv, Sorted
<1>11. IndexInv'
  BY <1>0, <1>2, Zenon DEF IndexInv
<1>12. BaseInv(b)'
  BY <1>0, <1>8 DEF BaseInv, Reading
<1>13. TasksInv(b)' /\ Bases' = Bases
  BY <1>0, <1>4, <1>8, Zenon DEF TasksInv, Bases
<1> QED BY <1>3, <1>9, <1>10, <1>11, <1>12, <1>13, Zenon DEF SplitInv

LEMMA SplitInvStep == SplitInv /\ [Next]_vars => SplitInv'
<1> SUFFICES ASSUME SplitInv, [Next]_vars PROVE SplitInv'
  OBVIOUS
<1>1. ASSUME UNCHANGED <<conf, handleVals, part, startIdx, totalChunk, i, sent>>,
             pc' = pc \/ (pc = "regions" /\ pc' = "bounds") \/ pc' = "failed"
      PROVE  SplitInv'
  <2>1. /\ SplitTypes /\ SortedInv /\ IndexInv
    BY DEF SplitInv
  <2>2. PICK b \in Bases : BaseInv(b) /\ TasksInv(b)
    BY Zenon DEF SplitInv
  <2>3. /\ Parts' = Parts /\ Keys' = Keys /\ NParts' = NParts /\ Bases' = Bases
        /\ \A d, p : NextBase(d, p)' = NextBase(d, p)
        /\ \A d, p, n : TaskOf(d, p, n)' = TaskOf(d, p, n)
        /\ SortedInv'
    BY <1>1, <2>1, OrderStable, TasksStable, Zenon
  <2>4. SplitTypes'
    BY <1>1, <2>1, <2>3, Zenon DEF SplitTypes
  <2>5. IndexInv'
    BY <1>1, <2>1, Zenon DEF IndexInv
  <2>6. BaseInv(b)'
    BY <1>1, <2>2, <2>3, Zenon DEF BaseInv, Reading
  <2>7. TasksInv(b)'
    BY <1>1, <2>2, <2>3, Zenon DEF TasksInv
  <2> QED BY <2>2, <2>3, <2>4, <2>5, <2>6, <2>7, Zenon DEF SplitInv
<1>2. CASE LoadRegions
  BY <1>2, LoadRegionsStep
<1>3. CASE LoadRegionsFails
  BY <1>1, <1>3 DEF LoadRegionsFails
<1>4. CASE Fails
  BY <1>1, <1>4, Zenon DEF Fails
<1>5. CASE UNCHANGED vars
  BY <1>1, <1>5, Zenon DEF vars
<1> QED BY <1>2, <1>3, <1>4, <1>5, ReadBoundStep, BoundsReadStep, SendClauseStep,
           NextPartitionStep, Zenon DEF Next, Terminated

LEMMA SplitInvHolds == Spec => []SplitInv
  BY SplitInvInit, SplitInvStep, PTL DEF Spec

-----------------------------------------------------------------------------
(* The bounds of the table are those found in what the server answered. *)
RegionsInv ==
  /\ infos \subseteq conf.infos
  /\ pc \in {"regions", "bounds"} => infos = {}
  /\ \A info \in infos : \A p \in Parts : handleVals[p] \in RegionBounds(info)

LEMMA RegionsInvInit == Init => RegionsInv
  BY Zenon DEF Init, RegionsInv

LEMMA RegionsInvStep == RegionsInv /\ [Next]_vars => RegionsInv'
<1> SUFFICES ASSUME RegionsInv, [Next]_vars PROVE RegionsInv'
  OBVIOUS
<1>0. conf' = conf /\ Parts' = Parts
  BY ConfStable, OrderStable
<1>1. CASE LoadRegions
  <2>0. PICK info \in conf.infos :
          infos' = {info} /\ \E v \in RegionBounds(info) : handleVals' = [p \in Parts |-> v]
    BY <1>1, ZenonT(30) DEF LoadRegions, RegionBounds
  <2>1. PICK v \in RegionBounds(info) : infos' = {info} /\ handleVals' = [p \in Parts |-> v]
    BY <2>0, Zenon
  <2>2. pc' = "loaded"
    BY <1>1, Zenon DEF LoadRegions
  <2> QED BY <1>0, <2>1, <2>2, Zenon DEF RegionsInv, RegionBounds
<1>2. CASE ReadBound
  <2>1. infos = {} /\ infos' = {}
    BY <1>2, Zenon DEF ReadBound, RegionsInv
  <2> QED BY <2>1, Zenon DEF RegionsInv
<1>3. CASE LoadRegionsFails \/ BoundsRead \/ SendClause \/ NextPartition \/ Fails \/ UNCHANGED vars
  <2>1. /\ infos' = infos /\ handleVals' = handleVals
        /\ pc' \in {"regions", "bounds"} => pc \in {"regions", "bounds"}
    BY <1>3, Zenon DEF LoadRegionsFails, BoundsRead, SendClause, NextPartition, Fails, vars
  <2> QED BY <1>0, <2>1, Zenon DEF RegionsInv, RegionBounds
<1> QED BY <1>1, <1>2, <1>3 DEF Next, Terminated

LEMMA RegionsInvHolds == Spec => []RegionsInv
  BY RegionsInvInit, RegionsInvStep, PTL DEF Spec

(* The start of a region of the table is a bound, when the stamps tell partitions apart. *)
LEMMA StartIsBound ==
  ASSUME conf \in Configs, NEW info \in conf.infos, Accurate(info), NEW v \in RegionBounds(info),
         NEW r \in Range(info.regions), r.id \in OwnIDs(info, "t"), r.rowID # NoRowID
  PROVE  \E x \in DOMAIN v : v[x] = <<r.rowID>>
<1>1. Answer(info) /\ "t" \in DOMAIN info.ids
  BY ThreeXTable, Zenon
<1>2. PICK s \in TableInfos(info, "t") : v = [n \in DOMAIN s |-> <<s[n]>>]
  BY Zenon DEF RegionBounds
<1>3. PICK m \in DOMAIN info.regions : info.regions[m] = r
  BY Zenon DEF Range
<1>4. r.id \in TableIDs(info, "t") /\ r.id \in r.holds
  BY <1>1, OwnIDsFound, Zenon DEF Answer
<1>5. PICK h \in Handles(info, "t") : RowID(info, h) = r.rowID
  <2>1. <<m, r.id>> \in Handles(info, "t") /\ RowID(info, <<m, r.id>>) = r.rowID
    BY <1>3, <1>4, Zenon DEF Handles, RegionsOf, RowID
  <2> QED BY <2>1, Zenon
<1>6. PICK n \in DOMAIN s : s[n] = RowID(info, h)
  <2>1. ListsRowIDs(s, info, "t")
    BY TableInfoMeans, Zenon
  <2> QED BY <2>1, Zenon DEF ListsRowIDs
<1> QED BY <1>2, <1>5, <1>6, Zenon

(* With a row key of one column keys are ordered as the integers in them. *)
LEMMA BelowBound ==
  ASSUME NCols = 1, \A x \in DOMAIN Weight : x \in Int /\ Weight[x] \in Nat,
         \A x, y \in DOMAIN Weight : x < y => Weight[x] < Weight[y],
         NEW q \in Keys, NEW v \in Keys, NEW n, v = <<n>>
  PROVE  (q[1] < n => LexLess(1, q, v)) /\ (n <= q[1] => ~LexLess(1, q, v))
<1>1. q[1] \in DOMAIN Weight /\ n \in DOMAIN Weight /\ v[1] = n
  BY DEF Keys, Cols
<1>2. LexLess(1, q, v) <=> Weight[q[1]] < Weight[n]
  BY <1>1 DEF LexLess, Lt
<1>3. /\ q[1] \in Int /\ n \in Int /\ Weight[q[1]] \in Nat /\ Weight[n] \in Nat
      /\ q[1] < n => Weight[q[1]] < Weight[n]
      /\ n < q[1] => Weight[n] < Weight[q[1]]
  BY <1>1, Zenon
<1>4. n <= q[1] => n = q[1] \/ n < q[1]
  BY <1>3
<1>5. n <= q[1] => Weight[n] <= Weight[q[1]]
  BY <1>3, <1>4
<1> QED BY <1>2, <1>3, <1>5

(* With a row key of one column no clause selects keys on both sides of a bound. *)
LEMMA ClauseOnOneSide ==
  ASSUME conf \in Configs, NCols = 1, NEW vals \in Seq(Keys), Sorted(vals),
         NEW n \in 1 .. Len(vals) + 1, NEW x \in 1 .. Len(vals),
         NEW k \in Keys, k \in Selected(WhereClause(vals, n)), LexLess(1, k, vals[x]),
         NEW l \in Keys, l \in Selected(WhereClause(vals, n)), ~LexLess(1, l, vals[x])
  PROVE  FALSE
<1>0. /\ Len(vals) \in Nat /\ vals # <<>> /\ Comparable
      /\ \A y \in 1 .. Len(vals) : vals[y] \in Keys
  BY DEF Comparable
<1>1. \A q \in Keys : q \in Selected(WhereClause(vals, n)) <=>
        /\ n > 1 => ~LexLess(1, q, vals[n - 1])
        /\ n <= Len(vals) => LexLess(1, q, vals[n])
  BY <1>0, WhereClauseMeans, Zenon
<1>2. ASSUME NEW q \in Keys, NEW y \in 1 .. Len(vals), NEW z \in 1 .. Len(vals), y <= z,
             LexLess(1, q, vals[y])
      PROVE  LexLess(1, q, vals[z])
  <2>1. vals[y] = vals[z] \/ LexLess(1, vals[y], vals[z])
    BY <1>2 DEF Sorted
  <2> QED BY <1>0, <1>2, <2>1, LexTransitive, Zenon
<1>3. CASE n <= x
  <2>1. LexLess(1, l, vals[n]) /\ n \in 1 .. Len(vals)
    BY <1>0, <1>1, <1>3
  <2> QED BY <1>2, <1>3, <2>1, Zenon
<1>4. CASE x < n
  <2>1. n > 1 /\ n - 1 \in 1 .. Len(vals) /\ x <= n - 1
    BY <1>0, <1>4
  <2>2. ~LexLess(1, k, vals[n - 1])
    BY <1>1, <2>1, Zenon
  <2> QED BY <1>2, <2>1, <2>2, Zenon
<1> QED BY <1>0, <1>3, <1>4

-----------------------------------------------------------------------------
(* What the split promises.                                                *)

(* The tasks of all partitions are numbered from 0 to the total announced to the       *)
(* writers, with no gap and no number twice, for any number of partitions and of bounds *)
(* that the server gives (dump.go:625-648).                                            *)
THEOREM SplitIndexesAreDense == ConcatSpec => []IndexesAreDense
<1>1. SplitInv => IndexesAreDense
  <2> SUFFICES ASSUME SplitInv, pc = "done"
               PROVE  /\ {t.index : t \in sent} = 0 .. totalChunk - 1
                      /\ \A t, u \in sent : t.index = u.index => t = u
    BY Zenon DEF IndexesAreDense
  <2>0. PICK b \in Bases : BaseInv(b)
    BY DEF SplitInv
  <2>1. /\ totalChunk \in Nat /\ startIdx = totalChunk /\ i = 0
        /\ \A t \in sent : t.index \in Nat
    <3>1. totalChunk \in Nat /\ \A t \in sent : t.index \in Nat
      BY Zenon DEF SplitInv, SplitTypes
    <3>2. startIdx = totalChunk /\ i = 0
      BY <2>0, Zenon DEF BaseInv
    <3> QED BY <3>1, <3>2
  <2>2. /\ \A t \in sent : t.index < totalChunk
        /\ \A n \in 0 .. totalChunk - 1 : \E t \in sent : t.index = n
        /\ \A t, u \in sent : t.index = u.index => t = u
    <3>1. startIdx + i = totalChunk
      BY <2>1
    <3>2. IndexInv
      BY Zenon DEF SplitInv
    <3>3. \A t \in sent : t.index < totalChunk
      BY <3>1, <3>2 DEF IndexInv
    <3>4. \A t, u \in sent : t.index = u.index => t = u
      BY <3>2, Zenon DEF IndexInv
    <3>5. startIdx + i - 1 = totalChunk - 1
      BY <2>1
    <3>6. \A n \in 0 .. totalChunk - 1 : \E t \in sent : t.index = n
      BY <3>2, <3>5, Zenon DEF IndexInv
    <3> QED BY <3>3, <3>4, <3>6, Zenon
  <2>3. \A t \in sent : t.index \in 0 .. totalChunk - 1
    BY <2>1, <2>2
  <2>4. {t.index : t \in sent} \subseteq 0 .. totalChunk - 1
    BY <2>3, Zenon
  <2>5. 0 .. totalChunk - 1 \subseteq {t.index : t \in sent}
    BY <2>2, Zenon
  <2> QED BY <2>2, <2>4, <2>5, Zenon
<1> QED BY <1>1, SplitInvHolds, ConcatSplits, PTL

(* Of the clauses of a partition exactly one selects a row that was asked for. *)
LEMMA WantedInOneClause ==
  ASSUME SplitInv, Len(ConfWhere) <= 1, Comparable, NEW p \in Parts, NEW k \in Wanted
  PROVE  \E n \in 1 .. Len(handleVals[p]) + 1 :
           /\ k \in QueryRows(Clause(p, n))
           /\ \A m \in 1 .. Len(handleVals[p]) + 1 : k \in QueryRows(Clause(p, m)) => m = n
<1>1. conf \in Configs /\ handleVals[p] \in Seq(Keys) /\ Sorted(handleVals[p])
  BY Zenon DEF SplitInv, SplitTypes, SortedInv
<1>2. \A n \in 1 .. Len(handleVals[p]) + 1 :
        k \in QueryRows(Clause(p, n)) <=> handleVals[p] = <<>> \/ k \in Selected(Clause(p, n))
  BY <1>1, ClauseType, QuerySelects, Zenon
<1>3. CASE handleVals[p] = <<>>
  <2>1. Len(handleVals[p]) = 0
    BY <1>3
  <2>2. 1 .. Len(handleVals[p]) + 1 = {1}
    BY <2>1
  <2> QED BY <1>2, <1>3, <2>2, Zenon
<1>4. CASE handleVals[p] # <<>>
  <2>1. \A n : Clause(p, n) = WhereClause(handleVals[p], n)
    BY <1>4, Zenon DEF Clause
  <2>2. k \in Keys
    <3>1. CASE ConfWhere = <<>>
      BY <3>1, Zenon DEF Wanted
    <3>2. CASE ConfWhere # <<>>
      BY <1>1, <3>2, WhereType, SelectedType, Zenon DEF Wanted
    <3> QED BY <3>1, <3>2, Zenon
  <2>3. PICK n \in 1 .. Len(handleVals[p]) + 1 :
          /\ k \in Selected(WhereClause(handleVals[p], n))
          /\ \A m \in 1 .. Len(handleVals[p]) + 1 :
               k \in Selected(WhereClause(handleVals[p], m)) => m = n
    BY <1>1, <1>4, <2>2, KeyInOneClause, Zenon
  <2> QED BY <1>2, <1>4, <2>1, <2>3, Zenon
<1> QED BY <1>3, <1>4, Zenon

(* After a split every row that was asked for is in exactly one task, for any number of *)
(* columns of the row key, any bounds and any partitions, provided that texts which the *)
(* server takes for equal are the same text or the key has one column, and that --where *)
(* has no "or" at its top level (sql.go:702-740).                                       *)
THEOREM SplitIsPartition ==
  ConcatSpec => [](Len(ConfWhere) <= 1 /\ Comparable => EachRowInOneTask)
<1>1. SplitInv /\ Len(ConfWhere) <= 1 /\ Comparable => EachRowInOneTask
  <2> SUFFICES ASSUME SplitInv, Len(ConfWhere) <= 1, Comparable, pc = "done",
                      NEW p \in Parts, NEW k \in Wanted
               PROVE  \E t \in sent : /\ t.part = p /\ k \in t.keys
                                      /\ \A u \in sent : u.part = p /\ k \in u.keys => u = t
    BY Zenon DEF EachRowInOneTask
  <2>1. PICK b \in Bases : BaseInv(b) /\ TasksInv(b)
    BY Zenon DEF SplitInv
  <2>2. PICK n \in 1 .. Len(handleVals[p]) + 1 :
          /\ k \in QueryRows(Clause(p, n))
          /\ \A m \in 1 .. Len(handleVals[p]) + 1 : k \in QueryRows(Clause(p, m)) => m = n
    BY WantedInOneClause, Zenon
  <2>3. TaskOf(b, p, n) \in sent
    BY <2>1, Zenon DEF TasksInv
  <2>4. \A q, m : TaskOf(b, q, m).part = q /\ TaskOf(b, q, m).keys = QueryRows(Clause(q, m))
    BY Zenon DEF TaskOf
  <2>5. ASSUME NEW u \in sent, u.part = p, k \in u.keys
        PROVE  u = TaskOf(b, p, n)
    <3>1. PICK q \in Parts : \E m \in 1 .. Len(handleVals[q]) + 1 : u = TaskOf(b, q, m)
      BY <2>1, Zenon DEF TasksInv
    <3>2. PICK m \in 1 .. Len(handleVals[q]) + 1 : u = TaskOf(b, q, m)
      BY <3>1, Zenon
    <3>3. q = p
      BY <2>4, <2>5, <3>2, Zenon
    <3>4. k \in QueryRows(Clause(p, m))
      BY <2>4, <2>5, <3>2, <3>3, ZenonT(30)
    <3> QED BY <2>2, <3>2, <3>3, <3>4, Zenon
  <2> QED BY <2>2, <2>3, <2>4, <2>5, Zenon
<1> QED BY <1>1, SplitInvHolds, ConcatSplits, PTL

(* No task selects a row that --where does not, without --where or when it is one        *)
(* condition without "or" and the clauses have none either, since the key has one column: *)
(* buildWhereCondition writes no brackets (sql.go:1014-1030).                              *)
THEOREM SplitKeepsWhere == ConcatSpec => [](NoBracketsNeeded => OnlyWanted)
<1>1. SplitInv /\ NoBracketsNeeded => OnlyWanted
  <2> SUFFICES ASSUME SplitInv, NoBracketsNeeded, NEW t \in sent
               PROVE  t.keys \subseteq Wanted
    BY Zenon DEF OnlyWanted
  <2>1. PICK b \in Bases : TasksInv(b)
    BY DEF SplitInv
  <2>2. PICK p \in Parts : \E n \in 1 .. Len(handleVals[p]) + 1 : t = TaskOf(b, p, n)
    BY <2>1, Zenon DEF TasksInv
  <2>3. PICK n \in 1 .. Len(handleVals[p]) + 1 : t = TaskOf(b, p, n)
    BY <2>2, Zenon
  <2>4. t.keys = QueryRows(Clause(p, n))
    BY <2>3, Zenon DEF TaskOf
  <2>5. conf \in Configs /\ handleVals[p] \in Seq(Keys)
    BY Zenon DEF SplitInv, SplitTypes
  <2>6. Clause(p, n) = <<>> \/ (NCols = 1 => Len(Clause(p, n)) = 1)
    <3>1. CASE handleVals[p] = <<>>
      BY <3>1, Zenon DEF Clause
    <3>2. CASE handleVals[p] # <<>>
      <4>1. Clause(p, n) = WhereClause(handleVals[p], n)
        BY <3>2, Zenon DEF Clause
      <4> QED BY <2>5, <3>2, <4>1, OneColumnClause, Zenon
    <3> QED BY <3>1, <3>2, Zenon
  <2> QED BY <2>4, <2>5, <2>6, ClauseType, QueryWithinWanted, Zenon
<1> QED BY <1>1, SplitInvHolds, ConcatSplits, PTL

(* On TiDB 3.x no task selects rows on both sides of the start of one of the table's     *)
(* regions, however many regions and partitions there are, when both lists of histograms *)
(* give every partition under a stamp of its own and --where has no "or" at its top level *)
(* (sql.go:1059-1182, dump.go:1199-1258).                                                *)
THEOREM SplitKeepsRegions == ConcatSpec => [](Len(ConfWhere) <= 1 => TasksWithinRegions)
<1>1. SplitInv /\ RegionsInv /\ Len(ConfWhere) <= 1 => TasksWithinRegions
  <2> SUFFICES ASSUME SplitInv, RegionsInv, Len(ConfWhere) <= 1,
                      NEW info \in infos, Accurate(info), NEW r \in Range(info.regions),
                      r.id \in OwnIDs(info, "t"), r.rowID # NoRowID, NEW t \in sent,
                      NEW k \in t.keys, NEW l \in t.keys, k[1] < r.rowID, r.rowID <= l[1]
               PROVE  FALSE
    BY Zenon DEF TasksWithinRegions
  <2>0. conf \in Configs /\ info \in conf.infos
    BY Zenon DEF SplitInv, SplitTypes, RegionsInv
  <2>1. /\ NCols = 1 /\ \A x \in DOMAIN Weight : x \in Int /\ Weight[x] \in Nat
        /\ \A x, y \in DOMAIN Weight : x < y => Weight[x] < Weight[y]
    BY <2>0, ThreeXTable, Zenon
  <2>2. PICK b \in Bases : TasksInv(b)
    BY Zenon DEF SplitInv
  <2>3. PICK p \in Parts : \E n \in 1 .. Len(handleVals[p]) + 1 : t = TaskOf(b, p, n)
    BY <2>2, Zenon DEF TasksInv
  <2>4. PICK n \in 1 .. Len(handleVals[p]) + 1 : t = TaskOf(b, p, n)
    BY <2>3, Zenon
  <2>5. t.keys = QueryRows(Clause(p, n))
    BY <2>4, Zenon DEF TaskOf
  <2>6. PICK vals \in Seq(Keys) : /\ vals = handleVals[p] /\ Sorted(vals)
                                 /\ vals \in RegionBounds(info)
    BY Zenon DEF SplitInv, SplitTypes, SortedInv, RegionsInv
  <2>7. PICK x \in 1 .. Len(vals) : vals[x] = <<r.rowID>>
    <3>1. \E x \in DOMAIN vals : vals[x] = <<r.rowID>>
      BY <2>0, <2>6, StartIsBound, Zenon
    <3> QED BY <3>1
  <2>8. vals # <<>> /\ n \in 1 .. Len(vals) + 1 /\ vals[x] \in Keys
    <3>1. n \in 1 .. Len(vals) + 1
      BY <2>4, <2>6, Zenon
    <3>2. vals # <<>> /\ vals[x] \in Keys
      BY <2>7
    <3> QED BY <3>1, <3>2, Zenon
  <2>9. Clause(p, n) = WhereClause(vals, n)
    BY <2>6, <2>8, Zenon DEF Clause
  <2>10. WhereClause(vals, n) \in Seq(SUBSET Keys) /\ Len(WhereClause(vals, n)) = 1
    BY <2>0, <2>1, <2>8, WhereClauseType, OneColumnClause, Zenon
  <2>11. WhereClause(vals, n) # <<>>
    <3>1. Len(<<>>) # 1
      OBVIOUS
    <3> QED BY <2>10, <3>1, Zenon
  <2>12. QueryRows(WhereClause(vals, n)) \subseteq Wanted
    <3>1. NoBracketsNeeded
      BY <2>0, <2>1, WhereType, OneDisjunct, Zenon DEF NoBracketsNeeded
    <3> QED BY <2>0, <2>10, <3>1, QueryWithinWanted, Zenon
  <2>13. t.keys \subseteq Keys
    BY TaskKeys, Zenon
  <2>14. k \in Selected(WhereClause(vals, n)) /\ l \in Selected(WhereClause(vals, n))
    BY <2>0, <2>5, <2>9, <2>10, <2>11, <2>12, QuerySelects, Zenon
  <2>15. k \in Keys /\ l \in Keys
    BY <2>13, Zenon
  <2>16. LexLess(1, k, vals[x]) /\ ~LexLess(1, l, vals[x])
    BY <2>1, <2>7, <2>8, <2>15, BelowBound, Zenon
  <2> QED BY <2>0, <2>1, <2>6, <2>8, <2>14, <2>15, <2>16, ClauseOnOneSide, Zenon
<1> QED BY <1>1, SplitInvHolds, RegionsInvHolds, ConcatSplits, PTL

-----------------------------------------------------------------------------
(* What buildConcatTask promises.                                          *)

LEMMA QueueInvHolds == ConcatSpec => [](SplitInv /\ RowsInv /\ QueueInv)
<1> DEFINE Inv == SplitInv /\ RowsInv /\ QueueInv
<1>1. ConcatInit => Inv
  BY SplitInvInit, RowsInvInit, QueueInvInit, Zenon DEF ConcatInit
<1>2. Inv /\ [ConcatNext]_allVars => Inv'
  BY ConcatStep, SplitInvStep, RowsInvStep, QueueInvStep, Zenon
<1> HIDE DEF Inv
<1>3. ConcatSpec => []Inv
  BY <1>1, <1>2, PTL DEF ConcatSpec
<1> QED BY <1>3 DEF Inv

(* The variables of the split and of buildConcatTask keep their types, and tableChan    *)
(* never holds more tasks than it has room for (dump.go:354).                            *)
THEOREM ConcatTypesHold == ConcatSpec => []ConcatTypeOK
<1>1. RegionsInv /\ SplitInv /\ RowsInv /\ QueueInv => ConcatTypeOK
  <2> SUFFICES ASSUME RegionsInv, SplitInv, RowsInv, QueueInv PROVE ConcatTypeOK
    OBVIOUS
  <2>1. TypeOK
    BY TaskKeys, Zenon DEF RegionsInv, SplitInv, SplitTypes, TypeOK
  <2>2. Range(tableChan) \cup Range(tableDataArr) \subseteq sent /\ Len(tableChan) <= Cap
    BY DEF QueueInv, QueueSeqs, Range
  <2>3. confRows \in Nat
    BY Zenon DEF RowsInv
  <2> QED BY <2>1, <2>2, <2>3, Zenon DEF ConcatTypeOK, RowsInv, QueueInv, CallerInv
<1> QED BY <1>1, RegionsInvHolds, ConcatSplits, QueueInvHolds, PTL

(* A concatenated task has the query of every task that concurrentDumpTable sent, once,   *)
(* in the order of their indexes, and only a split that did not fail becomes one, for any *)
(* capacity of tableChan and wherever the select meets the closed errCh                   *)
(* (dump.go:377-397).                                                                     *)
THEOREM ConcatHasAllTasks == ConcatSpec => []ConcatIsWhole
<1>1. SplitInv /\ QueueInv => ConcatIsWhole
  <2> SUFFICES ASSUME SplitInv, QueueInv, result = "concat"
               PROVE  /\ pc = "done" /\ Range(tableDataArr) = sent
                      /\ \A n \in DOMAIN tableDataArr : tableDataArr[n].index = n - 1
    BY Zenon DEF ConcatIsWhole
  <2>1. pc = "done" /\ tableChan = <<>>
    BY Zenon DEF QueueInv, CallerInv
  <2>2. InOrder /\ tableDataArr \in Seq(sent)
    BY DEF QueueInv, Collecting, QueueSeqs
  <2>3. /\ Len(tableDataArr) \in Nat /\ DOMAIN tableDataArr = 1 .. Len(tableDataArr)
        /\ \A n \in 1 .. Len(tableDataArr) : tableDataArr[n] \in sent
    BY <2>2
  <2>4. Len(tableDataArr) = startIdx + i
    BY <2>1, <2>2, <2>3 DEF InOrder
  <2>5. \A n \in 1 .. Len(tableDataArr) : tableDataArr[n].index = n - 1
    BY <2>2 DEF InOrder, Numbered
  <2>6. ASSUME NEW t \in sent PROVE \E n \in 1 .. Len(tableDataArr) : tableDataArr[n] = t
    <3>1. t.index \in Nat
      BY Zenon DEF SplitInv, SplitTypes
    <3>2. t.index < Len(tableDataArr)
      BY <2>4 DEF SplitInv, IndexInv
    <3>3. t.index + 1 \in 1 .. Len(tableDataArr)
      BY <2>3, <3>1, <3>2
    <3>4. tableDataArr[t.index + 1] \in sent /\ tableDataArr[t.index + 1].index = t.index
      BY <2>3, <2>5, <3>1, <3>3
    <3>5. \A u \in sent : u.index = t.index => u = t
      BY Zenon DEF SplitInv, IndexInv
    <3> QED BY <3>3, <3>4, <3>5, Zenon
  <2>7. Range(tableDataArr) = {tableDataArr[n] : n \in 1 .. Len(tableDataArr)}
    BY <2>3, Zenon DEF Range
  <2>8. Range(tableDataArr) = sent
    BY <2>3, <2>6, <2>7, Zenon
  <2> QED BY <2>1, <2>3, <2>5, <2>8, Zenon
<1> QED BY <1>1, QueueInvHolds, PTL
-----------------------------------------------------------------------------
(* The caller and the goroutine of buildConcatTask never wait for each other. *)

(* The guards of Caller. *)
CallerReady ==
  \/ caller \in {"start", "drain", "send"}
  \/ caller = "split" /\ pc \in {"done", "failed"}
  \/ caller = "select" /\ (tableChan # <<>> \/ errCh # "open")

(* The guards of Splitter, when no query fails and the context is not done. *)
SplitterReady ==
  \/ splitter \in {"start", "restored"}
  \/ splitter = "run" /\ \/ pc \in {"bounds", "loaded"}
                         \/ pc = "send" /\ i = Len(handleVals[part]) + 1
                         \/ /\ pc = "send" /\ i <= Len(handleVals[part])
                            /\ caller # "split" => Len(tableChan) < Cap
                         \/ pc \in {"done", "failed"} /\ caller # "split"

NobodyStuck ==
  ~(caller = "returned" /\ splitter = "ended") => CallerReady \/ SplitterReady

(* Until dumpTableData has returned and the goroutine of buildConcatTask has ended, one *)
(* of them can take a step although nothing fails, for any capacity of tableChan and    *)
(* any number of tasks: a goroutine that waits for room has a caller that collects, and *)
(* a caller that waits has a goroutine that will send a task or close errCh             *)
(* (dump.go:349-397, sendTaskToChan).                                                   *)
THEOREM ConcatNeverStuck == ConcatSpec => []NobodyStuck
<1>1. SplitInv /\ RowsInv /\ WaitInv => NobodyStuck
  <2> SUFFICES ASSUME SplitInv, RowsInv, WaitInv, ~CallerReady,
                      ~(caller = "returned" /\ splitter = "ended")
               PROVE  SplitterReady
    BY Zenon DEF NobodyStuck
  <2>1. /\ pc \in {"regions", "loaded", "bounds", "send", "done", "failed"}
        /\ i \in 0 .. Len(handleVals[part]) + 1 /\ Len(handleVals[part]) \in Nat
    BY DEF SplitInv, SplitTypes
  <2>2. /\ caller = "split" => splitter = "run" /\ pc \notin {"regions", "done", "failed"}
        /\ caller # "split" => /\ caller = "select" /\ tableChan = <<>>
                               /\ splitter \in {"start", "run", "restored"}
    BY Zenon DEF RowsInv, WaitInv, CallerReady
  <2>3. caller # "split" => Len(tableChan) < Cap
    <3>1. Len(<<>>) = 0 /\ 0 < Cap
      BY ConcatAssumption
    <3> QED BY <2>2, <3>1
  <2>4. splitter = "run" => pc # "regions"
    BY Zenon DEF WaitInv
  <2>5. i = Len(handleVals[part]) + 1 \/ i <= Len(handleVals[part])
    BY <2>1
  <2> QED BY <2>1, <2>2, <2>3, <2>4, <2>5, Zenon DEF SplitterReady
<1> QED BY <1>1, QueueInvHolds, WaitInvInit, WaitInvStep, PTL DEF ConcatSpec
=============================================================================
