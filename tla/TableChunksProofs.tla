-------------------------- MODULE TableChunksProofs --------------------------
(***************************************************************************)
(* Proofs about TableChunks: the split of a table along an integer column  *)
(* for every table, every estimate and every width of an integer.          *)
(***************************************************************************)
EXTENDS TableChunks, TLAPS

USE KeySpaceAssumption, RowsAssumption, WidthAssumption, MaxCountAssumption

LEMMA WrapNat == \A n \in Int : Wrap(n) \in 0 .. 2 ^ Width - 1
  BY DEF Wrap

LEMMA WrapSmall == \A n \in Nat : n < 2 ^ Width => Wrap(n) = n
  BY DEF Wrap

LEMMA ToIntInt == \A n \in Int : ToInt(n) \in Int
  BY DEF ToInt

LEMMA ToIntSmall == \A n \in Nat : n < 2 ^ Width \div 2 => ToInt(n) = n /\ Wrap(n) = n
  BY DEF ToInt, Wrap

(* What --where may be. *)
LEMMA WhereFields ==
  ASSUME TypeOK
  PROVE  /\ HasWhere \in BOOLEAN /\ where.keys \subseteq keys /\ where.nulls \in BOOLEAN
         /\ ~HasWhere => where.keys = {} /\ ~where.nulls
<1>1. where \in Wheres /\ nulls \in BOOLEAN
  BY Zenon DEF TypeOK
<1>2. CASE where = [set |-> FALSE, keys |-> {}, nulls |-> FALSE]
  BY <1>2 DEF HasWhere
<1>3. CASE where \in [set : {TRUE}, keys : SUBSET keys, nulls : {FALSE, nulls}]
  <2>1. where.set = TRUE /\ where.keys \in SUBSET keys /\ where.nulls \in {FALSE, nulls}
    BY <1>3, Zenon
  <2> QED BY <1>1, <2>1, Zenon DEF HasWhere
<1> QED BY <1>1, <1>2, <1>3, Zenon DEF Wheres

LEMMA DivNat == \A n \in Nat, d \in Nat \ {0} : n \div d \in Nat /\ n < d * (n \div d + 1)
  OBVIOUS

LEMMA DivPositive == \A n \in Nat, d \in Nat \ {0} : n >= d => n \div d >= 1
  OBVIOUS

LEMMA LessByProduct == \A i, n \in Nat, s \in Nat : i * s < n * s => i < n
  OBVIOUS

LEMMA ProductMonotone == \A i, n \in Nat, s \in Nat : i <= n => i * s <= n * s
  OBVIOUS

LEMMA ProductNext == \A i \in Nat, s \in Nat : (i + 1) * s = i * s + s /\ i * s \in Nat
  OBVIOUS

-----------------------------------------------------------------------------
(* Types.                                                                  *)

LEMMA TypeInit == Init => TypeOK
<1> SUFFICES ASSUME Init PROVE TypeOK
  OBVIOUS
<1>1. /\ keys \subseteq KeySpace /\ nulls \in BOOLEAN /\ nullCond \in BOOLEAN
      /\ where \in Wheres
  BY Zenon DEF Init
<1>2. /\ min \in Int /\ max \in Int /\ count \in Nat /\ step \in Nat /\ cutoff \in Int
      /\ chunkIndex \in Int /\ totalChunks \in Int /\ sent = {} /\ pc = "pickField"
  BY DEF Init
<1> QED
  BY <1>1, <1>2 DEF TypeOK

LEMMA TypeStep == TypeOK /\ [Next]_vars => TypeOK'
<1> SUFFICES ASSUME TypeOK, [Next]_vars PROVE TypeOK'
  OBVIOUS
<1> USE DEF TypeOK, table, bounds, loopVars
<1>0. keys' = keys /\ nulls' = nulls /\ where' = where /\ Wheres' = Wheres
  <2>1. keys' = keys /\ nulls' = nulls /\ where' = where
    BY DEF Next, PickField, SendWhole, SelectMinAndMaxIntValue, EstimateCount, ComputeStep,
           SendChunk, AllSent, Terminated, vars
  <2> QED BY <2>1 DEF Wheres
<1>1. ASSUME SendWhole, pc' \in {"done", "failed"} PROVE TypeOK'
  BY <1>0, <1>1 DEF SendWhole, Fail, WholeTable, Chunk
<1>2. CASE PickField
  <2>1. CASE SendWhole
    BY <1>1, <2>1 DEF SendWhole, Fail
  <2>2. CASE pc' \in {"minMax", "failed"}
             /\ UNCHANGED <<table, bounds, count, step, loopVars, totalChunks, sent>>
    BY <1>0, <2>2
  <2> QED
    BY <1>2, <2>1, <2>2 DEF PickField, Fail
<1>3. CASE SelectMinAndMaxIntValue
  <2>1. min' \in Int /\ max' \in Int
    BY <1>3 DEF SelectMinAndMaxIntValue, Fail
  <2>2. pc' \in {"estimate", "failed"}
    BY <1>3 DEF SelectMinAndMaxIntValue, Fail
  <2> QED
    BY <1>0, <1>3, <2>1, <2>2 DEF SelectMinAndMaxIntValue
<1>4. CASE EstimateCount
  <2>1. CASE SendWhole
    BY <1>1, <2>1 DEF SendWhole, Fail
  <2>2. ASSUME ~SendWhole
        PROVE  /\ count' \in Nat /\ pc' = "step"
               /\ UNCHANGED <<table, bounds, step, loopVars, totalChunks, sent>>
    BY <1>4, <2>2 DEF EstimateCount
  <2> QED
    BY <1>0, <2>1, <2>2, Zenon
<1>5. CASE ComputeStep
  <2>1. step' \in Nat
    BY <1>5, WrapNat DEF ComputeStep, StepOf, Wrap
  <2>2. count \div Rows \in Nat
    BY DivNat
  <2>3. totalChunks' \in Int
    BY <1>5, <2>2, WrapNat, ToIntInt DEF ComputeStep
  <2> QED
    BY <1>0, <1>5, <2>1, <2>3 DEF ComputeStep
<1>6. CASE SendChunk
  <2>1. chunkIndex' \in Int
    BY <1>6, WrapNat, ToIntInt DEF SendChunk
  <2>2. cutoff' \in Int
    BY <1>6 DEF SendChunk
  <2>4. nullCond' \in BOOLEAN
    BY <1>6, Zenon DEF SendChunk
  <2>3. \A c \in sent' : c.index \in Int /\ c.keys \subseteq keys /\ c.nulls \in BOOLEAN
    BY <1>6, WhereFields DEF SendChunk, RangeChunk, Chunk
  <2> QED
    BY <1>0, <1>6, <2>1, <2>2, <2>3, <2>4 DEF SendChunk, Fail
<1>7. CASE AllSent
  BY <1>0, <1>7 DEF AllSent
<1>8. CASE UNCHANGED vars
  BY <1>0, <1>8 DEF vars
<1> QED
  BY <1>2, <1>3, <1>4, <1>5, <1>6, <1>7, <1>8 DEF Next, Terminated

\* concurrentDumpTable keeps its variables in their types, in uint64 arithmetic of
\* any width.
THEOREM TypeCorrect == Spec => []TypeOK
  BY TypeInit, TypeStep, PTL DEF Spec

-----------------------------------------------------------------------------
(* The partition.  In the loop the keys below the cutoff are in one chunk  *)
(* each and no chunk reaches beyond the cutoff, but for the rows that an   *)
(* alternative of --where selects without regard to the chunk.             *)

InOneChunk(k) ==
    \E c \in sent :
        k \in c.keys /\ (k \notin where.keys => \A d \in sent : k \in d.keys => d = c)

NullChunkUnique == \E c \in sent : c.nulls /\ \A d \in sent : d.nulls => d = c

\* nothing is in the channel before the loop
NothingYet == pc \in {"pickField", "minMax", "estimate", "step"} => sent = {}

\* the bounds that were read hold every key
Bounded ==
    pc \in {"estimate", "step", "loop"} =>
        min <= max /\ \A k \in keys : min <= k /\ k <= max

KeysSplit ==
    pc = "loop" =>
        /\ \A k \in keys : k < cutoff => InOneChunk(k)
        /\ \A c \in sent : \A k \in c.keys \ where.keys : k < cutoff

\* the condition on NULL is spent by the first chunk
NullsSplit ==
    pc = "loop" =>
        /\ nullCond => ~HasWhere /\ cutoff = min /\ \A c \in sent : ~c.nulls
        /\ ~nullCond /\ nulls /\ ~HasWhere => NullChunkUnique

SplitInv ==
    /\ TypeOK
    /\ NothingYet
    /\ Bounded
    /\ KeysSplit
    /\ NullsSplit
    /\ EachKeyInOneChunk
    /\ NullsInOneChunk

LEMMA SplitInit == Init => SplitInv
  BY TypeInit DEF Init, SplitInv, NothingYet, Bounded, KeysSplit, NullsSplit,
                  EachKeyInOneChunk, NullsInOneChunk

LEMMA SendWholeKeeps ==
  ASSUME TypeOK', SendWhole
  PROVE  SplitInv' \/ pc' = "failed"
<1> SUFFICES ASSUME pc' # "failed" PROVE SplitInv'
  OBVIOUS
<1> pc' = "done" /\ sent' = {WholeTable} /\ keys' = keys /\ nulls' = nulls /\ where' = where
  BY DEF SendWhole, Fail, table
<1> QED
  BY DEF SplitInv, NothingYet, Bounded, KeysSplit, NullsSplit,
         EachKeyInOneChunk, NullsInOneChunk, WholeTable, Chunk, HasWhere

LEMMA SendChunkKeeps ==
  ASSUME SplitInv, TypeOK', SendChunk
  PROVE  SplitInv'
<1> DEFINE new == RangeChunk(chunkIndex, cutoff, cutoff + step, nullCond)
<1>1. CASE pc' = "failed"
  BY <1>1 DEF SplitInv, NothingYet, Bounded, KeysSplit, NullsSplit,
         EachKeyInOneChunk, NullsInOneChunk
<1>2. CASE pc' = "loop"
  <2>1. /\ pc = "loop" /\ sent' = sent \cup {new}
        /\ cutoff' = cutoff + step /\ nullCond' = FALSE
        /\ keys' = keys /\ nulls' = nulls /\ min' = min /\ max' = max
        /\ where' = where /\ HasWhere' = HasWhere
    BY <1>2 DEF SendChunk, Fail, table, bounds, HasWhere
  <2>2. /\ new.keys = where.keys \cup {k \in keys : cutoff <= k /\ k < cutoff + step}
        /\ new.nulls = (where.nulls \/ (nullCond /\ nulls))
    BY DEF RangeChunk, Chunk
  <2> HIDE DEF new
  <2>3. cutoff \in Int /\ step \in Nat /\ keys \subseteq Int
        /\ nullCond \in BOOLEAN /\ nulls \in BOOLEAN
        /\ \A c \in sent : c.keys \subseteq keys /\ c.nulls \in BOOLEAN
        /\ where.nulls \in BOOLEAN /\ (~HasWhere => ~where.nulls)
    BY WhereFields DEF SplitInv, TypeOK
  <2>4. \A k \in keys : k < cutoff' => InOneChunk(k)'
    <3> SUFFICES ASSUME NEW k \in keys, k < cutoff + step PROVE InOneChunk(k)'
      BY <2>1
    <3>1. CASE k < cutoff
      <4>1. PICK c \in sent : /\ k \in c.keys
                              /\ k \notin where.keys => \A d \in sent : k \in d.keys => d = c
        BY <3>1, <2>1 DEF SplitInv, KeysSplit, InOneChunk
      <4>2. k \notin where.keys => k \notin new.keys
        BY <3>1, <2>2, <2>3
      <4> QED
        BY <4>1, <4>2, <2>1 DEF InOneChunk
    <3>2. CASE ~(k < cutoff)
      <4>1. k \in new.keys
        BY <3>2, <2>2, <2>3
      <4>2. k \notin where.keys => \A d \in sent : k \notin d.keys
        BY <3>2, <2>1, <2>3 DEF SplitInv, KeysSplit
      <4> QED
        BY <4>1, <4>2, <2>1 DEF InOneChunk
    <3> QED
      BY <3>1, <3>2
  <2>5. \A c \in sent' : \A k \in c.keys \ where.keys : k < cutoff'
    <3> SUFFICES ASSUME NEW c \in sent', NEW k \in c.keys \ where.keys
                 PROVE  k < cutoff + step
      BY <2>1
    <3>1. CASE c \in sent
      <4>1. k < cutoff /\ k \in Int
        BY <3>1, <2>1, <2>3, Zenon DEF SplitInv, KeysSplit
      <4> QED
        BY <4>1, <2>3
    <3>2. CASE c = new
      BY <3>2, <2>2
    <3> QED
      BY <3>1, <3>2, <2>1
  <2>6. ASSUME nulls, ~HasWhere PROVE NullChunkUnique'
    <3>1. CASE nullCond
      <4>1. \A c \in sent : ~c.nulls
        BY <3>1, <2>1 DEF SplitInv, NullsSplit
      <4>2. new.nulls
        BY <3>1, <2>2, <2>6, Zenon
      <4> QED
        BY <4>1, <4>2, <2>1 DEF NullChunkUnique
    <3>2. CASE ~nullCond
      <4>1. PICK c \in sent : c.nulls /\ \A d \in sent : d.nulls => d = c
        BY <3>2, <2>1, <2>6 DEF SplitInv, NullsSplit, NullChunkUnique
      <4>2. ~new.nulls
        BY <3>2, <2>2, <2>3, <2>6, Zenon
      <4> QED
        BY <4>1, <4>2, <2>1 DEF NullChunkUnique
    <3> QED
      BY <3>1, <3>2, <2>3
  <2>7. KeysSplit'
    BY <2>1, <2>4, <2>5 DEF KeysSplit
  <2>8. NullsSplit'
    BY <2>1, <2>6 DEF NullsSplit
  <2>9. Bounded'
    BY <2>1 DEF SplitInv, Bounded
  <2> QED
    BY <1>2, <2>7, <2>8, <2>9 DEF SplitInv, NothingYet, EachKeyInOneChunk, NullsInOneChunk
<1> QED
  BY <1>1, <1>2 DEF SendChunk, Fail

LEMMA SplitStep == SplitInv /\ [Next]_vars => SplitInv'
<1> SUFFICES ASSUME SplitInv, [Next]_vars PROVE SplitInv'
  OBVIOUS
<1>t. TypeOK /\ TypeOK'
  BY TypeStep DEF SplitInv
<1>f. ASSUME pc' = "failed" PROVE SplitInv'
  BY <1>f, <1>t DEF SplitInv, NothingYet, Bounded, KeysSplit, NullsSplit,
         EachKeyInOneChunk, NullsInOneChunk
<1>w. ASSUME SendWhole PROVE SplitInv'
  BY <1>w, <1>t, <1>f, SendWholeKeeps
<1>1. CASE PickField
  <2>1. CASE pc' = "minMax" /\ sent' = sent
    BY <1>1, <2>1, <1>t DEF PickField, SplitInv, NothingYet, Bounded, KeysSplit,
         NullsSplit, EachKeyInOneChunk, NullsInOneChunk
  <2> QED
    BY <1>1, <1>w, <1>f, <2>1 DEF PickField, Fail
<1>2. CASE SelectMinAndMaxIntValue
  <2>1. ASSUME pc' = "estimate" PROVE Bounded'
    <3>1. keys' = keys /\ keys \subseteq Int
      BY <1>2, <1>t DEF SelectMinAndMaxIntValue, table, TypeOK
    <3>2. CASE keys = {} /\ min' = 0 /\ max' = 0
      BY <3>1, <3>2 DEF Bounded
    <3>3. CASE \E lo, hi \in keys : IsMin(lo) /\ IsMax(hi) /\ min' = lo /\ max' = hi
      BY <3>1, <3>3 DEF Bounded, IsMin, IsMax
    <3> QED
      BY <1>2, <2>1, <3>2, <3>3 DEF SelectMinAndMaxIntValue, Fail
  <2>2. CASE pc' = "estimate"
    <3>1. sent' = {}
      BY <1>2 DEF SelectMinAndMaxIntValue, SplitInv, NothingYet
    <3> QED
      BY <2>1, <2>2, <3>1, <1>t DEF SplitInv, NothingYet, KeysSplit,
         NullsSplit, EachKeyInOneChunk, NullsInOneChunk
  <2> QED
    BY <1>2, <2>2, <1>f DEF SelectMinAndMaxIntValue, Fail
<1>3. CASE EstimateCount
  <2>1. CASE pc' = "step" /\ UNCHANGED <<table, bounds, sent>>
    <3>1. sent' = {} /\ Bounded'
      BY <1>3, <2>1 DEF EstimateCount, SplitInv, NothingYet, Bounded, table, bounds
    <3> QED
      BY <2>1, <3>1, <1>t DEF SplitInv, NothingYet, KeysSplit,
         NullsSplit, EachKeyInOneChunk, NullsInOneChunk
  <2> QED
    BY <1>3, <1>w, <2>1 DEF EstimateCount
<1>4. CASE ComputeStep
  <2>1. /\ keys' = keys /\ min' = min /\ max' = max /\ sent' = {} /\ cutoff' = min
        /\ nullCond' = ~HasWhere /\ pc' \in {"loop", "failed"} /\ HasWhere' = HasWhere
    BY <1>4 DEF ComputeStep, table, bounds, SplitInv, NothingYet, HasWhere
  <2>2. keys \subseteq Int /\ min \in Int
    BY <1>t, Zenon DEF TypeOK
  <2>3. Bounded' /\ \A k \in keys : ~(k < min)
    BY <1>4, <2>1, <2>2 DEF ComputeStep, SplitInv, Bounded
  <2>4. KeysSplit'
    BY <2>1, <2>3 DEF KeysSplit
  <2>5. NullsSplit'
    <3>1. CASE HasWhere
      BY <2>1, <3>1, Zenon DEF NullsSplit
    <3>2. CASE ~HasWhere
      BY <2>1, <3>2, Zenon DEF NullsSplit
    <3> QED
      BY <3>1, <3>2, Zenon
  <2> QED
    BY <2>1, <2>3, <2>4, <2>5, <1>t DEF SplitInv, NothingYet, EachKeyInOneChunk, NullsInOneChunk
<1>5. CASE SendChunk
  BY <1>5, <1>t, SendChunkKeeps
<1>6. CASE AllSent
  <2>1. /\ pc = "loop" /\ pc' = "done" /\ max < cutoff
        /\ keys' = keys /\ nulls' = nulls /\ sent' = sent
        /\ where' = where /\ HasWhere' = HasWhere
    BY <1>6, <1>t DEF AllSent, MoreChunks, table, TypeOK, HasWhere
  <2>2. min \in Int /\ max \in Int /\ cutoff \in Int /\ keys \subseteq Int /\ min <= max
        /\ \A k \in keys : k <= max
    BY <1>t, <2>1 DEF TypeOK, SplitInv, Bounded
  <2>3. \A k \in keys : InOneChunk(k)
    <3> SUFFICES ASSUME NEW k \in keys PROVE InOneChunk(k)
      OBVIOUS
    <3>1. k < cutoff
      BY <2>1, <2>2
    <3> QED
      BY <2>1, <3>1 DEF SplitInv, KeysSplit
  <2>4. ~nullCond
    BY <2>1, <2>2 DEF SplitInv, NullsSplit
  <2>5. EachKeyInOneChunk'
    BY <2>1, <2>3 DEF EachKeyInOneChunk, InOneChunk
  <2>6. NullsInOneChunk'
    BY <2>1, <2>4 DEF NullsInOneChunk, SplitInv, NullsSplit, NullChunkUnique
  <2> QED
    BY <2>1, <2>5, <2>6, <1>t DEF SplitInv, NothingYet, Bounded, KeysSplit, NullsSplit
<1>7. CASE UNCHANGED vars
  BY <1>7, <1>t DEF vars, table, bounds, loopVars, SplitInv, NothingYet, Bounded, KeysSplit,
         NullsSplit, EachKeyInOneChunk, NullsInOneChunk, InOneChunk, NullChunkUnique, HasWhere
<1> QED
  BY <1>1, <1>2, <1>3, <1>4, <1>5, <1>6, <1>7 DEF Next, Terminated

\* Whatever the estimate, the step and the width of the arithmetic, a finished split
\* has every key in a task, and in exactly one unless an alternative of --where before
\* its last top-level OR selects its row (dump.go:494-533, sql.go:1014-1031).
THEOREM KeysPartitioned == Spec => []EachKeyInOneChunk
<1>1. SplitInv => EachKeyInOneChunk
  BY DEF SplitInv
<1> QED
  BY SplitInit, SplitStep, <1>1, PTL DEF Spec

\* Without --where, a finished split has the rows with NULL in exactly one task
\* (dump.go:515-525).
THEOREM NullsDumpedOnce == Spec => []NullsInOneChunk
<1>1. SplitInv => NullsInOneChunk
  BY DEF SplitInv
<1> QED
  BY SplitInit, SplitStep, <1>1, PTL DEF Spec

-----------------------------------------------------------------------------
(* The announced number of chunks.                                         *)

\* max - min + 1 is an int
FitsInt == max - min + 1 < 2 ^ Width \div 2

\* what the estimate was compared with, and the arithmetic of the loop
IndexInv ==
    /\ TypeOK
    /\ Bounded
    /\ pc = "step" => count >= Rows
    /\ pc = "loop" /\ ~StepOverflows => step >= 1
    /\ pc = "loop" /\ FitsInt =>
         /\ step >= 1 /\ chunkIndex \in Nat /\ totalChunks \in Nat
         /\ max - min < totalChunks * step
         /\ chunkIndex * step <= cutoff - min

LEMMA IndexInvImplies == IndexInv => IndexBelowTotal
<1> SUFFICES ASSUME IndexInv, pc = "loop", max >= cutoff, FitsInt
             PROVE  chunkIndex < totalChunks
  BY DEF IndexBelowTotal, MoreChunks, FitsInt
<1>1. /\ chunkIndex \in Nat /\ totalChunks \in Nat /\ step \in Nat
      /\ min \in Int /\ max \in Int /\ cutoff \in Int
      /\ chunkIndex * step \in Nat /\ totalChunks * step \in Nat
  BY DEF IndexInv, TypeOK
<1>2. chunkIndex * step <= cutoff - min /\ max - min < totalChunks * step
  BY DEF IndexInv
<1>3. chunkIndex * step < totalChunks * step
  BY <1>1, <1>2
<1> QED
  BY <1>1, <1>3, LessByProduct

(* The step in uint64: it is 0 in one case only. *)
LEMMA StepPositive ==
  ASSUME NEW range \in Int, NEW chunks \in Nat \ {0},
         ~(Wrap(range) = 2 ^ Width - 1 /\ chunks = 1)
  PROVE  StepOf(range, chunks) >= 1
<1> DEFINE r == Wrap(range)
           q == r \div chunks
<1>1. r \in Nat /\ r <= 2 ^ Width - 1
  BY WrapNat
<1> HIDE DEF r
<1>2. q \in Nat /\ q * chunks <= r
  BY <1>1
<1> HIDE DEF q
<1>3. q + 1 < 2 ^ Width
  <2>1. CASE chunks = 1
    BY <1>1, <1>2, <2>1 DEF r
  <2>2. CASE chunks # 1
    <3>1. q * 2 <= q * chunks
      <4>1. 2 <= chunks /\ 2 \in Nat /\ chunks \in Nat
        BY <2>2
      <4>2. 2 * q <= chunks * q
        BY <1>2, <4>1, ProductMonotone, Zenon
      <4> QED BY <1>2, <4>1, <4>2
    <3>2. q * chunks \in Nat
      BY <1>2
    <3> QED BY <1>1, <1>2, <3>1, <3>2
  <2> QED BY <2>1, <2>2
<1>4. StepOf(range, chunks) = q + 1
  BY <1>2, <1>3, WrapSmall DEF StepOf, q, r
<1> QED BY <1>2, <1>4

LEMMA IndexStep == SplitInv /\ IndexInv /\ [Next]_vars => IndexInv'
<1> SUFFICES ASSUME SplitInv, IndexInv, [Next]_vars PROVE IndexInv'
  OBVIOUS
<1>t. TypeOK /\ TypeOK' /\ Bounded'
  BY TypeStep, SplitStep DEF SplitInv
<1>o. ASSUME pc' \notin {"step", "loop"} PROVE IndexInv'
  BY <1>o, <1>t DEF IndexInv
<1>1. CASE PickField
  BY <1>1, <1>o DEF PickField, SendWhole, Fail
<1>2. CASE SelectMinAndMaxIntValue
  BY <1>2, <1>o DEF SelectMinAndMaxIntValue, Fail
<1>3. CASE EstimateCount
  <2>1. CASE SendWhole
    BY <2>1, <1>o DEF SendWhole, Fail
  <2>2. ASSUME ~SendWhole PROVE pc' = "step" /\ count' >= Rows
    BY <1>3, <2>2 DEF EstimateCount
  <2> QED
    BY <2>1, <2>2, <1>t DEF IndexInv
<1>4. CASE ComputeStep
  <2> DEFINE range == max - min
             chunks == count \div Rows
             q == range \div chunks
  <2>1. /\ min \in Int /\ max \in Int /\ count \in Nat /\ min' = min /\ max' = max
        /\ count' = count /\ step' = StepOf(range, chunks)
        /\ totalChunks' = ToInt(IF step' = 1 THEN Wrap(Wrap(range) + 1) ELSE chunks)
        /\ cutoff' = min /\ chunkIndex' = 0 /\ pc = "step" /\ pc' # "step"
    BY <1>4, <1>t DEF ComputeStep, TypeOK, bounds
  <2>2. range \in Nat /\ count >= Rows
    BY <2>1 DEF IndexInv, Bounded
  <2>3. chunks \in Nat \ {0}
    BY <2>1, <2>2, DivNat, DivPositive
  <2>4. ~StepOverflows' => step' >= 1
    BY <2>1, <2>2, <2>3, StepPositive DEF StepOverflows
  <2>5. ASSUME FitsInt'
        PROVE  /\ step' >= 1 /\ chunkIndex' \in Nat /\ totalChunks' \in Nat
               /\ max' - min' < totalChunks' * step'
               /\ chunkIndex' * step' <= cutoff' - min'
    <3>1. range + 1 < 2 ^ Width \div 2 /\ max' - min' = range
      BY <2>1, <2>5 DEF FitsInt
    <3> HIDE DEF range, chunks
    <3>2. q \in Nat /\ range < chunks * (q + 1) /\ chunks * q <= range /\ q <= range
      BY <2>2, <2>3, DivNat
    <3>3. range < 2 ^ Width /\ range + 1 < 2 ^ Width /\ q + 1 < 2 ^ Width
      BY <2>2, <3>1, <3>2
    <3>4. Wrap(range) = range /\ Wrap(range + 1) = range + 1 /\ Wrap(q + 1) = q + 1
      BY <2>2, <3>2, <3>3, WrapSmall
    <3>5. step' = q + 1
      BY <2>1, <3>4 DEF StepOf
    <3> HIDE DEF q
    <3>6. CASE step' = 1
      <4>1. totalChunks' = range + 1
        BY <2>1, <2>2, <3>1, <3>4, <3>6, ToIntSmall
      <4> QED BY <2>1, <2>2, <3>1, <3>6, <4>1
    <3>7. CASE step' # 1
      <4>1. q >= 1
        BY <3>2, <3>5, <3>7
      <4>2. 1 * chunks <= q * chunks
        BY <2>3, <3>2, <4>1, ProductMonotone
      <4>3. chunks <= range
        BY <2>2, <2>3, <3>2, <4>2
      <4>4. totalChunks' = chunks
        BY <2>1, <2>2, <2>3, <3>1, <3>7, <4>3, ToIntSmall
      <4> QED BY <2>1, <2>2, <2>3, <3>1, <3>2, <3>5, <4>4
    <3> QED BY <3>6, <3>7
  <2> QED
    BY <2>1, <2>4, <2>5, <1>t DEF IndexInv
<1>5. CASE SendChunk
  <2> SUFFICES ASSUME pc' = "loop" PROVE IndexInv'
    <3>1. CASE pc' = "failed"
      BY <3>1, <1>o
    <3> QED
      BY <1>5, <3>1 DEF SendChunk, Fail
  <2>1. /\ pc = "loop" /\ cutoff' = cutoff + step /\ max >= cutoff
        /\ chunkIndex' = ToInt(Wrap(chunkIndex + 1)) /\ step' = step
        /\ totalChunks' = totalChunks /\ min' = min /\ max' = max /\ count' = count
    BY <1>5 DEF SendChunk, MoreChunks, Fail, bounds
  <2>2. /\ step \in Nat /\ cutoff \in Int /\ min \in Int /\ max \in Int
    BY <1>t DEF TypeOK
  <2>3. ~StepOverflows' => step' >= 1
    BY <2>1 DEF IndexInv, StepOverflows
  <2>4. ASSUME FitsInt
        PROVE  chunkIndex' \in Nat /\ chunkIndex' * step' <= cutoff' - min'
    <3>1. /\ step >= 1 /\ chunkIndex \in Nat /\ chunkIndex * step <= cutoff - min
      BY <2>1, <2>4 DEF IndexInv
    <3>2. chunkIndex <= chunkIndex * step
      <4>1. 1 * chunkIndex <= step * chunkIndex
        BY <2>2, <3>1, ProductMonotone
      <4> QED BY <2>2, <3>1, <4>1
    <3>3. chunkIndex + 1 < 2 ^ Width \div 2
      <4>1. chunkIndex * step \in Nat
        BY <2>2, <3>1
      <4> QED BY <2>1, <2>2, <2>4, <3>1, <3>2, <4>1 DEF FitsInt
    <3>4. chunkIndex' = chunkIndex + 1
      BY <2>1, <3>1, <3>3, ToIntSmall
    <3>5. (chunkIndex + 1) * step = chunkIndex * step + step /\ chunkIndex * step \in Nat
      BY <2>2, <3>1, ProductNext
    <3> QED BY <2>1, <2>2, <3>1, <3>4, <3>5
  <2>5. FitsInt' = FitsInt
    BY <2>1 DEF FitsInt
  <2> QED
    BY <2>1, <2>3, <2>4, <2>5, <1>t DEF IndexInv
<1>6. CASE AllSent
  BY <1>6, <1>o DEF AllSent
<1>7. CASE UNCHANGED vars
  BY <1>7, <1>t DEF vars, bounds, loopVars, IndexInv, FitsInt, StepOverflows
<1> QED
  BY <1>1, <1>2, <1>3, <1>4, <1>5, <1>6, <1>7 DEF Next, Terminated

\* Unless max - min + 1 overflows an int, no task carries an index that reaches the total it
\* announces (dump.go:499-502, dump.go:526).
THEOREM IndexStaysBelowTotal == Spec => []IndexBelowTotal
<1>1. Init => IndexInv
  BY TypeInit DEF Init, IndexInv, Bounded
<1> QED
  BY SplitInit, SplitStep, IndexStep, IndexInvImplies, <1>1, PTL DEF Spec

-----------------------------------------------------------------------------
(* The rounds of the loop.  What SplitEnds asks for under fairness rests   *)
(* on this step: max + 1 - cutoff is positive before a round, and less     *)
(* after it.                                                               *)

\* a round that stays in the loop
Round == pc = "loop" /\ pc' = "loop"

RoundsLeft == max + 1 - cutoff

\* a round is taken with rounds left, and leaves fewer
RoundUsesUp == Round => RoundsLeft \in Nat \ {0} /\ RoundsLeft' < RoundsLeft

LEMMA RoundStep ==
  SplitInv /\ IndexInv /\ [Next]_vars => [~StepOverflows => RoundUsesUp]_vars
<1> SUFFICES ASSUME SplitInv, IndexInv, Next, ~StepOverflows, Round
             PROVE  RoundsLeft \in Nat \ {0} /\ RoundsLeft' < RoundsLeft
  BY DEF RoundUsesUp
<1>1. SendChunk
  BY DEF Round, Next, PickField, SelectMinAndMaxIntValue, EstimateCount, ComputeStep,
         AllSent, Terminated
<1>2. cutoff' = cutoff + step /\ max' = max /\ max >= cutoff
  BY <1>1 DEF SendChunk, MoreChunks, Fail, Round, bounds
<1>3. max \in Int /\ cutoff \in Int /\ step \in Nat /\ step >= 1
  BY DEF SplitInv, TypeOK, IndexInv, Round
<1> QED
  BY <1>2, <1>3 DEF RoundsLeft

\* Unless the step overflows, no round of the loop is in vain: the cutoff moves
\* towards max and max stays, so that at most max - min + 1 tasks are sent
\* (dump.go:519-531).  The step is 0 only for an estimate of one chunk on a column that
\* spans all of uint64 (dump.go:496).
THEOREM RoundsAreUsedUp == Spec => [][~StepOverflows => RoundUsesUp]_vars
<1>1. Init => IndexInv
  BY TypeInit DEF Init, IndexInv, Bounded
<1> QED
  BY SplitInit, SplitStep, IndexStep, RoundStep, <1>1, PTL DEF Spec
=============================================================================
