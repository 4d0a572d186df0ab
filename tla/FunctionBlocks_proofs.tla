----------------------- MODULE FunctionBlocks_proofs ------------------------
(***************************************************************************)
(* Proofs about the counters, edge detectors and latches, for any number   *)
(* of blocks, any width of a counter, either build, and any program.       *)
(***************************************************************************)
EXTENDS FunctionBlocks, TLAPS

USE DEF Ids

(* A function of functions that is changed at one place keeps its type.    *)
LEMMA UpdateIsTyped ==
  ASSUME NEW A, NEW B, NEW T, NEW f \in [A -> [B -> T]],
         NEW a \in A, NEW b \in B, NEW v \in T
  PROVE  [f EXCEPT ![a][b] = v] \in [A -> [B -> T]]
  OBVIOUS

(* Counting up and down stays in the range of a counter.                   *)
LEMMA CountingStaysInRange ==
  ASSUME NEW n \in 0 .. MaxCount
  PROVE  Up(n) \in 0 .. MaxCount /\ Down(n) \in 0 .. MaxCount
  BY BlocksAssumption DEF Up, Down

LEMMA ClearIsTyped ==
  ASSUME Cleared, build \in Builds
  PROVE  BlocksTypeOK
<1>1. 0 \in 0 .. MaxCount  BY BlocksAssumption
<1>2. counter \in [Counters -> [Ids -> 0 .. MaxCount]]  BY <1>1 DEF Cleared
<1>3. prev \in [Signals -> [Ids -> BOOLEAN]]  BY DEF Cleared
<1>4. latch \in [Latches -> [Ids -> BOOLEAN]]  BY DEF Cleared
<1> QED  BY <1>2, <1>3, <1>4 DEF BlocksTypeOK

LEMMA ClearIsTypedNext ==
  ASSUME Cleared', build' \in Builds
  PROVE  BlocksTypeOK'
<1>1. 0 \in 0 .. MaxCount  BY BlocksAssumption
<1>2. counter' \in [Counters -> [Ids -> 0 .. MaxCount]]  BY <1>1 DEF Cleared
<1>3. prev' \in [Signals -> [Ids -> BOOLEAN]]  BY DEF Cleared
<1>4. latch' \in [Latches -> [Ids -> BOOLEAN]]  BY DEF Cleared
<1> QED  BY <1>2, <1>3, <1>4 DEF BlocksTypeOK

(* One instruction on one block.                                           *)
LEMMA WorkIsTyped ==
  ASSUME BlocksTypeOK, NEW id \in Ids, Work(id)
  PROVE  BlocksTypeOK'
<1> USE BlocksAssumption
<1>0. /\ counter \in [Counters -> [Ids -> 0 .. MaxCount]]
      /\ prev \in [Signals -> [Ids -> BOOLEAN]]
      /\ latch \in [Latches -> [Ids -> BOOLEAN]]
      /\ build \in Builds
  BY DEF BlocksTypeOK
<1>1. PICK x \in BOOLEAN, y \in BOOLEAN :
        \/ Ctu(id, x) \/ Ctd(id, x) \/ Ctud(id, x, y)
        \/ \E kind \in EdgeKinds : Edge(kind, id, x)
        \/ RsLatch(id, x, y) \/ SrLatch(id, x, y)
  BY DEF Work
<1>2. ASSUME NEW s \in Signals, Sample(s, id, x)
      PROVE  prev' \in [Signals -> [Ids -> BOOLEAN]]
  BY <1>0, <1>2, UpdateIsTyped DEF Sample
<1>3. CASE Ctu(id, x)
  <2>1. PICK v \in 0 .. MaxCount : counter' = [counter EXCEPT !["ctu"][id] = v]
    <3>1. counter["ctu"][id] \in 0 .. MaxCount  BY <1>0 DEF Counters
    <3> QED  BY <1>3, <3>1, CountingStaysInRange DEF Ctu
  <2>2. counter' \in [Counters -> [Ids -> 0 .. MaxCount]]
    BY <1>0, <2>1, UpdateIsTyped DEF Counters
  <2>3. prev' \in [Signals -> [Ids -> BOOLEAN]]  BY <1>3, <1>2 DEF Ctu, Signals
  <2>4. build' = build /\ latch' = latch  BY <1>3 DEF Ctu
  <2> QED  BY <1>0, <2>2, <2>3, <2>4 DEF BlocksTypeOK
<1>4. CASE Ctd(id, x)
  <2>1. PICK v \in 0 .. MaxCount : counter' = [counter EXCEPT !["ctd"][id] = v]
    <3>1. counter["ctd"][id] \in 0 .. MaxCount  BY <1>0 DEF Counters
    <3> QED  BY <1>4, <3>1, CountingStaysInRange DEF Ctd
  <2>2. counter' \in [Counters -> [Ids -> 0 .. MaxCount]]
    BY <1>0, <2>1, UpdateIsTyped DEF Counters
  <2>3. prev' \in [Signals -> [Ids -> BOOLEAN]]  BY <1>4, <1>2 DEF Ctd, Signals
  <2>4. build' = build /\ latch' = latch  BY <1>4 DEF Ctd
  <2> QED  BY <1>0, <2>2, <2>3, <2>4 DEF BlocksTypeOK
<1>5. CASE Ctud(id, x, y)
  <2>1. PICK v \in 0 .. MaxCount : counter' = [counter EXCEPT !["ctud"][id] = v]
    <3>1. counter["ctud"][id] \in 0 .. MaxCount  BY <1>0 DEF Counters
    <3> DEFINE n == IF Rising("up", id, x) THEN Up(counter["ctud"][id])
                                           ELSE counter["ctud"][id]
    <3>2. n \in 0 .. MaxCount  BY <3>1, CountingStaysInRange
    <3>3. Down(n) \in 0 .. MaxCount  BY <3>2, CountingStaysInRange
    <3>4. counter' = [counter EXCEPT !["ctud"][id] =
                        IF Rising("down", id, y) THEN Down(n) ELSE n]
      BY <1>5 DEF Ctud
    <3> HIDE DEF n
    <3> QED  BY <3>2, <3>3, <3>4
  <2>2. counter' \in [Counters -> [Ids -> 0 .. MaxCount]]
    BY <1>0, <2>1, UpdateIsTyped DEF Counters
  <2>3. prev' = [prev EXCEPT !["up"][id] = x, !["down"][id] = y]
    BY <1>5 DEF Ctud
  <2>4. prev' \in [Signals -> [Ids -> BOOLEAN]]
    BY <1>0, <2>3 DEF Signals
  <2>5. build' = build /\ latch' = latch  BY <1>5 DEF Ctud
  <2> QED  BY <1>0, <2>2, <2>4, <2>5 DEF BlocksTypeOK
<1>6. ASSUME NEW kind \in EdgeKinds, Edge(kind, id, x)
      PROVE  BlocksTypeOK'
  <2>1. Memory(kind) \in Signals  BY DEF Memory, Signals, EdgeKinds
  <2>2. prev' \in [Signals -> [Ids -> BOOLEAN]]  BY <1>6, <2>1, <1>2 DEF Edge
  <2> QED  BY <1>0, <1>6, <2>2 DEF Edge, BlocksTypeOK
<1>7. CASE RsLatch(id, x, y)
  <2>1. latch' = [latch EXCEPT !["rs"][id] = ~y /\ (x \/ latch["rs"][id])]
    BY <1>7 DEF RsLatch
  <2>2. latch' \in [Latches -> [Ids -> BOOLEAN]]
    BY <1>0, <2>1, UpdateIsTyped DEF Latches
  <2>3. UNCHANGED <<build, counter, prev>>  BY <1>7 DEF RsLatch
  <2> QED  BY <1>0, <2>2, <2>3 DEF BlocksTypeOK
<1>8. CASE SrLatch(id, x, y)
  <2>1. latch' = [latch EXCEPT !["sr"][id] = x \/ (~y /\ latch["sr"][id])]
    BY <1>8 DEF SrLatch
  <2>2. latch' \in [Latches -> [Ids -> BOOLEAN]]
    BY <1>0, <2>1, UpdateIsTyped DEF Latches
  <2>3. UNCHANGED <<build, counter, prev>>  BY <1>8 DEF SrLatch
  <2> QED  BY <1>0, <2>2, <2>3 DEF BlocksTypeOK
<1> QED  BY <1>1, <1>3, <1>4, <1>5, <1>6, <1>7, <1>8

(* The values of the blocks stay in their ranges, whatever a program does. *)
THEOREM BlocksTypeCorrect == BlocksSpec => []BlocksTypeOK
<1>1. BlocksInit => BlocksTypeOK  BY ClearIsTyped DEF BlocksInit
<1>2. BlocksTypeOK /\ [BlocksNext]_blocks => BlocksTypeOK'
  <2> SUFFICES ASSUME BlocksTypeOK, [BlocksNext]_blocks
               PROVE  BlocksTypeOK'
    OBVIOUS
  <2>1. CASE Clear  BY <2>1, ClearIsTypedNext DEF Clear, BlocksTypeOK
  <2>2. ASSUME NEW id \in Ids, Work(id) PROVE BlocksTypeOK'
    BY <2>2, WorkIsTyped
  <2>3. CASE UNCHANGED blocks  BY <2>3 DEF blocks, BlocksTypeOK
  <2> QED  BY <2>1, <2>2, <2>3 DEF BlocksNext
<1> QED  BY <1>1, <1>2, PTL DEF BlocksSpec

(* A count-down counter stays at 0 whatever the program does: no           *)
(* instruction loads it, so CTD can never count anything down.             *)
THEOREM CtdNeverMoves == BlocksSpec => []CtdNeverCounts
<1>1. BlocksInit => CtdNeverCounts
  BY DEF BlocksInit, Cleared, CtdNeverCounts, Counters
<1>2. BlocksTypeOK /\ CtdNeverCounts /\ [BlocksNext]_blocks => CtdNeverCounts'
  <2> SUFFICES ASSUME BlocksTypeOK, CtdNeverCounts, [BlocksNext]_blocks
               PROVE  CtdNeverCounts'
    OBVIOUS
  <2>0. counter \in [Counters -> [Ids -> 0 .. MaxCount]]  BY DEF BlocksTypeOK
  <2>1. CASE Clear
    BY <2>1 DEF Clear, Cleared, CtdNeverCounts, Counters
  <2>2. ASSUME NEW id \in Ids, NEW x \in BOOLEAN, Ctu(id, x)
        PROVE  CtdNeverCounts'
    <3>1. counter'["ctd"] = counter["ctd"]  BY <2>0, <2>2 DEF Ctu, Counters
    <3> QED  BY <3>1 DEF CtdNeverCounts
  <2>3. ASSUME NEW id \in Ids, NEW x \in BOOLEAN, Ctd(id, x)
        PROVE  CtdNeverCounts'
    <3>1. counter["ctd"][id] = 0  BY DEF CtdNeverCounts
    <3>2. PICK v \in {0} : counter' = [counter EXCEPT !["ctd"][id] = v]
      BY <2>3, <3>1 DEF Ctd, Down
    <3>3. \A j \in Ids : counter'["ctd"][j] = IF j = id THEN 0 ELSE counter["ctd"][j]
      BY <2>0, <3>2 DEF Counters
    <3> QED  BY <3>3 DEF CtdNeverCounts
  <2>4. ASSUME NEW id \in Ids, NEW x \in BOOLEAN, NEW y \in BOOLEAN, Ctud(id, x, y)
        PROVE  CtdNeverCounts'
    <3>1. counter'["ctd"] = counter["ctd"]  BY <2>0, <2>4 DEF Ctud, Counters
    <3> QED  BY <3>1 DEF CtdNeverCounts
  <2>5. CASE UNCHANGED counter  BY <2>5 DEF CtdNeverCounts
  <2>6. ASSUME NEW id \in Ids, Work(id) PROVE CtdNeverCounts'
    BY <2>2, <2>3, <2>4, <2>5, <2>6 DEF Work, Edge, RsLatch, SrLatch
  <2>7. CASE UNCHANGED blocks  BY <2>5, <2>7 DEF blocks
  <2> QED  BY <2>1, <2>6, <2>7 DEF BlocksNext
<1> QED  BY <1>1, <1>2, BlocksTypeCorrect, PTL DEF BlocksSpec
-----------------------------------------------------------------------------
(* A CTU and a CTUD that are fed the same input.                           *)

LEMMA CountingIsMonotone ==
  ASSUME NEW m \in 0 .. MaxCount, NEW n \in 0 .. MaxCount
  PROVE  /\ Up(m) \in 0 .. MaxCount /\ Down(m) \in 0 .. MaxCount
         /\ m <= Up(m) /\ Down(m) <= m
         /\ m <= n => Up(m) <= Up(n)
         /\ m <= n => Down(m) <= n
         /\ Up(m) <= n => Up(Down(m)) <= n
BY BlocksAssumption DEF Up, Down

(* An edge that only the CTU has seen is still to come for the CTUD.       *)
Behind(id) ==
  /\ counter["ctud"][id] <= counter["ctu"][id]
  /\ prev["ctu"][id] /\ ~prev["up"][id] =>
       Up(counter["ctud"][id]) <= counter["ctu"][id]

LEMMA CtuKeepsBehind ==
  ASSUME BlocksTypeOK, NEW id \in Ids, Behind(id), NEW x \in BOOLEAN, Ctu(id, x)
  PROVE  Behind(id)'
<1>0. /\ counter \in [Counters -> [Ids -> 0 .. MaxCount]]
      /\ prev \in [Signals -> [Ids -> BOOLEAN]]
  BY DEF BlocksTypeOK
<1>1. PICK m \in 0 .. MaxCount : m = counter["ctud"][id]  BY <1>0 DEF Counters
<1>2. PICK n \in 0 .. MaxCount : n = counter["ctu"][id]  BY <1>0 DEF Counters
<1>3. /\ counter'["ctud"][id] = m
      /\ counter'["ctu"][id] = IF Rising("ctu", id, x) THEN Up(n) ELSE n
  BY <1>0, <1>1, <1>2 DEF Ctu, Counters
<1>4. prev'["ctu"][id] = x /\ prev'["up"][id] = prev["up"][id]
  BY <1>0 DEF Ctu, Sample, Signals
<1>5. /\ m <= n /\ Up(m) <= Up(n) /\ m <= Up(n)
      /\ prev["ctu"][id] /\ ~prev["up"][id] => Up(m) <= n
  <2>1. m <= n /\ (prev["ctu"][id] /\ ~prev["up"][id] => Up(m) <= n)
    BY <1>1, <1>2 DEF Behind
  <2>2. n <= Up(n) /\ Up(n) \in 0 .. MaxCount  BY CountingIsMonotone
  <2>3. Up(m) <= Up(n)  BY <2>1, CountingIsMonotone
  <2> QED  BY <2>1, <2>2, <2>3
<1>6. CASE Rising("ctu", id, x)  BY <1>3, <1>4, <1>5, <1>6 DEF Behind
<1>7. CASE ~Rising("ctu", id, x)
  <2>1. x => prev["ctu"][id]  BY <1>7 DEF Rising
  <2> QED  BY <1>3, <1>4, <1>5, <1>7, <2>1 DEF Behind
<1> QED  BY <1>6, <1>7

LEMMA CtudKeepsBehind ==
  ASSUME BlocksTypeOK, NEW id \in Ids, Behind(id),
         NEW x \in BOOLEAN, NEW y \in BOOLEAN, Ctud(id, x, y),
         prev'["up"][id] # prev["up"][id] => prev'["up"][id] = prev'["ctu"][id]
  PROVE  Behind(id)'
<1>0. /\ counter \in [Counters -> [Ids -> 0 .. MaxCount]]
      /\ prev \in [Signals -> [Ids -> BOOLEAN]]
  BY DEF BlocksTypeOK
<1>1. PICK m \in 0 .. MaxCount : m = counter["ctud"][id]  BY <1>0 DEF Counters
<1>2. PICK n \in 0 .. MaxCount : n = counter["ctu"][id]  BY <1>0 DEF Counters
<1>3. PICK c : c = IF Rising("up", id, x) THEN Up(m) ELSE m  OBVIOUS
<1>4. PICK d : d = IF Rising("down", id, y) THEN Down(c) ELSE c  OBVIOUS
<1>5. counter'["ctud"][id] = d /\ counter'["ctu"][id] = n
  <2>1. counter' = [counter EXCEPT !["ctud"][id] = d]
    BY <1>1, <1>3, <1>4 DEF Ctud
  <2> QED  BY <1>0, <1>2, <2>1 DEF Counters
<1>6. prev'["ctu"][id] = prev["ctu"][id] /\ prev'["up"][id] = x
  <2>1. prev' = [prev EXCEPT !["up"][id] = x, !["down"][id] = y]  BY DEF Ctud
  <2> QED  BY <1>0, <2>1 DEF Signals
<1>7. m <= n /\ (prev["ctu"][id] /\ ~prev["up"][id] => Up(m) <= n)
  BY <1>1, <1>2 DEF Behind
<1>8. c \in 0 .. MaxCount /\ c <= n
  <2>1. CASE Rising("up", id, x)
    <3>1. x /\ ~prev["up"][id]  BY <2>1 DEF Rising
    <3>2. prev["ctu"][id]  BY <1>6, <3>1
    <3> QED  BY <1>3, <1>7, <2>1, <3>1, <3>2, CountingIsMonotone
  <2>2. CASE ~Rising("up", id, x)  BY <1>3, <1>7, <2>2
  <2> QED  BY <2>1, <2>2
<1>9. ASSUME Up(c) <= n PROVE Up(d) <= n
  BY <1>4, <1>8, <1>9, CountingIsMonotone
<1>10. d <= n  BY <1>4, <1>8, CountingIsMonotone
<1>11. ASSUME prev["ctu"][id], ~x PROVE Up(d) <= n
  <2>1. ~prev["up"][id]  BY <1>6, <1>11
  <2>2. c = m  BY <1>3, <1>11 DEF Rising
  <2> QED  BY <1>7, <1>9, <1>11, <2>1, <2>2
<1> QED  BY <1>5, <1>6, <1>10, <1>11 DEF Behind

LEMMA OthersKeepBehind ==
  ASSUME NEW id \in Ids, Behind(id),
         counter'["ctu"][id] = counter["ctu"][id],
         counter'["ctud"][id] = counter["ctud"][id],
         prev'["ctu"][id] = prev["ctu"][id], prev'["up"][id] = prev["up"][id]
  PROVE  Behind(id)'
BY DEF Behind

LEMMA BehindStep ==
  ASSUME BlocksTypeOK, NEW id \in Ids, Behind(id), [BlocksNext]_blocks,
         prev'["up"][id] # prev["up"][id] => prev'["up"][id] = prev'["ctu"][id]
  PROVE  Behind(id)'
<1>0. /\ counter \in [Counters -> [Ids -> 0 .. MaxCount]]
      /\ prev \in [Signals -> [Ids -> BOOLEAN]]
  BY DEF BlocksTypeOK
<1>1. CASE Clear
  <2>1. counter'["ctud"][id] = 0 /\ counter'["ctu"][id] = 0 /\ ~prev'["ctu"][id]
    BY <1>1 DEF Clear, Cleared, Counters, Signals
  <2> QED  BY <2>1 DEF Behind
<1>2. ASSUME NEW j \in Ids, NEW x \in BOOLEAN, Ctu(j, x) PROVE Behind(id)'
  <2>1. CASE j # id
    BY <1>0, <1>2, <2>1, OthersKeepBehind DEF Ctu, Sample, Counters, Signals
  <2> QED  BY <1>2, <2>1, CtuKeepsBehind
<1>3. ASSUME NEW j \in Ids, NEW x \in BOOLEAN, Ctd(j, x) PROVE Behind(id)'
  BY <1>0, <1>3, OthersKeepBehind DEF Ctd, Sample, Counters, Signals
<1>4. ASSUME NEW j \in Ids, NEW x \in BOOLEAN, NEW y \in BOOLEAN, Ctud(j, x, y)
      PROVE  Behind(id)'
  <2>1. CASE j # id
    <3>1. prev' = [prev EXCEPT !["up"][j] = x, !["down"][j] = y]  BY <1>4 DEF Ctud
    <3>2. prev'["ctu"][id] = prev["ctu"][id] /\ prev'["up"][id] = prev["up"][id]
      BY <1>0, <2>1, <3>1 DEF Signals
    <3>3. \E v : counter' = [counter EXCEPT !["ctud"][j] = v]  BY <1>4 DEF Ctud
    <3>4. /\ counter'["ctu"][id] = counter["ctu"][id]
          /\ counter'["ctud"][id] = counter["ctud"][id]
      BY <1>0, <2>1, <3>3 DEF Counters
    <3> QED  BY <3>2, <3>4, OthersKeepBehind
  <2> QED  BY <1>4, <2>1, CtudKeepsBehind
<1>5. ASSUME NEW j \in Ids, NEW x \in BOOLEAN, NEW kind \in EdgeKinds, Edge(kind, j, x)
      PROVE  Behind(id)'
  <2>1. Memory(kind) \notin {"ctu", "up"}  BY DEF Memory, EdgeKinds
  <2>2. prev'["ctu"] = prev["ctu"] /\ prev'["up"] = prev["up"]
    BY <1>0, <1>5, <2>1 DEF Edge, Sample, Signals
  <2> QED  BY <1>5, <2>2, OthersKeepBehind DEF Edge
<1>6. CASE UNCHANGED <<counter, prev>>  BY <1>6, OthersKeepBehind
<1>7. ASSUME NEW j \in Ids, Work(j) PROVE Behind(id)'
  BY <1>2, <1>3, <1>4, <1>5, <1>6, <1>7 DEF Work, RsLatch, SrLatch
<1>8. CASE UNCHANGED blocks  BY <1>6, <1>8 DEF blocks
<1> QED  BY <1>1, <1>7, <1>8 DEF BlocksNext

(* A program that feeds a CTUD, as its up input, what it feeds the CTU of  *)
(* the same id, first the one and then the other, never sees it ahead: an  *)
(* edge that one counts the other counts too, up to MaxCount, whatever     *)
(* else it does with these and all other blocks (op_ctu, op_ctud).         *)
THEOREM CtudNeverAhead ==
  ASSUME NEW id \in Ids
  PROVE  BlocksSpec /\ [][prev'["up"][id] # prev["up"][id] =>
                            prev'["up"][id] = prev'["ctu"][id]]_blocks
           => [](counter["ctud"][id] <= counter["ctu"][id])
<1>1. BlocksInit => Behind(id)
  BY DEF BlocksInit, Cleared, Behind, Counters, Signals
<1>2. /\ BlocksTypeOK /\ Behind(id) /\ [BlocksNext]_blocks
      /\ [prev'["up"][id] # prev["up"][id] =>
            prev'["up"][id] = prev'["ctu"][id]]_blocks
      => Behind(id)'
  BY BehindStep DEF blocks
<1>3. Behind(id) => counter["ctud"][id] <= counter["ctu"][id]  BY DEF Behind
<1> QED  BY <1>1, <1>2, <1>3, BlocksTypeCorrect, PTL DEF BlocksSpec
=============================================================================
