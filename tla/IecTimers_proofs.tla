-------------------------- MODULE IecTimers_proofs --------------------------
(***************************************************************************)
(* Theorems about the timer blocks of IecTimers, for every number of       *)
(* blocks, every set of presets, every unit and every width of the         *)
(* integers that satisfy the assumptions of that module.                   *)
(***************************************************************************)
EXTENDS IecTimers, TLAPS

-----------------------------------------------------------------------------
(* Measuring time.                                                         *)

(* Conversion to a timespec yields natural numbers.                        *)
LEMMA ToTimespecType ==
  ASSUME NEW ms \in Nat PROVE ToTimespec(ms) \in Timespec
<1>1. ms \div MsPerSec \in Nat
  BY UnitsAssumption
<1>2. ms % MsPerSec \in Nat
  BY UnitsAssumption
<1>3. (ms % MsPerSec) * NsPerMs \in Nat
  BY <1>2, UnitsAssumption
<1> QED BY <1>1, <1>3 DEF ToTimespec, Timespec

(* ms_diff: whatever the operands, the result is a uint32_t.               *)
LEMMA MsDiffType ==
  ASSUME NEW a \in Timespec, NEW b \in Timespec
  PROVE  ms_diff(a, b) \in 0 .. (Width32 - 1)
<1> DEFINE ds == AsU64(b.sec - a.sec)
           dn == AsU64(b.nsec - a.nsec)
           sum == ds * MsPerSec + dn \div NsPerMs
<1>1. Width32 \in Nat \ {0} /\ Width64 \in Nat \ {0}
  BY WidthAssumption
<1>2. ds \in Nat /\ dn \in Nat
  BY <1>1 DEF Timespec, AsU64
<1>3. ds * MsPerSec \in Nat
  BY <1>2, UnitsAssumption
<1>4. dn \div NsPerMs \in Nat
  BY <1>2, UnitsAssumption
<1>5. sum \in Nat
  BY <1>3, <1>4
<1>6. sum % Width64 \in Nat
  BY <1>1, <1>5
<1>7. (sum % Width64) % Width32 \in 0 .. (Width32 - 1)
  BY <1>1, <1>6
<1> QED BY <1>7 DEF ms_diff

(* Division with remainder.                                                *)
LEMMA DivMod ==
  ASSUME NEW x \in Nat, NEW m \in Nat \ {0}
  PROVE  /\ x = m * (x \div m) + (x % m)
         /\ x \div m \in Nat
         /\ x % m \in 0 .. (m - 1)
<1>1. x \div m \in Nat /\ x % m \in 0 .. (m - 1)
  OBVIOUS
<1>2. x = m * (x \div m) + (x % m)
  OBVIOUS
<1> QED BY <1>1, <1>2

(* Multiplication by a positive number is strictly monotonic.              *)
LEMMA MultLess ==
  ASSUME NEW x \in Int, NEW y \in Int, NEW m \in Nat \ {0}, x < y
  PROVE  m * x + m <= m * y
<1>1. PICK k \in Nat : y = x + 1 + k
  <2>1. y - x - 1 \in Nat /\ y = x + 1 + (y - x - 1)
    OBVIOUS
  <2> QED BY <2>1
<1>2. m * k \in Nat
  BY <1>1
<1>3. m * (x + 1 + k) = m * x + m + m * k
  BY <1>1
<1> QED BY <1>1, <1>2, <1>3

(* Division undoes a multiplication.                                       *)
LEMMA DivOfMult ==
  ASSUME NEW x \in Nat, NEW m \in Nat \ {0}
  PROVE  (x * m) \div m = x
<1> DEFINE q == (x * m) \div m
<1>1. x * m \in Nat
  OBVIOUS
<1>2. x * m = m * q + ((x * m) % m) /\ q \in Nat /\ (x * m) % m \in 0 .. (m - 1)
  BY <1>1, DivMod
<1>3. x * m = m * x
  OBVIOUS
<1>4. CASE q < x
  <2>1. m * q + m <= m * x
    BY <1>2, <1>4, MultLess
  <2> QED BY <2>1, <1>1, <1>2, <1>3
<1>5. CASE x < q
  <2>1. m * x + m <= m * q
    BY <1>2, <1>5, MultLess
  <2> QED BY <2>1, <1>1, <1>2, <1>3
<1> QED BY <1>2, <1>4, <1>5

(* ms_diff: the difference is exact as long as the milliseconds within the *)
(* second have not gone below those of the start and the interval fits in  *)
(* 32 bits.                                                                *)
THEOREM MsDiffExact ==
  ASSUME NEW s \in Nat, NEW n \in Nat, s <= n, n - s < Width32,
         s % MsPerSec <= n % MsPerSec
  PROVE  ms_diff(ToTimespec(s), ToTimespec(n)) = n - s
<1> DEFINE qs == s \div MsPerSec  rs == s % MsPerSec
           qn == n \div MsPerSec  rn == n % MsPerSec
<1>1. /\ s = MsPerSec * qs + rs /\ qs \in Nat /\ rs \in 0 .. (MsPerSec - 1)
      /\ n = MsPerSec * qn + rn /\ qn \in Nat /\ rn \in 0 .. (MsPerSec - 1)
  BY DivMod, UnitsAssumption
<1> HIDE DEF qs, rs, qn, rn
<1>2. rs <= rn
  BY DEF rs, rn
<1>3. MsPerSec \in Nat \ {0} /\ NsPerMs \in Nat \ {0}
  BY UnitsAssumption
<1>4. qs <= qn
  <2>1. SUFFICES ASSUME qn < qs PROVE FALSE
    BY <1>1
  <2>2. MsPerSec * qn + MsPerSec <= MsPerSec * qs
    BY <1>1, <1>3, <2>1, MultLess
  <2>3. MsPerSec * qn \in Nat /\ MsPerSec * qs \in Nat
    BY <1>1, <1>3
  <2> QED BY <1>1, <1>3, <2>2, <2>3
<1>5. MsPerSec * (qn - qs) + (rn - rs) = n - s
  <2>1. MsPerSec * (qn - qs) = MsPerSec * qn - MsPerSec * qs
    BY <1>1, <1>3
  <2>2. MsPerSec * qn \in Nat /\ MsPerSec * qs \in Nat
    BY <1>1, <1>3
  <2> QED BY <1>1, <2>1, <2>2
<1>6. qn - qs \in Nat /\ qn - qs <= n - s
  <2>1. MsPerSec * (qn - qs) >= qn - qs
    BY <1>1, <1>3, <1>4
  <2> QED BY <1>1, <1>2, <1>4, <1>5, <2>1, <1>3
<1>7. AsU64(qn - qs) = qn - qs
  BY <1>6, WidthAssumption DEF AsU64
<1>8. (rn - rs) * NsPerMs \in 0 .. (Width64 - 1)
  <2>1. rn - rs \in Nat /\ rn - rs < MsPerSec
    BY <1>1, <1>2, <1>3
  <2>2. NsPerMs * (rn - rs) + NsPerMs <= NsPerMs * MsPerSec
    BY <2>1, <1>3, MultLess
  <2>3. (rn - rs) * NsPerMs = NsPerMs * (rn - rs) /\ (rn - rs) * NsPerMs \in Nat
    BY <2>1, <1>3
  <2>4. NsPerMs * MsPerSec = MsPerSec * NsPerMs /\ MsPerSec * NsPerMs \in Nat
    BY <1>3
  <2> QED BY <2>2, <2>3, <2>4, <1>3, WidthAssumption
<1>9. AsU64(rn * NsPerMs - rs * NsPerMs) \div NsPerMs = rn - rs
  <2>1. rn * NsPerMs - rs * NsPerMs = (rn - rs) * NsPerMs
    BY <1>1, <1>3
  <2>2. AsU64((rn - rs) * NsPerMs) = (rn - rs) * NsPerMs
    BY <1>8, WidthAssumption DEF AsU64
  <2>3. rn - rs \in Nat
    BY <1>1, <1>2, <1>3
  <2> QED BY <2>1, <2>2, <2>3, <1>3, DivOfMult
<1>10. (qn - qs) * MsPerSec + (rn - rs) = n - s
  BY <1>1, <1>3, <1>5
<1>11. ((n - s) % Width64) % Width32 = n - s
  BY WidthAssumption
<1> QED BY <1>7, <1>9, <1>10, <1>11 DEF ms_diff, ToTimespec, qs, rs, qn, rn

-----------------------------------------------------------------------------
(* Type correctness.                                                       *)

USE DEF Timer, Timespec

LEMMA ElapsedType ==
  ASSUME NEW t \in Timer, NEW now \in Nat
  PROVE  Elapsed(t, now) \in 0 .. (Width32 - 1)
BY MsDiffType, ToTimespecType DEF Elapsed

LEMMA BeginType ==
  ASSUME NEW kind, NEW t \in Timer, NEW now \in Nat
  PROVE  Begin(kind, t, now) \in Timer
BY ToTimespecType DEF Begin, Started

LEMMA AccumulateType ==
  ASSUME NEW t \in Timer, NEW now \in Nat
  PROVE  Accumulate(t, now) \in Timer
<1>1. Elapsed(t, now) \in Nat /\ t.ET \in Nat
  BY ElapsedType, WidthAssumption
<1>2. (t.ET + Elapsed(t, now)) % Width32 \in 0 .. (Width32 - 1)
  BY <1>1, WidthAssumption
<1> QED BY <1>2, ToTimespecType DEF Accumulate

LEMMA ExpireType ==
  ASSUME NEW t \in Timer, NEW on \in BOOLEAN
  PROVE  Expire(t, on) \in Timer
BY DEF Expire

LEMMA ZeroET ==
  ASSUME NEW t \in Timer
  PROVE  [t EXCEPT !.ET = 0] \in Timer
BY WidthAssumption

LEMMA MeasuredType ==
  ASSUME NEW t \in Timer, NEW now \in Nat
  PROVE  [t EXCEPT !.ET = Elapsed(t, now)] \in Timer
BY ElapsedType

LEMMA BypassType ==
  ASSUME NEW t \in Timer PROVE Bypass(t) \in Timer
<1>1. 0 \in 0 .. (Width32 - 1)
  BY WidthAssumption
<1>2. [t EXCEPT !.output = FALSE] \in Timer
  OBVIOUS
<1>3. [[t EXCEPT !.output = FALSE] EXCEPT !.ET = 0] \in Timer
  BY <1>2, ZeroET
<1> QED BY <1>3 DEF Bypass

(* update_ton .. update_tofr: an update of a block yields a block.         *)
LEMMA UpdateType ==
  ASSUME NEW kind \in AllKinds, NEW t \in Timer, NEW now \in Nat
  PROVE  Update(kind, t, now) \in Timer
<1> DEFINE B(k) == Begin(k, t, now)
           M(k) == [B(k) EXCEPT !.ET = Elapsed(B(k), now)]
           A(k) == Accumulate(B(k), now)
<1>1. ASSUME NEW k PROVE B(k) \in Timer /\ M(k) \in Timer /\ A(k) \in Timer
  BY BeginType, MeasuredType, AccumulateType
<1>2. Bypass(t) \in Timer
  BY BypassType
<1>3. ASSUME NEW u \in Timer, NEW on \in BOOLEAN
      PROVE  /\ Expire(u, on) \in Timer
             /\ [Expire(u, on) EXCEPT !.ET = 0] \in Timer
  BY ExpireType, ZeroET
<1>4. ASSUME NEW u \in Timer, NEW on \in BOOLEAN
      PROVE  [u EXCEPT !.output = on] \in Timer
  OBVIOUS
<1> HIDE DEF B, M, A, Timer
<1>5. update_ton(t, now) \in Timer
  <2> DEFINE m == IF B("ton").timing THEN M("ton") ELSE B("ton")
  <2>1. m \in Timer
    BY <1>1
  <2>2. update_ton(t, now) \in {Bypass(t), [Expire(B("ton"), FALSE) EXCEPT !.ET = 0],
                                Expire(m, TRUE), m}
    BY DEF update_ton, B, M
  <2> QED BY <1>1, <1>2, <1>3, <2>1, <2>2
<1>6. update_tof(t, now) \in Timer
  <2>1. update_tof(t, now) \in {Bypass(t), [Expire(B("tof"), TRUE) EXCEPT !.ET = 0],
                                B("tof"), Expire(M("tof"), FALSE),
                                [M("tof") EXCEPT !.output = TRUE]}
    BY DEF update_tof, B, M
  <2> QED BY <1>1, <1>2, <1>3, <1>4, <2>1
<1>7. update_tp(t, now) \in Timer
  <2> DEFINE b == [B("tp") EXCEPT !.output = @ \/ Started("tp", t)]
             m == [b EXCEPT !.ET = Elapsed(b, now)]
  <2>1. B("tp").output \/ Started("tp", t) \in BOOLEAN
    BY <1>1 DEF Timer, Started
  <2>2. b \in Timer
    BY <1>1, <1>4, <2>1
  <2>3. m \in Timer
    BY <2>2, MeasuredType
  <2>4. update_tp(t, now) \in {Bypass(t), b, Expire(m, FALSE), m}
    BY DEF update_tp, B
  <2> HIDE DEF b, m
  <2> QED BY <1>2, <1>3, <2>2, <2>3, <2>4
<1>8. update_tonr(t, now) \in Timer
  <2> DEFINE m == IF B("tonr").timing THEN A("tonr") ELSE B("tonr")
  <2>1. m \in Timer
    BY <1>1
  <2>2. update_tonr(t, now) \in {t, B("tonr"), Expire(m, TRUE), m}
    BY DEF update_tonr, B, A
  <2> QED BY <1>1, <1>3, <2>1, <2>2
<1>9. update_tofr(t, now) \in Timer
  <2> DEFINE u == IF B("tofr").timing THEN A("tofr") ELSE B("tofr")
  <2>1. u \in Timer
    BY <1>1
  <2>2. update_tofr(t, now) \in {t, [Expire(u, TRUE) EXCEPT !.ET = 0], B("tofr"),
                                 Expire(A("tofr"), FALSE),
                                 [A("tofr") EXCEPT !.output = TRUE]}
    BY DEF update_tofr, B, A
  <2> QED BY <1>1, <1>3, <1>4, <2>1, <2>2
<1> QED BY <1>5, <1>6, <1>7, <1>8, <1>9 DEF Update, AllKinds

(* Observe: the history of a block stays well-typed, and its edge is never *)
(* in the future.                                                          *)
HistoryOf(now) == {h \in [edge : 0 .. MaxTime, on : Nat, exact : BOOLEAN] :
                     h.edge <= now}

LEMMA ObserveType ==
  ASSUME NEW kind, NEW now \in 0 .. MaxTime, NEW h \in HistoryOf(now),
         NEW t \in Timer, NEW changed \in BOOLEAN
  PROVE  Observe(kind, h, t, now, changed) \in HistoryOf(now)
<1>1. Faithful(kind, t, now, changed, h.exact) \in BOOLEAN
  BY DEF Faithful, HistoryOf, Started, Bypassed, Borrows
<1>2. now - h.edge \in Nat /\ h.on + (now - h.edge) \in Nat
  BY DEF HistoryOf
<1> QED BY <1>1, <1>2 DEF Observe, HistoryOf

(* The inductive invariant behind TypeOK: TONR's on-time is a natural      *)
(* number because no edge lies in the future.                              *)
TypeInv == /\ kinds \in Programs
           /\ time_ms \in 0 .. MaxTime
           /\ timers \in [Blocks -> Timer]
           /\ history \in [Blocks -> HistoryOf(time_ms)]

LEMMA BlockKind ==
  ASSUME kinds \in Programs, NEW b \in Blocks
  PROVE  b[1] \in AllKinds /\ b = <<b[1], b[2]>> /\ b[2] \in 0 .. (MaxTimers - 1)
BY ProgramsAssumption DEF Blocks

LEMMA SameBlocks ==
  ASSUME TypeInv, [Next]_vars PROVE kinds' \in Programs /\ Blocks' = Blocks
BY DEF TypeInv, Next, vars, SetTimer, ExecuteInstruction, EndOfScan,
       ResetAndRun, Blocks

LEMMA LaterHistory ==
  ASSUME NEW m \in 0 .. MaxTime, NEW n \in 0 .. MaxTime, m <= n
  PROVE  HistoryOf(m) \subseteq HistoryOf(n)
BY DEF HistoryOf

LEMMA TypeInvInit == Init => TypeInv
<1> SUFFICES ASSUME Init PROVE TypeInv
  OBVIOUS
<1>1. time_ms \in 0 .. MaxTime
  BY UnitsAssumption, WidthAssumption DEF Init
<1>2. ZeroTimer \in Timer
  BY WidthAssumption DEF ZeroTimer
<1>3. ZeroHistory \in HistoryOf(time_ms)
  BY <1>1, WidthAssumption DEF ZeroHistory, HistoryOf
<1> QED BY <1>1, <1>2, <1>3 DEF Init, TypeInv

LEMMA TypeInvStep == TypeInv /\ [Next]_vars => TypeInv'
<1> SUFFICES ASSUME TypeInv, [Next]_vars PROVE TypeInv'
  OBVIOUS
<1>0. kinds' \in Programs /\ Blocks' = Blocks
  BY SameBlocks
<1> USE DEF TypeInv
<1>1. ASSUME NEW kind \in kinds, NEW id \in 0 .. MaxTimers, NEW in \in BOOLEAN,
             NEW pt \in Presets, SetTimer(kind, id, in, pt)
      PROVE  TypeInv'
  <2> DEFINE b == <<kind, id>>
             t == [timers[b] EXCEPT !.input = in, !.preset_ms = pt, !.enabled = TRUE]
  <2>1. b \in Blocks /\ kind \in AllKinds
    <3>1. kinds \in SUBSET AllKinds
      BY ProgramsAssumption
    <3>2. id \in 0 .. (MaxTimers - 1)
      BY <1>1, TimersAssumption DEF SetTimer
    <3> QED BY <3>1, <3>2 DEF Blocks
  <2>2. t \in Timer
    <3>1. timers[b] \in Timer /\ pt \in 0 .. (Width32 - 1)
      BY <2>1, PresetsAssumption
    <3> QED BY <3>1
  <2>3. time_ms \in Nat
    OBVIOUS
  <2>4. Update(kind, t, time_ms) \in Timer
    BY <2>1, <2>2, <2>3, UpdateType
  <2>5. (in # timers[b].input) \in BOOLEAN
    OBVIOUS
  <2>6. Observe(kind, history[b], t, time_ms, in # timers[b].input)
          \in HistoryOf(time_ms)
    BY <2>1, <2>2, <2>5, ObserveType
  <2> QED BY <1>0, <1>1, <2>1, <2>4, <2>6 DEF SetTimer
<1>2. ASSUME NEW d \in 1 .. MsPerSec, ExecuteInstruction(d)
      PROVE  TypeInv'
  <2>1. time_ms' \in 0 .. MaxTime /\ time_ms <= time_ms'
    BY <1>2, UnitsAssumption DEF ExecuteInstruction
  <2>2. HistoryOf(time_ms) \subseteq HistoryOf(time_ms')
    BY <2>1, LaterHistory
  <2> QED BY <1>0, <1>2, <2>1, <2>2 DEF ExecuteInstruction
<1>3. ASSUME NEW d \in 0 .. MsPerSec, EndOfScan(d)
      PROVE  TypeInv'
  <2>1. time_ms' = time_ms + d /\ time_ms' \in 0 .. MaxTime /\ time_ms <= time_ms'
    BY <1>3, UnitsAssumption DEF EndOfScan
  <2>2. ASSUME NEW b \in Blocks
        PROVE  /\ Update(b[1], timers[b], time_ms') \in Timer
               /\ Observe(b[1], history[b], timers[b], time_ms', FALSE)
                    \in HistoryOf(time_ms')
    <3>1. HistoryOf(time_ms) \subseteq HistoryOf(time_ms')
      BY <2>1, LaterHistory
    <3>2. time_ms' \in Nat
      BY <2>1
    <3> QED BY <2>1, <3>1, <3>2, BlockKind, UpdateType, ObserveType
  <2> QED BY <1>0, <1>3, <2>1, <2>2 DEF EndOfScan
<1>4. ASSUME NEW now \in 0 .. MsPerSec - 1, now <= MaxTime, ResetAndRun(now)
      PROVE  TypeInv'
  <2>1. now \in 0 .. MaxTime
    BY <1>4, UnitsAssumption, WidthAssumption
  <2>2. ASSUME NEW b \in Blocks PROVE ClearedTimer(b[1], timers[b]) \in Timer
    <3>1. ZeroTimer \in Timer
      BY WidthAssumption DEF ZeroTimer
    <3>2. timers[b] \in Timer
      OBVIOUS
    <3>3. [timers[b] EXCEPT !.enabled = FALSE] \in Timer
      BY <3>2
    <3>4. [ZeroTimer EXCEPT !.start = timers[b].start] \in Timer
      BY <3>1, <3>2
    <3> QED BY <3>3, <3>4 DEF ClearedTimer
  <2>3. ASSUME NEW b \in Blocks
        PROVE  [edge |-> now, on |-> 0, exact |-> b[1] \notin {"tonr", "tofr"}]
                 \in HistoryOf(now)
    BY <2>1 DEF HistoryOf
  <2> QED BY <1>0, <1>4, <2>1, <2>2, <2>3 DEF ResetAndRun
<1>5. CASE UNCHANGED vars
  BY <1>0, <1>5 DEF vars
<1> QED BY <1>1, <1>2, <1>3, <1>4, <1>5 DEF Next

(* The state of the timer blocks is well-typed in every reachable state:   *)
(* ET and preset_ms stay uint32_t and no interval starts in the future,    *)
(* through any sequence of settings, scans and resets.                     *)
THEOREM TypeCorrect == Spec => []TypeOK
<1>1. TypeInv => TypeOK
  BY DEF TypeInv, TypeOK, HistoryOf
<1> QED BY <1>1, TypeInvInit, TypeInvStep, PTL DEF Spec

-----------------------------------------------------------------------------
(* The on-delay is never early.                                            *)

(* What a faithful measurement means for a TON block: the update has       *)
(* sampled the input, and an interval under way has the edge for its start.*)
Measures(t, h) ==
  h.exact => /\ t.prev_input = t.input
             /\ t.timing => t.input /\ t.start = ToTimespec(h.edge)

TonInv == TypeInv /\ \A b \in BlocksOf("ton") : Measures(timers[b], history[b])

(* What an update of t into u, with history h, may do to the output.       *)
NotEarly(t, u, h, now) ==
  ~t.output /\ u.output => u.input /\ (h.exact => now - h.edge >= u.preset_ms)

LEMMA MsPartOfTimespec ==
  ASSUME NEW ms \in Nat
  PROVE  MsPart(ToTimespec(ms)) = ms % MsPerSec
BY DivMod, DivOfMult, UnitsAssumption DEF MsPart, ToTimespec

(* One update of a TON block whose input was set in this step (changed:    *)
(* to the opposite of what it was) or left as it is.                       *)
LEMMA TonUpdate ==
  ASSUME NEW t \in Timer, NEW now \in 0 .. MaxTime, NEW h \in HistoryOf(now),
         NEW changed \in BOOLEAN,
         h.exact => t.prev_input = (IF changed THEN ~t.input ELSE t.input),
         h.exact /\ t.timing => t.prev_input /\ t.start = ToTimespec(h.edge)
  PROVE  LET u == update_ton(t, now)
             g == Observe("ton", h, t, now, changed)
         IN Measures(u, g) /\ NotEarly(t, u, g, now)
<1> DEFINE u == update_ton(t, now)
           g == Observe("ton", h, t, now, changed)
           b == Begin("ton", t, now)
           m == IF b.timing THEN [b EXCEPT !.ET = Elapsed(b, now)] ELSE b
<1> SUFFICES Measures(u, g) /\ NotEarly(t, u, g, now)
  OBVIOUS
<1>0. now \in Nat /\ h.edge \in Nat /\ h.edge <= now /\ now - h.edge < Width32
  BY WidthAssumption DEF HistoryOf
<1>1. b \in Timer /\ m \in Timer
  BY <1>0, BeginType, MeasuredType
<1>2. g.exact = Faithful("ton", t, now, changed, h.exact)
  BY DEF Observe
<1>3. CASE Bypassed(t)
  <2>1. ~g.exact
    BY <1>2, <1>3 DEF Faithful
  <2>2. ~u.output
    BY <1>3 DEF update_ton, Bypass
  <2> QED BY <2>1, <2>2 DEF Measures, NotEarly
<1>4. CASE ~Bypassed(t) /\ ~t.input
  <2>1. u = [Expire(b, FALSE) EXCEPT !.ET = 0]
    BY <1>4 DEF update_ton
  <2>2. ~u.output /\ ~u.timing /\ u.prev_input = u.input
    BY <1>1, <2>1 DEF Expire, Begin
  <2> QED BY <2>2 DEF Measures, NotEarly
<1>5. CASE ~Bypassed(t) /\ t.input /\ ~t.prev_input
  <2>1. /\ Started("ton", t) /\ t.preset_ms # 0
        /\ b.start = ToTimespec(now) /\ b.timing /\ b.input /\ b.prev_input
        /\ b.preset_ms = t.preset_ms /\ b.output = t.output
    BY <1>5 DEF Started, Begin, Bypassed
  <2>2. g.exact => changed
    BY <1>2, <2>1 DEF Faithful
  <2>3. changed => g.edge = now
    BY <1>5 DEF Observe, Starts
  <2>4. Elapsed(b, now) = 0
    BY <1>0, <2>1, MsDiffExact, WidthAssumption, UnitsAssumption DEF Elapsed
  <2>5. m = [b EXCEPT !.ET = 0]
    BY <2>1, <2>4
  <2>6. ~(m.ET >= m.preset_ms)
    BY <1>1, <2>1, <2>5
  <2>7. u = m
    BY <1>5, <2>6 DEF update_ton
  <2> QED BY <1>1, <2>1, <2>2, <2>3, <2>5, <2>7 DEF Measures, NotEarly
<1>6. CASE ~Bypassed(t) /\ t.input /\ t.prev_input
  <2>1. /\ ~Started("ton", t)
        /\ b.start = t.start /\ b.timing = t.timing /\ b.input /\ b.prev_input
        /\ b.preset_ms = t.preset_ms /\ b.output = t.output
    BY <1>6 DEF Started, Begin
  <2>2. ASSUME g.exact
        PROVE  /\ h.exact /\ ~changed /\ g.edge = h.edge
               /\ t.timing => t.start = ToTimespec(h.edge)
                              /\ Elapsed(b, now) = now - h.edge
    <3>1. h.exact /\ (t.timing => ~Borrows(t, now))
      BY <1>2, <1>6, <2>1, <2>2 DEF Faithful, Bypassed
    <3>2. ~changed /\ g.edge = h.edge
      BY <1>6, <3>1 DEF Observe
    <3>3. ASSUME t.timing
          PROVE  t.start = ToTimespec(h.edge) /\ Elapsed(b, now) = now - h.edge
      <4>1. t.start = ToTimespec(h.edge)
        BY <3>1, <3>3
      <4>2. ~(now % MsPerSec < h.edge % MsPerSec)
        BY <1>0, <3>1, <3>3, <4>1, MsPartOfTimespec DEF Borrows
      <4>3. h.edge % MsPerSec <= now % MsPerSec
        <5>1. now % MsPerSec \in Nat /\ h.edge % MsPerSec \in Nat
          BY <1>0, UnitsAssumption
        <5> QED BY <4>2, <5>1
      <4> QED BY <1>0, <2>1, <4>1, <4>3, MsDiffExact DEF Elapsed
    <3> QED BY <3>1, <3>2, <3>3
  <2>3. CASE m.timing /\ m.ET >= m.preset_ms
    <3>1. u = Expire(m, TRUE)
      BY <1>6, <2>3 DEF update_ton
    <3>2. b.timing /\ m = [b EXCEPT !.ET = Elapsed(b, now)]
      BY <2>3
    <3>3. /\ ~u.timing /\ u.input /\ u.prev_input /\ u.preset_ms = t.preset_ms
          /\ Elapsed(b, now) >= t.preset_ms
      BY <1>1, <2>1, <2>3, <3>1, <3>2 DEF Expire
    <3> QED BY <2>1, <2>2, <3>2, <3>3 DEF Measures, NotEarly
  <2>4. CASE ~(m.timing /\ m.ET >= m.preset_ms)
    <3>1. u = m
      BY <1>6, <2>4 DEF update_ton
    <3>2. /\ u.output = t.output /\ u.input /\ u.prev_input
          /\ u.timing = t.timing /\ u.start = t.start
      BY <1>1, <2>1, <3>1
    <3> QED BY <2>2, <3>2 DEF Measures, NotEarly
  <2> QED BY <2>3, <2>4
<1> QED BY <1>3, <1>4, <1>5, <1>6

LEMMA TonInvInit == Init => TonInv
<1> SUFFICES ASSUME Init, NEW b \in BlocksOf("ton")
             PROVE  Measures(timers[b], history[b])
  BY TypeInvInit DEF TonInv
<1> QED BY DEF Init, BlocksOf, Measures, ZeroTimer

(* One step: the invariant is kept, and no output of a TON block rises     *)
(* early.                                                                  *)
TonStep(b) == /\ Measures(timers'[b], history'[b])
              /\ NotEarly(timers[b], timers'[b], history'[b], time_ms')

LEMMA TonInvStep ==
  ASSUME TonInv, [Next]_vars, NEW b \in BlocksOf("ton")
  PROVE  TonStep(b)
<1> USE DEF TonInv, TypeInv
<1>0. /\ b \in Blocks /\ b[1] = "ton" /\ timers[b] \in Timer
      /\ history[b] \in HistoryOf(time_ms) /\ Measures(timers[b], history[b])
  BY DEF BlocksOf
<1>1. ASSUME NEW kind \in kinds, NEW id \in 0 .. MaxTimers, NEW in \in BOOLEAN,
             NEW pt \in Presets, SetTimer(kind, id, in, pt)
      PROVE  TonStep(b)
  <2> DEFINE t == [timers[b] EXCEPT !.input = in, !.preset_ms = pt, !.enabled = TRUE]
             changed == in # timers[b].input
  <2>1. CASE b = <<kind, id>>
    <3>1. kind = "ton"
      BY <1>0, <2>1
    <3>2. /\ timers'[b] = update_ton(t, time_ms)
          /\ history'[b] = Observe("ton", history[b], t, time_ms, changed)
          /\ time_ms' = time_ms
      BY <1>0, <1>1, <2>1, <3>1 DEF SetTimer, Update
    <3>3. t \in Timer /\ changed \in BOOLEAN
      BY <1>0, PresetsAssumption
    <3>4. /\ t.input = in /\ t.prev_input = timers[b].prev_input
          /\ t.timing = timers[b].timing /\ t.start = timers[b].start
          /\ t.output = timers[b].output
      BY <1>0
    <3>5. history[b].exact => t.prev_input = (IF changed THEN ~t.input ELSE t.input)
      BY <1>0, <3>4 DEF Measures
    <3>6. history[b].exact /\ t.timing
            => t.prev_input /\ t.start = ToTimespec(history[b].edge)
      BY <1>0, <3>4 DEF Measures
    <3> HIDE DEF t, changed
    <3>7. /\ Measures(timers'[b], history'[b])
          /\ NotEarly(t, timers'[b], history'[b], time_ms)
      BY <1>0, <3>2, <3>3, <3>5, <3>6, TonUpdate
    <3> QED BY <3>2, <3>4, <3>7 DEF TonStep, NotEarly
  <2>2. CASE b # <<kind, id>>
    <3>1. timers'[b] = timers[b] /\ history'[b] = history[b]
      BY <1>0, <1>1, <2>2 DEF SetTimer
    <3> QED BY <1>0, <3>1 DEF TonStep, NotEarly
  <2> QED BY <2>1, <2>2
<1>2. ASSUME NEW d \in 1 .. MsPerSec, ExecuteInstruction(d)
      PROVE  TonStep(b)
  BY <1>0, <1>2 DEF ExecuteInstruction, TonStep, NotEarly
<1>3. ASSUME NEW d \in 0 .. MsPerSec, EndOfScan(d)
      PROVE  TonStep(b)
  <2>1. time_ms' = time_ms + d /\ time_ms' \in 0 .. MaxTime /\ time_ms <= time_ms'
    BY <1>3, UnitsAssumption DEF EndOfScan
  <2>2. history[b] \in HistoryOf(time_ms')
    BY <1>0, <2>1, LaterHistory
  <2>3. /\ timers'[b] = update_ton(timers[b], time_ms')
        /\ history'[b] = Observe("ton", history[b], timers[b], time_ms', FALSE)
    BY <1>0, <1>3, <2>1 DEF EndOfScan, Update
  <2>4. /\ Measures(timers'[b], history'[b])
        /\ NotEarly(timers[b], timers'[b], history'[b], time_ms')
    <3>1. history[b].exact =>
            timers[b].prev_input = (IF FALSE THEN ~timers[b].input ELSE timers[b].input)
      BY <1>0 DEF Measures
    <3>2. history[b].exact /\ timers[b].timing
            => timers[b].prev_input /\ timers[b].start = ToTimespec(history[b].edge)
      BY <1>0 DEF Measures
    <3>3. timers[b] \in Timer /\ FALSE \in BOOLEAN
      BY <1>0
    <3> HIDE DEF TonInv, TypeInv, Timer
    <3> QED BY <2>1, <2>2, <2>3, <3>1, <3>2, <3>3, TonUpdate
  <2> QED BY <2>4 DEF TonStep
<1>4. ASSUME NEW now \in 0 .. MsPerSec - 1, now <= MaxTime, ResetAndRun(now)
      PROVE  TonStep(b)
  <2>1. timers'[b] = [ZeroTimer EXCEPT !.start = timers[b].start]
    BY <1>0, <1>4 DEF ResetAndRun, ClearedTimer
  <2> QED BY <2>1 DEF TonStep, Measures, NotEarly, ZeroTimer
<1>5. CASE UNCHANGED vars
  BY <1>0, <1>5 DEF vars, TonStep, NotEarly
<1> QED BY <1>1, <1>2, <1>3, <1>4, <1>5 DEF Next

(* update_ton: through any sequence of settings, presets, scans and        *)
(* resets, the output of an on-delay rises only with its input on, and     *)
(* not before the preset time has passed since the input came on, unless   *)
(* the measurement was disturbed by a zero preset or by a borrow in        *)
(* ms_diff.                                                                *)
THEOREM TonIsNeverEarly == Spec => TonNeverEarly
<1>1. ASSUME TonInv, [Next]_vars PROVE TonInv'
  <2>1. TypeInv'
    BY <1>1, TypeInvStep DEF TonInv
  <2>2. ASSUME NEW b \in BlocksOf("ton") PROVE Measures(timers'[b], history'[b])
    BY <1>1, TonInvStep DEF TonStep
  <2>3. BlocksOf("ton")' = BlocksOf("ton")
    BY <1>1, SameBlocks DEF TonInv, BlocksOf
  <2> QED BY <2>1, <2>2, <2>3 DEF TonInv
<1> DEFINE Safe == \A b \in BlocksOf("ton") : Rises(b) =>
                     timers'[b].input /\ (history'[b].exact => PresetReached(b))
<1>2. ASSUME TonInv, [Next]_vars PROVE Safe
  BY <1>2, TonInvStep DEF TonStep, NotEarly, Rises, PresetReached, SinceEdge
<1>3. TonInv /\ [Next]_vars => [Safe]_vars
  BY <1>2
<1> QED BY <1>1, <1>3, TonInvInit, PTL DEF Spec, TonNeverEarly

-----------------------------------------------------------------------------
(* The retentive on-delay never counts too much.                           *)

(* While the input is on, ET is accounted for up to a moment s after its   *)
(* edge, from which an interval under way is measured.                     *)
Accounted(t, h, now) ==
  h.exact =>
    /\ t.prev_input = t.input
    /\ ~t.input => t.ET <= h.on
    /\ t.input => \E s \in h.edge .. now :
                    /\ t.ET <= h.on + (s - h.edge)
                    /\ t.timing => t.start = ToTimespec(s)

TonrInv ==
  TypeInv /\ \A b \in BlocksOf("tonr") : Accounted(timers[b], history[b], time_ms)

LEMMA ModIsLess ==
  ASSUME NEW x \in Nat, NEW m \in Nat \ {0} PROVE x % m <= x
<1>1. CASE x < m
  BY <1>1
<1>2. CASE ~(x < m)
  BY <1>2
<1> QED BY <1>1, <1>2

LEMMA AccountedLater ==
  ASSUME NEW t \in Timer, NEW m \in 0 .. MaxTime, NEW n \in 0 .. MaxTime, m <= n,
         NEW h \in HistoryOf(m), Accounted(t, h, m)
  PROVE  Accounted(t, h, n)
BY WidthAssumption DEF Accounted, HistoryOf

(* One update of a TONR block, as for TonUpdate.                           *)
LEMMA TonrUpdate ==
  ASSUME NEW t \in Timer, NEW now \in 0 .. MaxTime, NEW h \in HistoryOf(now),
         NEW changed \in BOOLEAN, NEW old \in Timer,
         Accounted(old, h, now),
         t.prev_input = old.prev_input, t.timing = old.timing,
         t.start = old.start, t.ET = old.ET,
         t.input = (IF changed THEN ~old.input ELSE old.input),
         changed => t.enabled
  PROVE  Accounted(update_tonr(t, now), Observe("tonr", h, t, now, changed), now)
<1> DEFINE u == update_tonr(t, now)
           g == Observe("tonr", h, t, now, changed)
           b == Begin("tonr", t, now)
           a == Accumulate(b, now)
           m == IF b.timing THEN a ELSE b
<1> SUFFICES ASSUME g.exact PROVE Accounted(u, g, now)
  BY DEF Accounted
<1>0. /\ now \in Nat /\ h.edge \in Nat /\ h.edge <= now /\ now - h.edge < Width32
      /\ h.on \in Nat /\ t.ET \in Nat /\ t.ET < Width32
      /\ Width32 \in Nat \ {0}
  BY WidthAssumption DEF HistoryOf
<1>1. b \in Timer /\ a \in Timer
  BY <1>0, BeginType, AccumulateType
<1>2. Faithful("tonr", t, now, changed, h.exact)
  BY DEF Observe
<1>3. h.exact
  BY <1>2 DEF Faithful
<1>4. /\ old.prev_input = old.input
      /\ ~old.input => t.ET <= h.on
      /\ old.input => \E s \in h.edge .. now :
                        /\ t.ET <= h.on + (s - h.edge)
                        /\ t.timing => t.start = ToTimespec(s)
  BY <1>3 DEF Accounted
<1>5. /\ g.edge = (IF changed /\ t.input THEN now ELSE h.edge)
      /\ g.on = (IF changed /\ ~t.input THEN h.on + (now - h.edge) ELSE h.on)
  BY <1>3 DEF Observe, Starts
<1>6. CASE ~t.enabled
  <2>1. u = t /\ ~changed
    BY <1>6 DEF update_tonr
  <2> QED BY <1>4, <1>5, <2>1 DEF Accounted
<1>7. CASE t.enabled /\ ~t.input
  <2>1. u = b
    BY <1>7 DEF update_tonr
  <2>2. u.prev_input = u.input /\ ~u.input /\ u.ET = t.ET
    BY <1>7, <2>1 DEF Begin
  <2>3. CASE changed
    <3>1. PICK s \in h.edge .. now : t.ET <= h.on + (s - h.edge)
      BY <1>4, <1>7, <2>3
    <3>2. t.ET <= h.on + (now - h.edge)
      BY <1>0, <3>1
    <3>3. g.on = h.on + (now - h.edge)
      BY <1>5, <1>7, <2>3
    <3> HIDE DEF u, g
    <3> QED BY <2>2, <3>2, <3>3 DEF Accounted
  <2>4. CASE ~changed
    <3>1. t.ET <= h.on /\ g.on = h.on
      BY <1>4, <1>5, <1>7, <2>4
    <3> HIDE DEF u, g
    <3> QED BY <2>2, <3>1 DEF Accounted
  <2> QED BY <2>3, <2>4
<1>8. CASE t.enabled /\ t.input
  <2>1. u = (IF m.ET >= m.preset_ms THEN Expire(m, TRUE) ELSE m)
    BY <1>8 DEF update_tonr
  <2>2. b.input /\ b.prev_input /\ b.ET = t.ET
    BY <1>8 DEF Begin
  <2>3. /\ a.input /\ a.prev_input /\ a.timing = b.timing
        /\ a.ET = (t.ET + Elapsed(b, now)) % Width32
        /\ a.start = ToTimespec(now)
    BY <1>1, <2>2 DEF Accumulate
  <2>4. /\ u.input /\ u.prev_input /\ u.ET = m.ET
        /\ u.timing => m.timing /\ u.start = m.start
    <3>1. m.input /\ m.prev_input /\ m \in Timer
      BY <1>1, <2>2, <2>3
    <3> HIDE DEF m
    <3> QED BY <2>1, <3>1 DEF Expire
  <2>5. ASSUME NEW s \in g.edge .. now, m.ET <= g.on + (s - g.edge),
               m.timing => m.start = ToTimespec(s)
        PROVE  Accounted(u, g, now)
    BY <2>4, <2>5 DEF Accounted
  <2>6. CASE changed
    <3>1. /\ Started("tonr", t) /\ t.ET <= h.on
          /\ g.edge = now /\ g.on = h.on
      BY <1>4, <1>5, <1>8, <2>6 DEF Started
    <3>2. b.timing /\ b.start = ToTimespec(now)
      BY <3>1 DEF Begin
    <3>3. Elapsed(b, now) = 0
      BY <1>0, <3>2, MsDiffExact, WidthAssumption, UnitsAssumption DEF Elapsed
    <3>4. a.ET <= t.ET
      <4>1. a.ET = t.ET % Width32
        BY <1>0, <2>3, <3>3
      <4> QED BY <1>0, <4>1, ModIsLess
    <3>5. m = a /\ now \in g.edge .. now /\ now - g.edge = 0
      BY <1>0, <3>1, <3>2
    <3>6. m.ET <= g.on + (now - g.edge)
      BY <1>0, <1>1, <3>1, <3>4, <3>5
    <3>7. m.start = ToTimespec(now)
      BY <2>3, <3>5
    <3> QED BY <2>5, <3>5, <3>6, <3>7
  <2>7. CASE ~changed
    <3>1. ~Started("tonr", t) /\ g.edge = h.edge /\ g.on = h.on
      BY <1>4, <1>5, <1>8, <2>7 DEF Started
    <3>2. b.timing = t.timing /\ b.start = t.start
      BY <1>8, <3>1 DEF Begin
    <3>3. PICK s \in h.edge .. now :
            /\ t.ET <= h.on + (s - h.edge)
            /\ t.timing => t.start = ToTimespec(s)
      BY <1>4, <1>8, <2>7
    <3>4. CASE ~t.timing
      <4>1. m = b
        BY <3>2, <3>4
      <4> QED BY <2>2, <2>5, <3>1, <3>2, <3>3, <3>4, <4>1
    <3>5. CASE t.timing
      <4>1. m = a /\ b.start = ToTimespec(s)
        BY <3>2, <3>3, <3>5
      <4>2. ~Borrows(t, now)
        BY <1>2, <1>8, <3>1, <3>5 DEF Faithful
      <4>3. s \in Nat /\ s <= now /\ now - s < Width32
        <5>1. s \in Int /\ h.edge <= s /\ s <= now
          BY <1>0, <3>3
        <5> QED BY <1>0, <5>1
      <4>4. ~(now % MsPerSec < s % MsPerSec)
        BY <1>0, <3>3, <3>5, <4>2, <4>3, MsPartOfTimespec DEF Borrows
      <4>5. s % MsPerSec <= now % MsPerSec
        <5>1. now % MsPerSec \in Nat /\ s % MsPerSec \in Nat
          BY <1>0, <4>3, UnitsAssumption
        <5> QED BY <4>4, <5>1
      <4>6. Elapsed(b, now) = now - s
        BY <1>0, <4>1, <4>3, <4>5, MsDiffExact DEF Elapsed
      <4>7. a.ET <= t.ET + (now - s)
        <5>1. t.ET + (now - s) \in Nat
          BY <1>0, <4>3
        <5>2. a.ET = (t.ET + (now - s)) % Width32
          BY <2>3, <4>6
        <5> QED BY <1>0, <5>1, <5>2, ModIsLess
      <4>8. now \in g.edge .. now /\ m.ET <= g.on + (now - g.edge)
        <5>1. a.ET \in Nat
          BY <1>1, WidthAssumption
        <5> QED BY <1>0, <3>1, <3>3, <4>1, <4>3, <4>7, <5>1
      <4> QED BY <2>3, <2>5, <4>1, <4>8
    <3> QED BY <3>4, <3>5
  <2> QED BY <2>6, <2>7
<1> QED BY <1>6, <1>7, <1>8

LEMMA TonrInvInit == Init => TonrInv
<1> SUFFICES ASSUME Init, NEW b \in BlocksOf("tonr")
             PROVE  Accounted(timers[b], history[b], time_ms)
  BY TypeInvInit DEF TonrInv
<1>1. timers[b] = ZeroTimer /\ history[b] = ZeroHistory
  BY DEF Init, BlocksOf
<1> QED BY <1>1 DEF Accounted, ZeroTimer, ZeroHistory

LEMMA TonrInvStep ==
  ASSUME TonrInv, [Next]_vars, NEW b \in BlocksOf("tonr")
  PROVE  Accounted(timers'[b], history'[b], time_ms')
<1> USE DEF TonrInv, TypeInv
<1>0. /\ b \in Blocks /\ b[1] = "tonr" /\ timers[b] \in Timer
      /\ history[b] \in HistoryOf(time_ms)
      /\ Accounted(timers[b], history[b], time_ms)
  BY DEF BlocksOf
<1>1. ASSUME NEW kind \in kinds, NEW id \in 0 .. MaxTimers, NEW in \in BOOLEAN,
             NEW pt \in Presets, SetTimer(kind, id, in, pt)
      PROVE  Accounted(timers'[b], history'[b], time_ms')
  <2> DEFINE t == [timers[b] EXCEPT !.input = in, !.preset_ms = pt, !.enabled = TRUE]
             changed == in # timers[b].input
  <2>1. CASE b = <<kind, id>>
    <3>1. kind = "tonr"
      BY <1>0, <2>1
    <3>2. /\ timers'[b] = update_tonr(t, time_ms)
          /\ history'[b] = Observe("tonr", history[b], t, time_ms, changed)
          /\ time_ms' = time_ms
      BY <1>0, <1>1, <2>1, <3>1 DEF SetTimer, Update
    <3>3. t \in Timer /\ changed \in BOOLEAN
      BY <1>0, PresetsAssumption
    <3>4. /\ t.prev_input = timers[b].prev_input /\ t.timing = timers[b].timing
          /\ t.start = timers[b].start /\ t.ET = timers[b].ET /\ t.enabled
          /\ t.input = (IF changed THEN ~timers[b].input ELSE timers[b].input)
      BY <1>0
    <3>5. time_ms \in 0 .. MaxTime /\ (changed => t.enabled)
      BY <1>0, <3>4
    <3> HIDE DEF t, changed
    <3>6. Accounted(update_tonr(t, time_ms),
                    Observe("tonr", history[b], t, time_ms, changed), time_ms)
      BY <1>0, <3>3, <3>4, <3>5, TonrUpdate
    <3> QED BY <3>2, <3>6
  <2>2. CASE b # <<kind, id>>
    <3>1. timers'[b] = timers[b] /\ history'[b] = history[b] /\ time_ms' = time_ms
      BY <1>0, <1>1, <2>2 DEF SetTimer
    <3> QED BY <1>0, <3>1
  <2> QED BY <2>1, <2>2
<1>2. ASSUME NEW d \in 1 .. MsPerSec, ExecuteInstruction(d)
      PROVE  Accounted(timers'[b], history'[b], time_ms')
  <2>1. time_ms' \in 0 .. MaxTime /\ time_ms <= time_ms' /\ UNCHANGED <<timers, history>>
    BY <1>2, UnitsAssumption DEF ExecuteInstruction
  <2> HIDE DEF Timer
  <2> QED BY <1>0, <2>1, AccountedLater
<1>3. ASSUME NEW d \in 0 .. MsPerSec, EndOfScan(d)
      PROVE  Accounted(timers'[b], history'[b], time_ms')
  <2>1. time_ms' = time_ms + d /\ time_ms' \in 0 .. MaxTime /\ time_ms <= time_ms'
    BY <1>3, UnitsAssumption DEF EndOfScan
  <2>2. history[b] \in HistoryOf(time_ms')
    BY <1>0, <2>1, LaterHistory
  <2>3. /\ timers'[b] = update_tonr(timers[b], time_ms')
        /\ history'[b] = Observe("tonr", history[b], timers[b], time_ms', FALSE)
    BY <1>0, <1>3, <2>1 DEF EndOfScan, Update
  <2>4. Accounted(timers[b], history[b], time_ms')
    <3> HIDE DEF Timer
    <3> QED BY <1>0, <2>1, AccountedLater
  <2>5. timers[b].input = (IF FALSE THEN ~timers[b].input ELSE timers[b].input)
    OBVIOUS
  <2> HIDE DEF TonrInv, TypeInv, Timer
  <2> QED BY <1>0, <2>1, <2>2, <2>3, <2>4, <2>5, TonrUpdate
<1>4. ASSUME NEW now \in 0 .. MsPerSec - 1, now <= MaxTime, ResetAndRun(now)
      PROVE  Accounted(timers'[b], history'[b], time_ms')
  <2>1. ~history'[b].exact
    BY <1>0, <1>4 DEF ResetAndRun
  <2> QED BY <2>1 DEF Accounted
<1>5. CASE UNCHANGED vars
  BY <1>0, <1>5 DEF vars
<1> QED BY <1>1, <1>2, <1>3, <1>4, <1>5 DEF Next

(* update_tonr: over any number of intervals, presets and scans, ET is at  *)
(* most the time the input has been on, unless ms_diff borrowed in one of  *)
(* them or the block was reset, which does not clear it.                   *)
THEOREM TonrIsNeverEarly == Spec => []TonrNeverOvercounts
<1>1. ASSUME TonrInv, [Next]_vars PROVE TonrInv'
  <2>1. TypeInv'
    BY <1>1, TypeInvStep DEF TonrInv
  <2>2. BlocksOf("tonr")' = BlocksOf("tonr")
    BY <1>1, SameBlocks DEF TonrInv, BlocksOf
  <2> QED BY <1>1, <2>1, <2>2, TonrInvStep DEF TonrInv
<1>2. TonrInv => TonrNeverOvercounts
  <2> SUFFICES ASSUME TonrInv, NEW b \in BlocksOf("tonr"), history[b].exact
               PROVE  timers[b].ET <= OnTime(b)
    BY DEF TonrNeverOvercounts
  <2>1. /\ Accounted(timers[b], history[b], time_ms)
        /\ timers[b] \in Timer /\ history[b] \in HistoryOf(time_ms)
        /\ time_ms \in Nat
    BY DEF TonrInv, TypeInv, BlocksOf
  <2>2. CASE timers[b].input
    <3>1. PICK s \in history[b].edge .. time_ms :
            timers[b].ET <= history[b].on + (s - history[b].edge)
      BY <2>1, <2>2 DEF Accounted
    <3>2. /\ timers[b].ET \in Nat
          /\ history[b].edge \in Nat /\ history[b].on \in Nat
      BY <2>1, WidthAssumption DEF HistoryOf
    <3>3. timers[b].ET <= history[b].on + (time_ms - history[b].edge)
      BY <2>1, <3>1, <3>2
    <3> QED BY <2>2, <3>3 DEF OnTime
  <2>3. CASE ~timers[b].input
    <3>1. history[b].on + 0 = history[b].on
      BY <2>1 DEF HistoryOf
    <3> QED BY <2>1, <2>3, <3>1 DEF Accounted, OnTime
  <2> QED BY <2>2, <2>3
<1> QED BY <1>1, <1>2, TonrInvInit, PTL DEF Spec

-----------------------------------------------------------------------------
(* The delays end in time, and pulses and off-delays last long enough.     *)

Simple == {"ton", "tof", "tp"}

(* What an undisturbed block knows: it has sampled its input, its interval *)
(* is measured from the edge, and its output tells whether that is over.   *)
Knows(kind, t, h) ==
  h.exact =>
    /\ t.prev_input = t.input
    /\ t.timing => t.start = ToTimespec(h.edge)
    /\ kind = "ton" => (t.input => t.timing \/ t.output)
    /\ kind = "tof" => (t.output => t.timing \/ t.input)
    /\ kind = "tp" => (t.output => t.timing)

SimpleInv ==
  TypeInv /\ \A kind \in Simple : \A b \in BlocksOf(kind) :
               Knows(kind, timers[b], history[b])

(* What an update of t into u, with history g, does to the output.         *)
Reached(u, g, now) == now - g.edge >= u.preset_ms

InTime(kind, u, g, now) ==
  g.exact /\ Reached(u, g, now) =>
    /\ kind = "ton" => (u.input => u.output)
    /\ kind = "tof" => (~u.input => ~u.output)
    /\ kind = "tp" => ~u.output

LongEnough(kind, t, u, g, now) ==
  g.exact /\ kind \in {"tof", "tp"} /\ t.output /\ ~u.output => Reached(u, g, now)

(* t is the block old with another preset or input.                        *)
SetFrom(t, old, changed) ==
  /\ t.prev_input = old.prev_input /\ t.timing = old.timing
  /\ t.start = old.start /\ t.ET = old.ET /\ t.output = old.output
  /\ t.input = (IF changed THEN ~old.input ELSE old.input)
  /\ changed => t.enabled

(* An undisturbed interval is measured right.                              *)
LEMMA MeasuredSinceEdge ==
  ASSUME NEW kind \in Simple, NEW t \in Timer, NEW now \in 0 .. MaxTime,
         NEW h \in HistoryOf(now), NEW changed \in BOOLEAN, NEW old \in Timer,
         SetFrom(t, old, changed), Knows(kind, old, h),
         Observe(kind, h, t, now, changed).exact
  PROVE  LET g == Observe(kind, h, t, now, changed)
             b == Begin(kind, t, now)
         IN /\ ~Bypassed(t)
            /\ Started(kind, t) => g.edge = now
            /\ ~Started(kind, t) => h.exact /\ g.edge = h.edge
            /\ b.timing => b.start = ToTimespec(g.edge)
                           /\ Elapsed(b, now) = now - g.edge
<1> DEFINE g == Observe(kind, h, t, now, changed)
           b == Begin(kind, t, now)
<1>0. /\ now \in Nat /\ h.edge \in Nat /\ h.edge <= now /\ now - h.edge < Width32
      /\ Width32 \in Nat \ {0}
  BY WidthAssumption DEF HistoryOf
<1>1. Faithful(kind, t, now, changed, h.exact)
  BY DEF Observe
<1>2. ~Bypassed(t) /\ t.enabled
  BY <1>1 DEF Faithful, Simple, Bypassed
<1>3. CASE Started(kind, t)
  <2>1. changed
    BY <1>1, <1>3 DEF Faithful
  <2>2. Starts(kind, t.input)
    BY <1>3 DEF Started, Starts, Simple
  <2>3. g.edge = now
    BY <2>1, <2>2 DEF Observe
  <2>4. b.start = ToTimespec(now)
    BY <1>3 DEF Begin
  <2>5. Elapsed(b, now) = 0
    BY <1>0, <2>4, MsDiffExact, UnitsAssumption DEF Elapsed
  <2> QED BY <1>0, <1>2, <1>3, <2>3, <2>4, <2>5
<1>4. CASE ~Started(kind, t)
  <2>1. h.exact /\ (t.timing => ~Borrows(t, now))
    BY <1>1, <1>2, <1>4 DEF Faithful, Simple
  <2>2. t.prev_input = (IF changed THEN ~t.input ELSE t.input)
    BY <2>1 DEF Knows, SetFrom
  <2>3. ~(changed /\ Starts(kind, t.input))
    BY <1>4, <2>2 DEF Started, Starts, Simple
  <2>4. g.edge = h.edge
    BY <2>3 DEF Observe
  <2>5. b.timing = t.timing /\ b.start = t.start
    BY <1>4 DEF Begin
  <2>6. ASSUME t.timing
        PROVE  t.start = ToTimespec(h.edge) /\ Elapsed(b, now) = now - h.edge
    <3>1. t.start = ToTimespec(h.edge)
      BY <2>1, <2>6 DEF Knows, SetFrom
    <3>2. ~(now % MsPerSec < h.edge % MsPerSec)
      BY <1>0, <2>1, <2>6, <3>1, MsPartOfTimespec DEF Borrows
    <3>3. h.edge % MsPerSec <= now % MsPerSec
      <4>1. now % MsPerSec \in Nat /\ h.edge % MsPerSec \in Nat
        BY <1>0, UnitsAssumption
      <4> QED BY <3>2, <4>1
    <3> QED BY <1>0, <2>5, <3>1, <3>3, MsDiffExact DEF Elapsed
  <2> QED BY <1>2, <1>4, <2>1, <2>4, <2>5, <2>6
<1> QED BY <1>3, <1>4

LEMMA SimpleUpdate ==
  ASSUME NEW kind \in Simple, NEW t \in Timer, NEW now \in 0 .. MaxTime,
         NEW h \in HistoryOf(now), NEW changed \in BOOLEAN, NEW old \in Timer,
         SetFrom(t, old, changed), Knows(kind, old, h)
  PROVE  LET u == Update(kind, t, now)
             g == Observe(kind, h, t, now, changed)
         IN /\ Knows(kind, u, g) /\ InTime(kind, u, g, now)
            /\ LongEnough(kind, old, u, g, now)
<1> DEFINE u == Update(kind, t, now)
           g == Observe(kind, h, t, now, changed)
           b == Begin(kind, t, now)
           e == Elapsed(b, now)
           m == [b EXCEPT !.ET = e]
<1> SUFFICES ASSUME g.exact
             PROVE  /\ Knows(kind, u, g) /\ InTime(kind, u, g, now)
                    /\ LongEnough(kind, old, u, g, now)
  BY DEF Knows, InTime, LongEnough
<1>1. /\ ~Bypassed(t)
      /\ ~Started(kind, t) => h.exact
      /\ b.timing => b.start = ToTimespec(g.edge) /\ e = now - g.edge
  BY MeasuredSinceEdge
<1>2. /\ b \in Timer /\ b.prev_input = b.input /\ b.input = t.input
      /\ b.preset_ms = t.preset_ms /\ b.output = old.output
      /\ ~b.timing => ~Started(kind, t) /\ ~old.timing
  <2>1. b \in Timer
    BY BeginType
  <2> QED BY <2>1 DEF Begin, SetFrom
<1>3. ASSUME ~b.timing
      PROVE  /\ kind = "ton" /\ t.input => old.output
             /\ kind = "tof" /\ ~t.input => ~old.output
             /\ kind = "tp" => ~old.output
  <2>1. h.exact /\ ~Started(kind, t) /\ ~old.timing
    BY <1>1, <1>2, <1>3
  <2>2. old.prev_input = old.input /\ t.prev_input = old.input
    BY <2>1 DEF Knows, SetFrom
  <2>3. kind = "ton" /\ t.input => old.input
    BY <2>1, <2>2 DEF Started
  <2>4. kind = "tof" /\ ~t.input => ~old.input
    BY <2>1, <2>2 DEF Started
  <2> QED BY <2>1, <2>3, <2>4 DEF Knows
<1>4. e \in 0 .. Width32 - 1 /\ m \in Timer
  BY <1>2, ElapsedType, MeasuredType
<1> HIDE DEF e
<1>5. CASE kind = "ton"
  <2> DEFINE n == IF b.timing THEN m ELSE b
  <2>1. u = (IF ~t.input THEN [Expire(b, FALSE) EXCEPT !.ET = 0]
             ELSE IF n.timing /\ n.ET >= n.preset_ms THEN Expire(n, TRUE) ELSE n)
    BY <1>1, <1>5 DEF Update, update_ton, e
  <2> HIDE DEF u, g, b
  <2>2. CASE ~t.input
    BY <1>2, <1>5, <2>1, <2>2 DEF Expire, Knows, InTime, LongEnough
  <2>3. CASE t.input /\ b.timing /\ e >= t.preset_ms
    BY <1>2, <1>4, <1>5, <2>1, <2>3 DEF Expire, Knows, InTime, LongEnough
  <2>4. CASE t.input /\ b.timing /\ ~(e >= t.preset_ms)
    BY <1>1, <1>2, <1>4, <1>5, <2>1, <2>4 DEF Knows, InTime, LongEnough, Reached
  <2>5. CASE t.input /\ ~b.timing
    BY <1>2, <1>3, <1>5, <2>1, <2>5 DEF Knows, InTime, LongEnough
  <2> QED BY <2>2, <2>3, <2>4, <2>5
<1>6. CASE kind = "tof"
  <2>1. u = (IF t.input THEN [Expire(b, TRUE) EXCEPT !.ET = 0]
             ELSE IF ~b.timing THEN b
             ELSE IF m.ET >= m.preset_ms THEN Expire(m, FALSE)
             ELSE [m EXCEPT !.output = TRUE])
    BY <1>1, <1>6 DEF Update, update_tof, e
  <2> HIDE DEF u, g, b
  <2>2. CASE t.input
    BY <1>2, <1>6, <2>1, <2>2 DEF Expire, Knows, InTime, LongEnough
  <2>3. CASE ~t.input /\ ~b.timing
    BY <1>2, <1>3, <1>6, <2>1, <2>3 DEF Knows, InTime, LongEnough
  <2>4. CASE ~t.input /\ b.timing /\ e >= t.preset_ms
    BY <1>1, <1>2, <1>4, <1>6, <2>1, <2>4
       DEF Expire, Knows, InTime, LongEnough, Reached
  <2>5. CASE ~t.input /\ b.timing /\ ~(e >= t.preset_ms)
    BY <1>1, <1>2, <1>4, <1>6, <2>1, <2>5 DEF Knows, InTime, LongEnough, Reached
  <2> QED BY <2>2, <2>3, <2>4, <2>5
<1>7. CASE kind = "tp"
  <2> DEFINE c == [b EXCEPT !.output = @ \/ Started("tp", t)]
             k == [c EXCEPT !.ET = e]
  <2>1. Elapsed(c, now) = e
    BY <1>2 DEF Elapsed, e
  <2>2. u = (IF ~c.timing THEN c
             ELSE IF k.ET >= k.preset_ms THEN Expire(k, FALSE) ELSE k)
    BY <1>1, <1>7, <2>1 DEF Update, update_tp
  <2>3. /\ c \in Timer /\ k \in Timer /\ c.timing = b.timing /\ c.start = b.start
        /\ c.prev_input = c.input /\ c.preset_ms = t.preset_ms
        /\ old.output => c.output
        /\ ~b.timing => c.output = old.output
    <3>1. Started("tp", t) \in BOOLEAN
      BY DEF Started
    <3>2. ~b.timing => ~Started("tp", t)
      BY <1>2, <1>7
    <3> HIDE DEF b
    <3> QED BY <1>2, <1>4, <3>1, <3>2
  <2>4. /\ k.ET = e /\ k.timing = c.timing /\ k.start = c.start
        /\ k.prev_input = k.input /\ k.preset_ms = c.preset_ms
        /\ k.output = c.output
    BY <2>3
  <2> HIDE DEF u, g, b, c, k
  <2>5. CASE ~c.timing
    BY <1>3, <1>7, <2>2, <2>3, <2>5 DEF Knows, InTime, LongEnough
  <2>6. CASE c.timing /\ k.ET >= k.preset_ms
    BY <1>1, <1>7, <2>2, <2>3, <2>4, <2>6
       DEF Expire, Knows, InTime, LongEnough, Reached
  <2>7. CASE c.timing /\ ~(k.ET >= k.preset_ms)
    BY <1>1, <1>7, <2>2, <2>3, <2>4, <2>7
       DEF Knows, InTime, LongEnough, Reached
  <2> QED BY <2>5, <2>6, <2>7
<1> QED BY <1>5, <1>6, <1>7 DEF Simple

LEMMA SimpleInvInit == Init => SimpleInv
<1> SUFFICES ASSUME Init, NEW kind \in Simple, NEW b \in BlocksOf(kind)
             PROVE  Knows(kind, timers[b], history[b])
  BY TypeInvInit DEF SimpleInv
<1> QED BY DEF Init, BlocksOf, Knows, ZeroTimer

LEMMA SimpleScanEnd ==
  ASSUME SimpleInv, NEW kind \in Simple, NEW b \in BlocksOf(kind),
         NEW d \in 0 .. MsPerSec, EndOfScan(d)
  PROVE  /\ Knows(kind, timers'[b], history'[b])
         /\ InTime(kind, timers'[b], history'[b], time_ms')
         /\ LongEnough(kind, timers[b], timers'[b], history'[b], time_ms')
<1>1. /\ b \in Blocks /\ b[1] = kind /\ timers[b] \in Timer
      /\ history[b] \in HistoryOf(time_ms) /\ Knows(kind, timers[b], history[b])
  BY DEF SimpleInv, TypeInv, BlocksOf
<1>2. time_ms' = time_ms + d /\ time_ms' \in 0 .. MaxTime /\ time_ms <= time_ms'
  BY UnitsAssumption DEF EndOfScan, SimpleInv, TypeInv
<1>3. history[b] \in HistoryOf(time_ms')
  BY <1>1, <1>2, LaterHistory DEF SimpleInv, TypeInv
<1>4. /\ timers'[b] = Update(kind, timers[b], time_ms')
      /\ history'[b] = Observe(kind, history[b], timers[b], time_ms', FALSE)
  BY <1>1, <1>2 DEF EndOfScan
<1>5. SetFrom(timers[b], timers[b], FALSE) /\ FALSE \in BOOLEAN
  BY DEF SetFrom
<1>6. time_ms' \in 0 .. MaxTime
  BY <1>2
<1>7. LET u == Update(kind, timers[b], time_ms')
          g == Observe(kind, history[b], timers[b], time_ms', FALSE)
      IN /\ Knows(kind, u, g) /\ InTime(kind, u, g, time_ms')
         /\ LongEnough(kind, timers[b], u, g, time_ms')
  BY <1>1, <1>3, <1>5, <1>6, SimpleUpdate
<1> QED BY <1>4, <1>7

LEMMA SimpleStep ==
  ASSUME SimpleInv, [Next]_vars, NEW kind \in Simple, NEW b \in BlocksOf(kind)
  PROVE  /\ Knows(kind, timers'[b], history'[b])
         /\ Active(b) =>
              LongEnough(kind, timers[b], timers'[b], history'[b], time_ms')
<1>0. /\ b \in Blocks /\ b[1] = kind /\ timers[b] \in Timer
      /\ history[b] \in HistoryOf(time_ms) /\ Knows(kind, timers[b], history[b])
      /\ time_ms \in 0 .. MaxTime /\ timers \in [Blocks -> Timer]
  BY DEF SimpleInv, TypeInv, BlocksOf
<1>1. ASSUME NEW k \in kinds, NEW id \in 0 .. MaxTimers, NEW in \in BOOLEAN,
             NEW pt \in Presets, SetTimer(k, id, in, pt)
      PROVE  /\ Knows(kind, timers'[b], history'[b])
             /\ LongEnough(kind, timers[b], timers'[b], history'[b], time_ms')
  <2> DEFINE t == [timers[b] EXCEPT !.input = in, !.preset_ms = pt, !.enabled = TRUE]
             changed == in # timers[b].input
  <2>1. CASE b = <<k, id>>
    <3>1. /\ timers'[b] = Update(kind, t, time_ms)
          /\ history'[b] = Observe(kind, history[b], t, time_ms, changed)
          /\ time_ms' = time_ms
      <4>1. k = kind
        BY <1>0, <2>1
      <4> QED BY <1>0, <1>1, <2>1, <4>1 DEF SetTimer, SimpleInv, TypeInv
    <3>2. t \in Timer /\ changed \in BOOLEAN
      BY <1>0, PresetsAssumption
    <3>3. SetFrom(t, timers[b], changed)
      BY <1>0 DEF SetFrom
    <3> HIDE DEF t, changed
    <3> QED BY <1>0, <3>1, <3>2, <3>3, SimpleUpdate
  <2>2. CASE b # <<k, id>>
    <3>1. timers'[b] = timers[b] /\ history'[b] = history[b]
      BY <1>0, <1>1, <2>2 DEF SetTimer, SimpleInv, TypeInv
    <3> QED BY <1>0, <3>1 DEF LongEnough
  <2> QED BY <2>1, <2>2
<1>2. ASSUME NEW d \in 1 .. MsPerSec, ExecuteInstruction(d)
      PROVE  /\ Knows(kind, timers'[b], history'[b])
             /\ LongEnough(kind, timers[b], timers'[b], history'[b], time_ms')
  BY <1>0, <1>2 DEF ExecuteInstruction, LongEnough
<1>3. ASSUME NEW now \in 0 .. MsPerSec - 1, now <= MaxTime, ResetAndRun(now)
      PROVE  Knows(kind, timers'[b], history'[b]) /\ ~Active(b)
  <2>1. timers'[b] = [ZeroTimer EXCEPT !.start = timers[b].start]
    BY <1>0, <1>3 DEF ResetAndRun, ClearedTimer, Simple
  <2> QED BY <2>1 DEF Knows, Active, ZeroTimer
<1>4. CASE UNCHANGED vars
  BY <1>0, <1>4 DEF vars, LongEnough
<1> QED BY <1>1, <1>2, <1>3, <1>4, SimpleScanEnd DEF Next

LEMMA SimpleInvStep == ASSUME SimpleInv, [Next]_vars PROVE SimpleInv'
<1>1. TypeInv'
  BY TypeInvStep DEF SimpleInv
<1>2. ASSUME NEW kind PROVE BlocksOf(kind)' = BlocksOf(kind)
  BY SameBlocks DEF SimpleInv, BlocksOf
<1>3. ASSUME NEW kind \in Simple, NEW b \in BlocksOf(kind)
      PROVE  Knows(kind, timers'[b], history'[b])
  BY SimpleStep
<1> QED BY <1>1, <1>2, <1>3 DEF SimpleInv

(* update_ton: at the end of a scan the output is on if the input has been *)
(* on for the preset, whatever presets were passed in between.             *)
THEOREM TonIsNeverLate == Spec => TonNeverLate
<1> DEFINE Good == AScanEnds => \A b \in BlocksOf("ton") :
                     timers'[b].input /\ history'[b].exact /\ PresetReached(b)
                     => timers'[b].output
<1>1. SimpleInv /\ [Next]_vars => [Good]_vars
  <2> SUFFICES ASSUME SimpleInv, NEW d \in 0 .. MsPerSec, EndOfScan(d),
                      NEW b \in BlocksOf("ton"),
                      timers'[b].input, history'[b].exact, PresetReached(b)
               PROVE  timers'[b].output
    BY DEF AScanEnds
  <2>1. InTime("ton", timers'[b], history'[b], time_ms')
    BY SimpleScanEnd DEF Simple
  <2> QED BY <2>1 DEF InTime, Reached, PresetReached, SinceEdge
<1> QED BY <1>1, SimpleInvInit, SimpleInvStep, PTL DEF Spec, TonNeverLate

(* update_tof: the output stays on for the preset after the input went     *)
(* off.                                                                    *)
THEOREM TofIsLongEnough == Spec => TofHoldsOutput
<1> DEFINE Good == \A b \in BlocksOf("tof") :
                     Falls(b) /\ Active(b) /\ history'[b].exact => PresetReached(b)
<1>1. SimpleInv /\ [Next]_vars => [Good]_vars
  <2> SUFFICES ASSUME SimpleInv, [Next]_vars, NEW b \in BlocksOf("tof"),
                      Falls(b), Active(b), history'[b].exact
               PROVE  PresetReached(b)
    OBVIOUS
  <2>1. LongEnough("tof", timers[b], timers'[b], history'[b], time_ms')
    BY SimpleStep DEF Simple
  <2> QED BY <2>1 DEF LongEnough, Falls, Reached, PresetReached, SinceEdge
<1> QED BY <1>1, SimpleInvInit, SimpleInvStep, PTL DEF Spec, TofHoldsOutput

(* update_tof: and not beyond the end of the scan in which that has passed.*)
THEOREM TofIsInTime == Spec => TofReleases
<1> DEFINE Good == AScanEnds => \A b \in BlocksOf("tof") :
                     ~timers'[b].input /\ history'[b].exact /\ PresetReached(b)
                     => ~timers'[b].output
<1>1. SimpleInv /\ [Next]_vars => [Good]_vars
  <2> SUFFICES ASSUME SimpleInv, NEW d \in 0 .. MsPerSec, EndOfScan(d),
                      NEW b \in BlocksOf("tof"),
                      ~timers'[b].input, history'[b].exact, PresetReached(b)
               PROVE  ~timers'[b].output
    BY DEF AScanEnds
  <2>1. InTime("tof", timers'[b], history'[b], time_ms')
    BY SimpleScanEnd DEF Simple
  <2> QED BY <2>1 DEF InTime, Reached, PresetReached, SinceEdge
<1> QED BY <1>1, SimpleInvInit, SimpleInvStep, PTL DEF Spec, TofReleases

(* update_tp: a pulse lasts for the preset after its last rising edge.     *)
THEOREM TpIsLongEnough == Spec => TpPulseIsWhole
<1> DEFINE Good == \A b \in BlocksOf("tp") :
                     Falls(b) /\ Active(b) /\ history'[b].exact => PresetReached(b)
<1>1. SimpleInv /\ [Next]_vars => [Good]_vars
  <2> SUFFICES ASSUME SimpleInv, [Next]_vars, NEW b \in BlocksOf("tp"),
                      Falls(b), Active(b), history'[b].exact
               PROVE  PresetReached(b)
    OBVIOUS
  <2>1. LongEnough("tp", timers[b], timers'[b], history'[b], time_ms')
    BY SimpleStep DEF Simple
  <2> QED BY <2>1 DEF LongEnough, Falls, Reached, PresetReached, SinceEdge
<1> QED BY <1>1, SimpleInvInit, SimpleInvStep, PTL DEF Spec, TpPulseIsWhole

(* update_tp: and ends with the scan in which that has passed.             *)
THEOREM TpIsInTime == Spec => TpPulseEnds
<1> DEFINE Good == AScanEnds => \A b \in BlocksOf("tp") :
                     history'[b].exact /\ PresetReached(b) => ~timers'[b].output
<1>1. SimpleInv /\ [Next]_vars => [Good]_vars
  <2> SUFFICES ASSUME SimpleInv, NEW d \in 0 .. MsPerSec, EndOfScan(d),
                      NEW b \in BlocksOf("tp"),
                      history'[b].exact, PresetReached(b)
               PROVE  ~timers'[b].output
    BY DEF AScanEnds
  <2>1. InTime("tp", timers'[b], history'[b], time_ms')
    BY SimpleScanEnd DEF Simple
  <2> QED BY <2>1 DEF InTime, Reached, PresetReached, SinceEdge
<1> QED BY <1>1, SimpleInvInit, SimpleInvStep, PTL DEF Spec, TpPulseEnds

-----------------------------------------------------------------------------
(* The retentive off-delay holds its output.                               *)

(* With its input off, ET is the time since a moment s after the edge at   *)
(* most; with its input on, nothing is left of the last interval.          *)
SumsUp(t, h, now) ==
  /\ t.prev_input = t.input
  /\ t.input => t.ET = 0
  /\ h.exact /\ t.timing /\ ~t.input =>
       \E s \in h.edge .. now : t.ET <= s - h.edge /\ t.start = ToTimespec(s)

TofrInv ==
  TypeInv /\ \A b \in BlocksOf("tofr") : SumsUp(timers[b], history[b], time_ms)

LEMMA SumsUpLater ==
  ASSUME NEW t \in Timer, NEW m \in 0 .. MaxTime, NEW n \in 0 .. MaxTime, m <= n,
         NEW h \in HistoryOf(m), SumsUp(t, h, m)
  PROVE  SumsUp(t, h, n)
BY WidthAssumption DEF SumsUp, HistoryOf

LEMMA TofrUpdate ==
  ASSUME NEW t \in Timer, NEW now \in 0 .. MaxTime, NEW h \in HistoryOf(now),
         NEW changed \in BOOLEAN, NEW old \in Timer,
         SetFrom(t, old, changed), SumsUp(old, h, now)
  PROVE  LET u == update_tofr(t, now)
             g == Observe("tofr", h, t, now, changed)
         IN /\ SumsUp(u, g, now)
            /\ g.exact /\ old.output /\ ~u.output => Reached(u, g, now)
<1> DEFINE u == update_tofr(t, now)
           g == Observe("tofr", h, t, now, changed)
           b == Begin("tofr", t, now)
           a == Accumulate(b, now)
<1> SUFFICES /\ SumsUp(u, g, now)
             /\ g.exact /\ old.output /\ ~u.output => Reached(u, g, now)
  OBVIOUS
<1>0. /\ now \in Nat /\ h.edge \in Nat /\ h.edge <= now /\ now - h.edge < Width32
      /\ t.ET \in Nat /\ t.ET < Width32 /\ Width32 \in Nat \ {0}
  BY WidthAssumption DEF HistoryOf
<1>1. /\ b \in Timer /\ a \in Timer
      /\ old.prev_input = old.input
      /\ old.input => t.ET = 0
  BY <1>0, BeginType, AccumulateType DEF SumsUp, SetFrom
<1>2. g.exact => Faithful("tofr", t, now, changed, h.exact)
  BY DEF Observe
<1>3. /\ b.input = t.input /\ b.prev_input = t.input /\ b.ET = t.ET
      /\ b.output = old.output /\ b.preset_ms = t.preset_ms
  BY <1>1 DEF Begin, SetFrom
<1>4. CASE ~t.enabled
  <2>1. u = t /\ ~changed
    BY <1>4 DEF update_tofr, SetFrom
  <2>2. /\ t.prev_input = old.input /\ t.input = old.input
        /\ t.timing = old.timing /\ t.start = old.start /\ t.ET = old.ET
        /\ t.output = old.output
    BY <1>1, <2>1 DEF SetFrom
  <2>3. ~Started("tofr", t) /\ g.edge = h.edge
    BY <2>1, <2>2 DEF Started, Observe
  <2>4. g.exact => h.exact
    BY <1>2, <2>3 DEF Faithful
  <2> HIDE DEF u, g
  <2> QED BY <1>1, <2>1, <2>2, <2>3, <2>4 DEF SumsUp
<1>5. CASE t.enabled /\ t.input
  <2>1. u = [Expire(IF b.timing THEN a ELSE b, TRUE) EXCEPT !.ET = 0]
    BY <1>5 DEF update_tofr
  <2>2. a.input = b.input /\ a.prev_input = b.prev_input
    BY <1>1 DEF Accumulate
  <2>3. u.input /\ u.prev_input = u.input /\ u.ET = 0 /\ u.output
    <3> DEFINE c == IF b.timing THEN a ELSE b
    <3>1. c \in Timer /\ c.input = t.input /\ c.prev_input = t.input
      BY <1>1, <1>3, <2>2
    <3> HIDE DEF c, a, b
    <3> QED BY <1>5, <2>1, <3>1 DEF Expire, c
  <2> HIDE DEF u, g
  <2> QED BY <2>3 DEF SumsUp
<1>6. CASE t.enabled /\ ~t.input
  <2>1. u = (IF ~b.timing THEN b
             ELSE IF a.ET >= a.preset_ms THEN Expire(a, FALSE)
             ELSE [a EXCEPT !.output = TRUE])
    BY <1>6 DEF update_tofr
  <2>2. /\ a.input = b.input /\ a.prev_input = b.prev_input
        /\ a.preset_ms = b.preset_ms /\ a.start = ToTimespec(now)
        /\ a.ET = (t.ET + Elapsed(b, now)) % Width32 /\ a.ET \in Nat
    <3>1. a = [b EXCEPT !.ET = (b.ET + Elapsed(b, now)) % Width32,
                        !.start = ToTimespec(now)]
      BY DEF Accumulate
    <3>2. a.ET \in Nat
      BY <1>0, <1>1
    <3> HIDE DEF a, b
    <3> QED BY <1>1, <1>3, <3>1, <3>2
  <2>3. ASSUME g.exact, b.timing
        PROVE  a.ET <= now - g.edge /\ now \in g.edge .. now
    <3>1. Faithful("tofr", t, now, changed, h.exact)
      BY <1>2, <2>3
    <3>2. CASE Started("tofr", t)
      <4>1. changed /\ old.input
        BY <1>1, <3>1, <3>2 DEF Faithful, Started, SetFrom
      <4>2. g.edge = now /\ b.start = ToTimespec(now) /\ t.ET = 0
        BY <1>1, <1>6, <3>2, <4>1 DEF Observe, Starts, Begin
      <4>3. Elapsed(b, now) = 0
        BY <1>0, <4>2, MsDiffExact, UnitsAssumption DEF Elapsed
      <4>4. a.ET = 0
        <5>1. (0 + 0) % Width32 = 0
          BY <1>0
        <5> QED BY <2>2, <4>2, <4>3, <5>1
      <4> HIDE DEF a, b, g
      <4> QED BY <1>0, <4>2, <4>4
    <3>3. CASE ~Started("tofr", t)
      <4>1. ~changed /\ ~old.input
        BY <1>1, <1>6, <3>3 DEF Started, SetFrom
      <4>2. /\ b.timing = t.timing /\ b.start = t.start
            /\ g.edge = h.edge /\ h.exact
        BY <3>1, <3>3, <4>1 DEF Begin, Observe, Faithful
      <4>3. t.timing /\ ~Borrows(t, now)
        BY <1>6, <2>3, <3>1, <3>3, <4>2 DEF Faithful
      <4>4. PICK s \in h.edge .. now :
              t.ET <= s - h.edge /\ t.start = ToTimespec(s)
        BY <4>1, <4>2, <4>3 DEF SumsUp, SetFrom
      <4>5. s \in Nat /\ s <= now /\ now - s < Width32
        <5>1. s \in Int /\ h.edge <= s /\ s <= now
          BY <1>0, <4>4
        <5> QED BY <1>0, <5>1
      <4>6. s % MsPerSec <= now % MsPerSec
        <5>1. now % MsPerSec \in Nat /\ s % MsPerSec \in Nat
          BY <1>0, <4>5, UnitsAssumption
        <5>2. ~(now % MsPerSec < s % MsPerSec)
          BY <1>0, <4>3, <4>4, <4>5, MsPartOfTimespec DEF Borrows
        <5> QED BY <5>1, <5>2
      <4>7. Elapsed(b, now) = now - s
        BY <1>0, <4>2, <4>4, <4>5, <4>6, MsDiffExact DEF Elapsed
      <4>8. a.ET <= t.ET + (now - s)
        <5>1. t.ET + (now - s) \in Nat
          BY <1>0, <4>5
        <5>2. a.ET = (t.ET + (now - s)) % Width32
          BY <2>2, <4>7
        <5> QED BY <1>0, <5>1, <5>2, ModIsLess
      <4> HIDE DEF a, b, g
      <4> QED BY <1>0, <2>2, <4>2, <4>4, <4>5, <4>8
    <3> QED BY <3>2, <3>3
  <2>4. g.edge \in Nat
    BY <1>0 DEF Observe
  <2> HIDE DEF a, b, u, g
  <2>5. CASE ~b.timing
    BY <1>3, <1>6, <2>1, <2>5 DEF SumsUp
  <2>6. CASE b.timing /\ a.ET >= a.preset_ms
    <3>1. /\ u.prev_input = u.input /\ ~u.input /\ ~u.timing
          /\ u.preset_ms = a.preset_ms
      BY <1>1, <1>3, <1>6, <2>1, <2>2, <2>6 DEF Expire
    <3>2. g.exact => Reached(u, g, now)
      <4>1. a.preset_ms \in Nat
        BY <1>1, WidthAssumption
      <4> QED BY <1>0, <2>2, <2>3, <2>4, <2>6, <3>1, <4>1 DEF Reached
    <3> QED BY <3>1, <3>2 DEF SumsUp
  <2>7. CASE b.timing /\ ~(a.ET >= a.preset_ms)
    <3>1. /\ u.prev_input = u.input /\ ~u.input /\ u.output
          /\ u.ET = a.ET /\ u.start = a.start
      BY <1>1, <1>3, <1>6, <2>1, <2>2, <2>7
    <3> QED BY <2>2, <2>3, <2>7, <3>1 DEF SumsUp
  <2> QED BY <2>5, <2>6, <2>7
<1> QED BY <1>4, <1>5, <1>6

LEMMA TofrInvInit == Init => TofrInv
<1> SUFFICES ASSUME Init, NEW b \in BlocksOf("tofr")
             PROVE  SumsUp(timers[b], history[b], time_ms)
  BY TypeInvInit DEF TofrInv
<1> QED BY DEF Init, BlocksOf, SumsUp, ZeroTimer

LEMMA TofrStep ==
  ASSUME TofrInv, [Next]_vars, NEW b \in BlocksOf("tofr")
  PROVE  /\ SumsUp(timers'[b], history'[b], time_ms')
         /\ Falls(b) /\ history'[b].exact => PresetReached(b)
<1>0. /\ b \in Blocks /\ b[1] = "tofr" /\ timers[b] \in Timer
      /\ history[b] \in HistoryOf(time_ms)
      /\ SumsUp(timers[b], history[b], time_ms)
      /\ time_ms \in 0 .. MaxTime /\ timers \in [Blocks -> Timer]
  BY DEF TofrInv, TypeInv, BlocksOf
<1>1. ASSUME NEW kind \in kinds, NEW id \in 0 .. MaxTimers, NEW in \in BOOLEAN,
             NEW pt \in Presets, SetTimer(kind, id, in, pt)
      PROVE  /\ SumsUp(timers'[b], history'[b], time_ms')
             /\ Falls(b) /\ history'[b].exact => PresetReached(b)
  <2> DEFINE t == [timers[b] EXCEPT !.input = in, !.preset_ms = pt, !.enabled = TRUE]
             changed == in # timers[b].input
  <2>1. CASE b = <<kind, id>>
    <3>1. /\ timers'[b] = update_tofr(t, time_ms)
          /\ history'[b] = Observe("tofr", history[b], t, time_ms, changed)
          /\ time_ms' = time_ms
      <4>1. kind = "tofr"
        BY <1>0, <2>1
      <4> QED BY <1>0, <1>1, <2>1, <4>1 DEF SetTimer, Update, TofrInv, TypeInv
    <3>2. t \in Timer /\ changed \in BOOLEAN
      BY <1>0, PresetsAssumption
    <3>3. SetFrom(t, timers[b], changed)
      BY <1>0 DEF SetFrom
    <3> HIDE DEF t, changed
    <3>4. LET u == update_tofr(t, time_ms)
              g == Observe("tofr", history[b], t, time_ms, changed)
          IN /\ SumsUp(u, g, time_ms)
             /\ g.exact /\ timers[b].output /\ ~u.output => Reached(u, g, time_ms)
      BY <1>0, <3>2, <3>3, TofrUpdate
    <3> QED BY <3>1, <3>4 DEF Falls, Reached, PresetReached, SinceEdge
  <2>2. CASE b # <<kind, id>>
    <3>1. timers'[b] = timers[b] /\ history'[b] = history[b] /\ time_ms' = time_ms
      BY <1>0, <1>1, <2>2 DEF SetTimer, TofrInv, TypeInv
    <3> QED BY <1>0, <3>1 DEF Falls
  <2> QED BY <2>1, <2>2
<1>2. ASSUME NEW d \in 1 .. MsPerSec, ExecuteInstruction(d)
      PROVE  SumsUp(timers'[b], history'[b], time_ms') /\ ~Falls(b)
  <2>1. time_ms' \in 0 .. MaxTime /\ time_ms <= time_ms' /\ UNCHANGED <<timers, history>>
    BY <1>0, <1>2, UnitsAssumption DEF ExecuteInstruction
  <2> QED BY <1>0, <2>1, SumsUpLater DEF Falls
<1>3. ASSUME NEW d \in 0 .. MsPerSec, EndOfScan(d)
      PROVE  /\ SumsUp(timers'[b], history'[b], time_ms')
             /\ Falls(b) /\ history'[b].exact => PresetReached(b)
  <2>1. time_ms' = time_ms + d /\ time_ms' \in 0 .. MaxTime /\ time_ms <= time_ms'
    BY <1>0, <1>3, UnitsAssumption DEF EndOfScan
  <2>2. history[b] \in HistoryOf(time_ms') /\ SumsUp(timers[b], history[b], time_ms')
    BY <1>0, <2>1, LaterHistory, SumsUpLater
  <2>3. /\ timers'[b] = update_tofr(timers[b], time_ms')
        /\ history'[b] = Observe("tofr", history[b], timers[b], time_ms', FALSE)
    BY <1>0, <1>3, <2>1 DEF EndOfScan, Update
  <2>4. SetFrom(timers[b], timers[b], FALSE) /\ FALSE \in BOOLEAN
    BY DEF SetFrom
  <2>5. LET u == update_tofr(timers[b], time_ms')
            g == Observe("tofr", history[b], timers[b], time_ms', FALSE)
        IN /\ SumsUp(u, g, time_ms')
           /\ g.exact /\ timers[b].output /\ ~u.output => Reached(u, g, time_ms')
    BY <1>0, <2>1, <2>2, <2>4, TofrUpdate
  <2> QED BY <2>3, <2>5 DEF Falls, Reached, PresetReached, SinceEdge
<1>4. ASSUME NEW now \in 0 .. MsPerSec - 1, now <= MaxTime, ResetAndRun(now)
      PROVE  SumsUp(timers'[b], history'[b], time_ms') /\ ~history'[b].exact
  <2>1. /\ timers'[b] = [timers[b] EXCEPT !.enabled = FALSE]
        /\ ~history'[b].exact
    BY <1>0, <1>4 DEF ResetAndRun, ClearedTimer
  <2> QED BY <1>0, <2>1 DEF SumsUp
<1>5. CASE UNCHANGED vars
  BY <1>0, <1>5 DEF vars, Falls
<1> QED BY <1>1, <1>2, <1>3, <1>4, <1>5 DEF Next

(* update_tofr: the output of a retentive off-delay falls only when the    *)
(* input has been off for the preset, although the time is summed up       *)
(* update by update and survives resets.                                   *)
THEOREM TofrIsLongEnough == Spec => TofrHoldsOutput
<1> DEFINE Good == \A b \in BlocksOf("tofr") :
                     Falls(b) /\ history'[b].exact => PresetReached(b)
<1>1. ASSUME TofrInv, [Next]_vars PROVE TofrInv'
  <2>1. TypeInv'
    BY <1>1, TypeInvStep DEF TofrInv
  <2>2. BlocksOf("tofr")' = BlocksOf("tofr")
    BY <1>1, SameBlocks DEF TofrInv, BlocksOf
  <2> QED BY <1>1, <2>1, <2>2, TofrStep DEF TofrInv
<1>2. TofrInv /\ [Next]_vars => [Good]_vars
  BY TofrStep
<1> QED BY <1>1, <1>2, TofrInvInit, PTL DEF Spec, TofrHoldsOutput
=============================================================================
