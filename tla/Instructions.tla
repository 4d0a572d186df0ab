---------------------------- MODULE Instructions ----------------------------
(***************************************************************************)
(* The instruction set (prototype-integrator: src/funcs.c): what each      *)
(* handler does to the registers, the memory, the function blocks and the  *)
(* state of the run.  What the timers do between two calls is the subject  *)
(* of IecTimers; here their output is free.                                *)
(*                                                                         *)
(* The earlier copy of the file (system-master: iec/runtime/legacy) is the *)
(* same but for the edge detectors, the latches and EXIT, where the        *)
(* definitions ask for the build.                                          *)
(*                                                                         *)
(* Memory is the part below the program, in cells; the program is kept in  *)
(* words and PC counts words (Controller).  The floating point functions   *)
(* give the integral part of their value; where it does not fit a word the *)
(* conversion is undefined in C, and its outcomes are a constant.          *)
(***************************************************************************)
EXTENDS CharStrings, FunctionBlocks

CONSTANTS
  Clock,     (* the times that the machine may read                        *)
  Outcomes   (* words that an undefined conversion may give                *)

ASSUME OutcomesAssumption == Outcomes \subseteq Word /\ Outcomes # {}

(* A count is a word; a time has natural numbers for parts.                *)
ASSUME RangeAssumption ==
  /\ MaxCount \in Word
  /\ Clock \subseteq [year : Nat, month : Nat, day : Nat, hour : Nat,
                      minute : Nat, second : Nat]

VARIABLES
  reg,       (* vm->reg                                                    *)
  mem,       (* vm->mem, below the program                                 *)
  PC,        (* vm->PC, in words                                           *)
  running,   (* vm->running                                                *)
  stop,      (* vm->stop_requested                                         *)
  exitCode   (* vm->exit_code                                              *)

run == <<running, stop, exitCode>>

Bv(i) == reg[RB(i)]
Cv(i) == reg[RC(i)]
Cv_or_imm(i) == IF FIMM(i) THEN SEXTIMM8(i) ELSE Cv(i)
SetA_val(i, v) == reg' = [reg EXCEPT ![RA(i)] = v]

(* A result that is not cut to the width of a register.                    *)
F_Wrap_wide(n) == n

Wrap(n) == n % Words

Bit(p) == IF p THEN 1 ELSE 0

(* A handler that leaves PC alone, or jumps to itself, is stepped over.    *)
Next1 == PC' = PC + 1
GoTo(target) == PC' = IF target = PC THEN PC + 1 ELSE target

-----------------------------------------------------------------------------
(* Handlers that only compute a register.                                  *)

(* b ^ c, or Words when that is too large.                                 *)
Power(b, c) ==
  LET p[k \in 0 .. Min({c, 4 * CellBits})] ==
        IF k = 0 THEN 1 ELSE Min({Words, b * p[k - 1]})
  IN  p[Min({c, 4 * CellBits})]

op_expt(b, c) ==
  IF Power(b, c) = Words THEN Outcomes ELSE {Power(b, c)}

(* How many of a function's thresholds b has reached.                      *)
Reached(thresholds, b) == Cardinality({t \in thresholds : t <= b})
ofE == <<3, 8, 21, 55, 149>>        (* powers of e, rounded up             *)
ExpOf == <<1, 2, 7, 20, 54, 148>>   (* powers of e from the 0th            *)

op_sqrt(b) == {CHOOSE r \in 0 .. b : r * r <= b /\ b < (r + 1) * (r + 1)}
op_abs(b) == {IF b >= Words \div 2 THEN Wrap(Words - b) ELSE b}
op_ln(b) == IF b = 0 THEN Outcomes ELSE {Reached(ToSet(ofE), b)}
op_log(b) == IF b = 0 THEN Outcomes ELSE {Reached({10, 100}, b)}
op_exp(b) == IF b < Len(ExpOf) /\ ExpOf[b + 1] < Words THEN {ExpOf[b + 1]}
                                                       ELSE Outcomes
op_sin(b) == {0}
op_cos(b) == {Bit(b = 0)}
op_tan(b) == IF b = 0 THEN {0} ELSE Outcomes
op_asin(b) == IF b > 1 THEN Outcomes ELSE {b}
op_acos(b) == IF b > 1 THEN Outcomes ELSE {1 - b}
op_atan(b) == {Bit(b > 1)}

(* A word as the set of its bits.                                          *)
BitsOf(n) == {k \in 0 .. 4 * CellBits - 1 : (n \div 2 ^ k) % 2 = 1}
OfBits(S) ==
  LET sum[k \in 0 .. 4 * CellBits] ==
        IF k = 0 THEN 0 ELSE sum[k - 1] + (IF k - 1 \in S THEN 2 ^ (k - 1) ELSE 0)
  IN  sum[4 * CellBits]

op_and(b, c) == OfBits(BitsOf(b) \cap BitsOf(c))
op_or(b, c) == OfBits(BitsOf(b) \cup BitsOf(c))
op_xor(b, c) == OfBits((BitsOf(b) \cup BitsOf(c)) \ (BitsOf(b) \cap BitsOf(c)))

Compare(b, c) ==
  [eq |-> b = c, ne |-> b # c, gt |-> b > c, ge |-> b >= c,
   lt |-> b < c, le |-> b <= c]

Arithmetic(b, c) ==
  [add |-> b + c, sub |-> b - c, mul |-> b * c,
   div |-> IF c = 0 THEN 0 ELSE b \div c,
   mod |-> IF c = 0 THEN 0 ELSE b % c,
   add_time |-> b + c, sub_time |-> b - c,
   and |-> op_and(b, c), or |-> op_or(b, c), xor |-> op_xor(b, c)]

Functions(b) ==
  [abs |-> op_abs(b), sqrt |-> op_sqrt(b), ln |-> op_ln(b), log |-> op_log(b),
   exp |-> op_exp(b), sin |-> op_sin(b), cos |-> op_cos(b), tan |-> op_tan(b),
   asin |-> op_asin(b), acos |-> op_acos(b), atan |-> op_atan(b),
   not |-> {Words - 1 - b}]

Results(op, b, c) ==
  CASE op \in DOMAIN Compare(b, c) -> {Bit(Compare(b, c)[op])}
    [] op \in DOMAIN Arithmetic(b, c) -> {Wrap(Arithmetic(b, c)[op])}
    [] op \in DOMAIN Functions(b) -> Functions(b)[op]
    [] op = "expt" -> op_expt(b, c)
    [] OTHER -> {}

Compute(i) ==
  /\ \E v \in Results(Operation(i), Bv(i), Cv_or_imm(i)) : SetA_val(i, v)
  /\ Next1
  /\ UNCHANGED <<mem, run, blocks>>

(* The wall clock, with local time in its parts.                           *)
Reading(t) ==
  [time |-> t.hour * 3600 + t.minute * 60 + t.second,
   date |-> t.year * 10000 + t.month * 100 + t.day,
   tod |-> t.hour * 10000 + t.minute * 100 + t.second,
   dt |-> t.year * 1000000 + t.month * 10000 + t.day * 100 + t.hour,
   year |-> t.year, month |-> t.month, day |-> t.day,
   hour |-> t.hour, minute |-> t.minute, second |-> t.second]

ReadClock(i) ==
  /\ \E t \in Clock : /\ Operation(i) \in DOMAIN Reading(t)
                      /\ SetA_val(i, Wrap(Reading(t)[Operation(i)]))
  /\ Next1
  /\ UNCHANGED <<mem, run, blocks>>

-----------------------------------------------------------------------------
(* Selection.  An address is computed in 64 bits, a word must lie in       *)
(* memory as a whole.                                                      *)

Read(a) == IF a + 4 <= MemBytes THEN vm_mr32(mem, a) ELSE 0

op_limit(i) ==
  LET low == IF reg[RA(i)] < Bv(i) THEN Bv(i) ELSE reg[RA(i)]
  IN  IF low > Cv_or_imm(i) THEN Cv_or_imm(i) ELSE low

op_sel(i) == IF Bv(i) # 0 THEN Read(Cv(i)) ELSE Read(Cv(i) + 4)
op_mux(i) == Read(Bv(i) + 4 * Cv_or_imm(i))

Select(i) ==
  /\ \/ Operation(i) = "limit" /\ SetA_val(i, op_limit(i))
     \/ Operation(i) = "sel" /\ SetA_val(i, op_sel(i))
     \/ Operation(i) = "mux" /\ SetA_val(i, op_mux(i))
     \/ Operation(i) = "len" /\ SetA_val(i, StrLen(mem, Bv(i)))
  /\ Next1
  /\ UNCHANGED <<mem, run, blocks>>

Demux(i) ==
  /\ Operation(i) = "demux"
  /\ LET a == Bv(i) + 4 * Cv_or_imm(i)
     IN  mem' = IF a + 4 <= MemBytes THEN vm_mw32(mem, a, reg[RA(i)]) ELSE mem
  /\ Next1
  /\ UNCHANGED <<reg, run, blocks>>

-----------------------------------------------------------------------------
(* Strings.                                                                *)

StringOps == {"concat", "left", "right", "mid", "insert", "delete", "replace"}

NewMemory(op, a, b, c) ==
  CASE op = "concat" -> op_concat(mem, b, c)
    [] op = "left" -> op_left(mem, b, c)
    [] op = "right" -> op_right(mem, b, c)
    [] op = "mid" -> op_mid(mem, b, c)
    [] op = "insert" -> op_insert(mem, a, b, c)
    [] op = "delete" -> op_delete(mem, a, b, c)
    [] op = "replace" -> op_replace(mem, a, b, c)

(* CONCAT reads its second address from a register whatever the flag says. *)
ArgC(i) == IF Operation(i) = "concat" THEN Cv(i) ELSE Cv_or_imm(i)

String(i) ==
  /\ Operation(i) \in StringOps
  /\ mem' \in NewMemory(Operation(i), reg[RA(i)], Bv(i), ArgC(i))
  /\ Next1
  /\ UNCHANGED <<reg, run, blocks>>

-----------------------------------------------------------------------------
(* Function blocks.                                                        *)

(* The id must be immediate; the preset is the register of that number.    *)
Timer(i) ==
  /\ Operation(i) \in {"ton", "tof", "tp"}
  /\ IF FIMM(i) /\ IMM8(i) < MaxTimers
     THEN \E q \in {0, 1} : SetA_val(i, q)
     ELSE UNCHANGED reg
  /\ Next1
  /\ UNCHANGED <<mem, run, blocks>>

(* The id is the value of A, which takes the output.                       *)
CounterOutput(i, kind, id) ==
  CASE kind = "ctu" -> Bit(counter'[kind][id] >= Cv_or_imm(i))
    [] kind = "ctd" -> Bit(counter'[kind][id] <= Cv_or_imm(i))
    [] kind = "ctud" -> counter'[kind][id]

Count(i) ==
  LET id == reg[RA(i)]
      kind == Operation(i)
  IN  /\ kind \in Counters
      /\ IF id \notin Ids THEN UNCHANGED <<reg, blocks>>
         ELSE /\ \/ kind = "ctu" /\ Ctu(id, Bv(i) # 0)
                 \/ kind = "ctd" /\ Ctd(id, Bv(i) # 0)
                 \/ kind = "ctud" /\ Ctud(id, Bv(i) # 0, Cv(i) # 0)
              /\ SetA_val(i, CounterOutput(i, kind, id))
      /\ Next1
      /\ UNCHANGED <<mem, run>>

EdgeOps == [rising_edge |-> "rising", falling_edge |-> "falling",
            edge_both |-> "both"]

EdgeOutput(kind, before, in) ==
  CASE kind = "rising" -> in /\ ~before
    [] kind = "falling" -> ~in /\ before
    [] kind = "both" -> in # before

DetectEdge(i) ==
  LET id == IF FIMM(i) THEN IMM8(i) ELSE reg[RA(i)]
  IN  /\ Operation(i) \in DOMAIN EdgeOps
      /\ LET kind == EdgeOps[Operation(i)]
         IN  IF id \notin Ids THEN SetA_val(i, 0) /\ UNCHANGED blocks
             ELSE /\ Edge(kind, id, Bv(i) # 0)
                  /\ SetA_val(i, Bit(EdgeOutput(kind, prev[Memory(kind)][id],
                                                Bv(i) # 0)))
      /\ Next1
      /\ UNCHANGED <<mem, run>>

(* Without an immediate the earlier build takes the value of A, the later  *)
(* one its number.  The reset input is the register of C in either case.   *)
LatchId(i) == CASE FIMM(i) -> IMM8(i)
                [] ~FIMM(i) /\ build = "legacy" -> reg[RA(i)]
                [] ~FIMM(i) /\ build = "prototype" -> RA(i)

SetLatch(i) ==
  LET id == LatchId(i)
      s == Bv(i) # 0
      r == Cv(i) # 0
  IN  /\ \/ /\ Operation(i) \in {"rs_latch", "sr_latch"} /\ id \notin Ids
            /\ SetA_val(i, 0)
            /\ UNCHANGED blocks
         \/ /\ Operation(i) = "rs_latch" /\ id \in Ids
            /\ RsLatch(id, s, r)
            /\ SetA_val(i, Bit(latch'["rs"][id]))
         \/ /\ Operation(i) = "sr_latch" /\ id \in Ids
            /\ SrLatch(id, s, r)
            /\ SetA_val(i, Bit(latch'["sr"][id]))
      /\ Next1
      /\ UNCHANGED <<mem, run>>

-----------------------------------------------------------------------------
(* Control.  A target is absolute, also when it is immediate.              *)

Target(i) == IF FIMM(i) THEN SEXTIMM8(i) ELSE Bv(i)

Jump(i) ==
  /\ \/ Operation(i) = "jmp" /\ GoTo(Target(i))
     \/ Operation(i) = "jmp_if" /\ GoTo(IF Cv(i) # 0 THEN Target(i) ELSE PC)
     \/ Operation(i) = "jmp_if_not" /\ GoTo(IF Cv(i) = 0 THEN Target(i) ELSE PC)
  /\ UNCHANGED <<reg, mem, run, blocks>>

Nop(i) ==
  /\ Operation(i) = "nop"
  /\ Next1
  /\ UNCHANGED <<reg, mem, run, blocks>>

(* The code without an immediate is the number of A; in the earlier build  *)
(* it is the immediate when the register is 0.                             *)
LegacyCode(i) == IF reg[RA(i)] = 0 THEN IMM8(i) ELSE RA(i)
ExitCode(i) == IF build = "legacy" THEN LegacyCode(i)
               ELSE IF FIMM(i) THEN IMM8(i) ELSE RA(i)

Finish(i) ==
  /\ \/ Operation(i) = "halt" /\ UNCHANGED exitCode
     \/ Operation(i) = "exit" /\ exitCode' = ExitCode(i)
  /\ running' = FALSE /\ stop' = TRUE
  /\ Next1
  /\ UNCHANGED <<reg, mem, blocks>>

Execute(i) ==
  \/ Compute(i) \/ ReadClock(i) \/ Select(i) \/ Demux(i) \/ String(i)
  \/ Timer(i) \/ Count(i) \/ DetectEdge(i) \/ SetLatch(i)
  \/ Jump(i) \/ Nop(i) \/ Finish(i)
=============================================================================
