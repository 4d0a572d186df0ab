------------------------ MODULE Instructions_proofs -------------------------
(***************************************************************************)
(* What holds of words, of the assembler and of the instructions for every *)
(* width of fields and cells and every size of memory: lemmas for          *)
(* Controller_proofs.                                                      *)
(***************************************************************************)
EXTENDS Assembler, Instructions, FiniteSetTheorems, NaturalsInduction, SequenceTheorems,
        WellFoundedInduction, TLAPS

LEMMA MinFacts ==
  ASSUME NEW S, S \subseteq Nat, S # {}
  PROVE  Min(S) \in S /\ \A y \in S : Min(S) <= y
  <1>1. PICK x \in S : \A y \in S : ~(<<y, x>> \in OpToRel(<, Nat))
    BY NatLessThanWellFounded, WFMin
  <1>2. ASSUME NEW y \in S PROVE x <= y
    <2>1. y < x => <<y, x>> \in OpToRel(<, Nat)
      BY DEF OpToRel
    <2>2. ~(y < x)
      BY <1>1, <2>1
    <2> QED
      BY <2>2
  <1> QED
    BY <1>2 DEF Min

-----------------------------------------------------------------------------
(* Words.                                                                  *)

(* The provers do not know powers: the subsets of n things are 2 ^ n.      *)
LEMMA PowerOfTwo ==
  ASSUME NEW n \in Nat
  PROVE  2 ^ n \in Nat \ {0}
  <1>1. IsFiniteSet(1 .. n) /\ Cardinality(1 .. n) = n
    BY FS_Interval
  <1>2. /\ IsFiniteSet(SUBSET (1 .. n))
        /\ Cardinality(SUBSET (1 .. n)) = 2 ^ n
    BY <1>1, FS_SUBSET
  <1>3. 2 ^ n \in Nat
    BY <1>2, FS_CardinalityType
  <1>4. {} \in SUBSET (1 .. n)
    OBVIOUS
  <1>5. 2 ^ n # 0
    BY <1>2, <1>4, FS_EmptySet
  <1> QED
    BY <1>3, <1>5

LEMMA Widths == Fields \in Nat \ {0} /\ Cells \in Nat \ {0} /\ Words \in Nat \ {0}
  <1>1. Fields \in Nat \ {0} /\ Cells \in Nat \ {0}
    BY PowerOfTwo, WidthAssumption DEF Fields, Cells
  <1>2. ASSUME NEW x \in Nat \ {0}, NEW y \in Nat \ {0} PROVE x * y \in Nat \ {0}
    OBVIOUS
  <1>3. Words \in Nat \ {0}
    BY <1>1, <1>2, Zenon DEF Words
  <1> QED
    BY <1>1, <1>3

LEMMA DivMod ==
  ASSUME NEW m \in Nat \ {0}, NEW x \in Nat, NEW r \in 0 .. m - 1
  PROVE  (x * m + r) \div m = x /\ (x * m + r) % m = r
  <1>1. (x * m + r) \div m = x
    OBVIOUS
  <1>2. (x * m + r) % m = r
    OBVIOUS
  <1> QED
    BY <1>1, <1>2

LEMMA ModShift ==
  ASSUME NEW m \in Nat \ {0}, NEW n \in Int
  PROVE  (n + m) % m = n % m
  <1>1. PICK x \in Int, r \in 0 .. m - 1 : n = x * m + r
    <2>1. n \div m \in Int /\ n % m \in 0 .. m - 1
      OBVIOUS
    <2>2. n % m = n - m * (n \div m)
      OBVIOUS
    <2>3. PICK x \in Int, r \in 0 .. m - 1 : x = n \div m /\ r = n % m
      BY <2>1
    <2>4. n = x * m + r
      BY <2>2, <2>3
    <2> QED
      BY <2>4
  <1>2. ASSUME NEW y \in Int PROVE (y * m + r) % m = r
    OBVIOUS
  <1>3. n % m = r
    BY <1>1, <1>2
  <1>4. (n + m) % m = r
    <2>1. n + m = (x + 1) * m + r
      BY <1>1
    <2> QED
      BY <1>2, <2>1
  <1> QED
    BY <1>3, <1>4

(* A word gives back the fields that it was made of.                       *)
LEMMA Unpack ==
  ASSUME NEW op \in Nat, NEW a \in Register, NEW b \in Register,
         NEW f \in {0, 1}, NEW c \in Register
  PROVE  LET i == Pack(op, a, b, f, c)
         IN  /\ i \in Nat
             /\ OPC(i) = op /\ RA(i) = a /\ RB(i) = b /\ RC(i) = c
             /\ FIMM(i) <=> f = 1
             /\ IMM8(i) = c
  <1> DEFINE i == Pack(op, a, b, f, c)
  <1>1. PICK F \in Nat \ {0} : F = Fields
    BY Widths
  <1>2. a \in 0 .. F - 1 /\ b \in 0 .. F - 1 /\ c \in 0 .. F - 1
    BY <1>1 DEF Register
  <1>3. PICK A \in Nat : A = op * F + a
    BY <1>2
  <1>4. PICK B \in Nat : B = A * F + b
    BY <1>2
  <1>5. PICK T \in Nat : T = B * 2 + f
    OBVIOUS
  <1>6. i = T * F + c
    BY <1>1, <1>3, <1>4, <1>5 DEF Pack
  <1>7. i \div F = T /\ i % F = c
    BY <1>2, <1>6, DivMod
  <1>8. T % 2 = f
    BY <1>5
  <1>9. PICK M1 \in Nat \ {0} : M1 = 2 * F
    OBVIOUS
  <1>10. PICK r1 \in 0 .. M1 - 1 : r1 = f * F + c
    BY <1>2, <1>9
  <1>11. i = B * M1 + r1
    BY <1>5, <1>6, <1>9, <1>10, <1>2
  <1>12. i \div M1 = B
    BY <1>11, DivMod
  <1>13. B % F = b /\ B \div F = A
    BY <1>2, <1>4, DivMod
  <1>14. PICK M2 \in Nat \ {0} : M2 = M1 * F
    BY <1>9
  <1>15. PICK r2 \in 0 .. M2 - 1 : r2 = b * M1 + r1
    <2>1. b * M1 + r1 <= (F - 1) * M1 + (M1 - 1)
      BY <1>2
    <2> QED
      BY <1>2, <1>14, <2>1
  <1>16. i = A * M2 + r2
    BY <1>2, <1>4, <1>11, <1>14, <1>15
  <1>17. i \div M2 = A
    BY <1>16, DivMod
  <1>18. A % F = a
    BY <1>2, <1>3, DivMod
  <1>19. PICK M3 \in Nat \ {0} : M3 = M2 * F
    BY <1>14
  <1>20. PICK r3 \in 0 .. M3 - 1 : r3 = a * M2 + r2
    <2>1. a * M2 + r2 <= (F - 1) * M2 + (M2 - 1)
      BY <1>2
    <2> QED
      BY <1>2, <1>19, <2>1
  <1>21. i = op * M3 + r3
    BY <1>2, <1>3, <1>16, <1>19, <1>20
  <1>22. i \div M3 = op
    BY <1>21, DivMod
  <1>23. OPC(i) = op
    <2>1. 2 * Fields * Fields * Fields = M3
      BY <1>1, <1>9, <1>14, <1>19
    <2> QED
      BY <1>22, <2>1 DEF OPC
  <1>24. RA(i) = a
    <2>1. 2 * Fields * Fields = M2
      BY <1>1, <1>9, <1>14
    <2> QED
      BY <1>1, <1>17, <1>18, <2>1 DEF RA
  <1>25. RB(i) = b
    BY <1>1, <1>9, <1>12, <1>13 DEF RB
  <1>26. FIMM(i) <=> f = 1
    BY <1>1, <1>7, <1>8 DEF FIMM
  <1>27. RC(i) = c /\ IMM8(i) = c
    BY <1>1, <1>7 DEF RC, IMM8
  <1>28. i \in Nat
    BY <1>2, <1>6
  <1> QED
    BY <1>23, <1>24, <1>25, <1>26, <1>27, <1>28

(* An immediate in range is read back with its sign.                       *)
LEMMA SignedFacts ==
  ASSUME NEW n \in Int, check_imm8_range(n)
  PROVE  /\ (n + Fields) % Fields \in Register
         /\ Signed((n + Fields) % Fields) = n
  <1>1. PICK F \in Nat \ {0} : F = Fields
    BY Widths
  <1>2. PICK H \in Nat : H = F \div 2 /\ 2 * H <= F
    OBVIOUS
  <1>3. n \in -H .. H - 1
    BY <1>1, <1>2 DEF check_imm8_range
  <1>4. CASE n >= 0
    <2>1. (n + F) % F = n
      BY <1>2, <1>3, <1>4
    <2> QED
      BY <1>1, <1>2, <1>3, <1>4, <2>1 DEF Signed, Register
  <1>5. CASE n < 0
    <2>1. (n + F) % F = n + F
      BY <1>2, <1>3, <1>5
    <2> QED
      BY <1>1, <1>2, <1>3, <1>5, <2>1 DEF Signed, Register
  <1> QED
    BY <1>4, <1>5

-----------------------------------------------------------------------------
(* The assembler, the machine and the log.                                 *)

(* The three tables give an opcode the same name.                          *)
LEMMA TableSizes ==
  /\ DOMAIN op_table = 1 .. 68
  /\ OPCODE_COUNT = 68
  <1>1. DOMAIN op_table = 1 .. 68
    BY DEF op_table
  <1>2. OPCODE_COUNT = 68
    BY DEF OPCODE_COUNT, default_op_ex
  <1> QED
    BY <1>1, <1>2

LEMMA TablesAgree ==
  ASSUME NEW k \in 1 .. 68
  PROVE  op_table[k][1] = opcode_names[k] /\ default_op_ex[k] = opcode_names[k]
  <1>1. op_table[k][1] = opcode_names[k]
    BY DEF op_table, opcode_names
  <1>2. default_op_ex = opcode_names
    BY DEF default_op_ex, opcode_names
  <1> QED
    BY <1>1, <1>2

LEMMA NameOfOpcode ==
  ASSUME NEW name \in Mnemonics
  PROVE  LET op == opcode_from_name(name)
         IN  /\ op \in 0 .. 67
             /\ opcode_names[op + 1] = name /\ default_op_ex[op + 1] = name
  <1>1. \E k \in 1 .. 68 : op_table[k][1] = name
    BY TableSizes DEF Mnemonics
  <1>2. PICK k \in 1 .. 68 : k = CHOOSE j \in DOMAIN op_table : op_table[j][1] = name
    BY <1>1, TableSizes
  <1>3. op_table[k][1] = name
    BY <1>1, <1>2, TableSizes
  <1>4. opcode_from_name(name) = k - 1
    BY <1>2 DEF opcode_from_name
  <1>5. opcode_from_name(name) + 1 = k /\ opcode_from_name(name) \in 0 .. 67
    BY <1>4
  <1> QED
    BY <1>3, <1>5, TablesAgree

(* The words that the assembler writes are those of lines it accepts.      *)
LEMMA OutputFacts ==
  ASSUME NEW source, Len(source) \in Nat, NEW rawHalt
  PROVE  /\ Len(Output(source, rawHalt)) \in 0 .. Len(source)
         /\ \A k \in 1 .. Len(Output(source, rawHalt)) :
              /\ Accepted(source[k], rawHalt)
              /\ Output(source, rawHalt)[k] = Encode(source[k], rawHalt)
  <1>0. PICK bad : bad = {k \in 1 .. Len(source) : ~Accepted(source[k], rawHalt)}
    OBVIOUS
  <1> DEFINE wrong == FirstWrongLine(source, rawHalt)
             n == IF wrong = 0 THEN Len(source) ELSE wrong - 1
  <1>1. wrong = IF bad # {} THEN Min(bad) ELSE 0
    BY <1>0 DEF FirstWrongLine, SelectInSeq
  <1>2. /\ n \in 0 .. Len(source)
        /\ \A k \in 1 .. n : Accepted(source[k], rawHalt)
    <2>1. CASE bad = {}
      BY <1>0, <1>1, <2>1
    <2>2. CASE bad # {}
      <3>1. bad \subseteq Nat
        BY <1>0
      <3>2. Min(bad) \in bad /\ \A k \in bad : Min(bad) <= k
        BY <2>2, <3>1, MinFacts
      <3>3. wrong \in bad /\ wrong \in 1 .. Len(source) /\ \A k \in bad : wrong <= k
        BY <1>0, <1>1, <2>2, <3>2
      <3>4. n = wrong - 1
        BY <3>3
      <3> HIDE DEF wrong, n
      <3> QED
        BY <1>0, <3>3, <3>4
    <2> QED
      BY <2>1, <2>2
  <1>3. Output(source, rawHalt) = [k \in 1 .. n |-> Encode(source[k], rawHalt)]
    BY DEF Output
  <1> HIDE DEF n
  <1>4. Len(Output(source, rawHalt)) = n
    BY <1>2, <1>3
  <1> QED
    BY <1>2, <1>3, <1>4

LEMMA OperandFacts ==
  ASSUME NEW line, SourceLine(line), NEW k \in 1 .. 3
  PROVE  Operand(line, k) \in Operands
  <1>1. CASE Len(line) > k
    <2>1. k + 1 \in 2 .. Len(line)
      BY <1>1 DEF SourceLine
    <2> QED
      BY <1>1, <2>1 DEF SourceLine, Operand
  <1>2. CASE ~(Len(line) > k)
    BY <1>2 DEF Operand, R, Operands
  <1> QED
    BY <1>1, <1>2

LEMMA GoodRegisterFacts ==
  ASSUME NEW t \in Operands, GoodRegister(t)
  PROVE  t.n \in Register /\ R(t.n) = t /\ (t.n + Fields) % Fields = t.n
  <1>1. t.n \in Register /\ t.kind = "reg"
    BY DEF GoodRegister, check_reg_range, Register
  <1>2. R(t.n) = t
    BY <1>1 DEF R, Operands
  <1>3. PICK F \in Nat \ {0} : F = Fields
    BY Widths
  <1>4. (t.n + F) % F = t.n
    BY <1>1, <1>3 DEF Register
  <1> QED
    BY <1>1, <1>2, <1>3, <1>4

(* An accepted line is read back from its word: by the machine, which      *)
(* looks up a handler and operands, and by the log.                        *)
LEMMA RoundTrip ==
  ASSUME NEW line, NEW rawHalt, SourceLine(line), Accepted(line, rawHalt)
  PROVE  LET i == Encode(line, rawHalt)
             name == Mnemonic(line, rawHalt)
             c == Operand(line, 3)
         IN  /\ i \in Nat
             /\ fprintf_inst(i) = <<name, Operand(line, 1), Operand(line, 2), c>>
             /\ Operation(i) = name
             /\ c.kind = "imm" => SEXTIMM8(i) = c.n % Words
  <1> DEFINE i == Encode(line, rawHalt)
             name == Mnemonic(line, rawHalt)
             op == opcode_from_name(name)
             a == Operand(line, 1)
             b == Operand(line, 2)
             c == Operand(line, 3)
             f == IF c.kind = "imm" THEN 1 ELSE 0
             cn == (c.n + Fields) % Fields
  <1>1. a \in Operands /\ b \in Operands /\ c \in Operands
    BY OperandFacts
  <1>2. /\ name \in Mnemonics /\ GoodRegister(a) /\ GoodRegister(b)
        /\ GoodC(name, c)
    BY DEF Accepted
  <1>3. /\ op \in 0 .. 67
        /\ opcode_names[op + 1] = name /\ default_op_ex[op + 1] = name
    BY <1>2, NameOfOpcode
  <1>4. a.n \in Register /\ R(a.n) = a /\ b.n \in Register /\ R(b.n) = b
    BY <1>1, <1>2, GoodRegisterFacts
  <1>5. c.n \in Int
    BY <1>1 DEF Operands
  <1>6. /\ cn \in Register
        /\ c.kind = "imm" => Signed(cn) = c.n /\ Imm(c.n) = c
        /\ c.kind # "imm" => R(cn) = c
    <2>1. CASE c.kind = "imm"
      <3>1. check_imm8_range(c.n)
        BY <1>2, <2>1 DEF GoodC, GoodRegister
      <3>2. cn \in Register /\ Signed(cn) = c.n
        BY <1>5, <3>1, SignedFacts
      <3>3. Imm(c.n) = c
        BY <1>1, <2>1 DEF Imm, Operands
      <3> QED
        BY <2>1, <3>2, <3>3
    <2>2. CASE c.kind # "imm"
      <3>1. GoodRegister(c)
        BY <1>2, <2>2 DEF GoodC
      <3>2. c.n \in Register /\ R(c.n) = c /\ cn = c.n
        BY <1>1, <3>1, GoodRegisterFacts
      <3> QED
        BY <2>2, <3>2
    <2> QED
      BY <2>1, <2>2
  <1>7. i = Pack(op, a.n, b.n, f, cn)
    BY DEF Encode
  <1>8. op \in Nat /\ f \in {0, 1}
    BY <1>3
  <1> HIDE DEF i, name, op, a, b, c, f, cn
  <1>9. /\ i \in Nat
        /\ OPC(i) = op /\ RA(i) = a.n /\ RB(i) = b.n /\ RC(i) = cn
        /\ FIMM(i) <=> f = 1
        /\ IMM8(i) = cn
    BY <1>4, <1>6, <1>7, <1>8, Unpack
  <1>10. FIMM(i) <=> c.kind = "imm"
    BY <1>9 DEF f
  <1>11. opcode_name(OPC(i)) = name /\ Operation(i) = name
    <2>1. op < OPCODE_COUNT
      BY <1>3, TableSizes
    <2>2. opcode_name(OPC(i)) = name
      BY <1>3, <1>9, TableSizes DEF opcode_name
    <2>3. Operation(i) = name
      BY <1>3, <1>9, <2>1 DEF Operation
    <2> QED
      BY <2>2, <2>3
  <1>12. fprintf_inst(i) = <<name, a, b, c>>
    <2>1. (IF FIMM(i) THEN Imm(Signed(IMM8(i))) ELSE R(RC(i))) = c
      BY <1>6, <1>9, <1>10
    <2> QED
      BY <1>4, <1>9, <1>11, <2>1 DEF fprintf_inst
  <1>13. ASSUME c.kind = "imm" PROVE SEXTIMM8(i) = c.n % Words
    <2>1. PICK W \in Nat \ {0} : W = Words
      BY Widths
    <2>2. (c.n + W) % W = c.n % W
      BY <1>5, ModShift
    <2> QED
      BY <1>6, <1>9, <1>13, <2>1, <2>2 DEF SEXTIMM8
  <1> QED
    BY <1>9, <1>11, <1>12, <1>13 DEF i, name, a, b, c

-----------------------------------------------------------------------------
(* Recursive functions.  Induction comes from the least counterexample.    *)

LEMMA Min2 ==
  ASSUME NEW a \in Nat, NEW b \in Nat
  PROVE  Min({a, b}) = IF a <= b THEN a ELSE b
  <1>1. Min({a, b}) \in {a, b} /\ \A y \in {a, b} : Min({a, b}) <= y
    <2>1. PICK S : S = {a, b}
      OBVIOUS
    <2>2. S \subseteq Nat /\ S # {}
      BY <2>1
    <2>3. Min(S) \in S /\ \A y \in S : Min(S) <= y
      BY <2>2, MinFacts
    <2> QED
      BY <2>1, <2>3
  <1> QED
    BY <1>1

Defined(f, V, n, v0, step) ==
  /\ f \in [0 .. n -> V] /\ f[0] = v0
  /\ \A k \in 1 .. n : f[k] = step[k][f[k - 1]]

LEMMA Recursion ==
  ASSUME NEW V, NEW n \in Nat, NEW v0 \in V, NEW step \in [1 .. n -> [V -> V]]
  PROVE  \E f : Defined(f, V, n, v0, step)
  <1> DEFINE UpTo(f, m) == Defined(f, V, m, v0, step)
  <1>1. \E f : UpTo(f, 0)
    <2>1. UpTo([k \in 0 .. 0 |-> v0], 0)
      BY DEF Defined
    <2> QED
      BY <2>1
  <1>2. ASSUME NEW m \in 1 .. n, NEW f, UpTo(f, m - 1)
        PROVE  \E g : UpTo(g, m)
    <2>1. f[m - 1] \in V /\ step[m] \in [V -> V]
      BY <1>2 DEF Defined
    <2>2. PICK v \in V : v = step[m][f[m - 1]]
      BY <2>1
    <2>3. PICK g : g = [k \in 0 .. m |-> IF k = m THEN v ELSE f[k]]
      OBVIOUS
    <2>4. g \in [0 .. m -> V]
      BY <1>2, <2>3 DEF Defined
    <2>5. g[0] = v0
      BY <1>2, <2>3 DEF Defined
    <2>6. ASSUME NEW k \in 1 .. m PROVE g[k] = step[k][g[k - 1]]
      <3>1. g[k - 1] = f[k - 1]
        BY <2>3
      <3>2. CASE k = m
        BY <2>2, <2>3, <3>1, <3>2
      <3>3. CASE k # m
        BY <1>2, <2>3, <3>1, <3>3 DEF Defined
      <3> QED
        BY <3>2, <3>3
    <2> QED
      BY <2>4, <2>5, <2>6 DEF Defined
  <1> HIDE DEF UpTo
  <1>3. PICK bad : bad = {m \in 0 .. n : ~\E f : UpTo(f, m)}
    OBVIOUS
  <1>4. bad = {}
    <2> SUFFICES ASSUME bad # {} PROVE FALSE
      OBVIOUS
    <2>1. bad \subseteq Nat
      BY <1>3
    <2>2. PICK m \in bad : \A y \in bad : m <= y
      BY <2>1, MinFacts
    <2>3. m # 0
      BY <1>1, <1>3
    <2>4. m - 1 \in 0 .. n /\ m - 1 \notin bad /\ m \in 1 .. n
      BY <1>3, <2>1, <2>2, <2>3
    <2> QED
      BY <1>2, <1>3, <2>2, <2>4
  <1>5. PICK f : UpTo(f, n)
    BY <1>3, <1>4
  <1> QED
    BY <1>5 DEF UpTo

LEMMA RecursionType ==
  ASSUME NEW V, NEW n \in Nat, NEW f, f[0] \in V,
         \A k \in 1 .. n : f[k - 1] \in V => f[k] \in V
  PROVE  \A k \in 0 .. n : f[k] \in V
  <1>1. PICK bad : bad = {m \in 0 .. n : f[m] \notin V}
    OBVIOUS
  <1>2. bad = {}
    <2> SUFFICES ASSUME bad # {} PROVE FALSE
      OBVIOUS
    <2>1. bad \subseteq Nat
      BY <1>1
    <2>2. PICK m \in bad : \A y \in bad : m <= y
      BY <2>1, MinFacts
    <2>3. m \in 0 .. n /\ m # 0
      BY <1>1, <2>2
    <2>4. m - 1 \in 0 .. n /\ m - 1 \notin bad /\ m \in 1 .. n
      BY <2>2, <2>3
    <2> QED
      BY <1>1, <2>2, <2>4
  <1> QED
    BY <1>1, <1>2

-----------------------------------------------------------------------------
(* Words in memory, and what the handlers compute.                         *)

LEMMA WordFacts ==
  /\ Words \in Nat \ {0} /\ Words > 5
  /\ {0, 1} \subseteq Word
  /\ \A n \in Int : Wrap(n) \in Word
  <1>1. Words \in Nat \ {0} /\ Cells \in Nat \ {0}
    BY Widths
  <1>2. Cells # 1
    <2>1. IsFiniteSet(1 .. CellBits) /\ Cardinality(1 .. CellBits) = CellBits
      BY WidthAssumption, FS_Interval
    <2>2. /\ IsFiniteSet(SUBSET (1 .. CellBits))
          /\ Cardinality(SUBSET (1 .. CellBits)) = Cells
      BY <2>1, FS_SUBSET DEF Cells
    <2>3. {} \in SUBSET (1 .. CellBits) /\ 1 .. CellBits \in SUBSET (1 .. CellBits)
      OBVIOUS
    <2>4. 1 \in 1 .. CellBits
      BY WidthAssumption
    <2> SUFFICES ASSUME Cells = 1 PROVE FALSE
      OBVIOUS
    <2>5. PICK x : SUBSET (1 .. CellBits) = {x}
      BY <2>2, FS_Singleton
    <2>6. {} = 1 .. CellBits
      BY <2>3, <2>5
    <2> QED
      BY <2>4, <2>6
  <1>3. Words > 5
    <2>1. PICK x \in Nat : x = Cells /\ x >= 2
      BY <1>1, <1>2
    <2>2. PICK y \in Nat : y = x * x /\ y >= 4
      BY <2>1
    <2>3. PICK z \in Nat : z = y * x /\ z >= 8
      BY <2>1, <2>2
    <2>4. z * x >= 8
      BY <2>1, <2>3
    <2> QED
      BY <2>1, <2>2, <2>3, <2>4 DEF Words
  <1>4. {0, 1} \subseteq Word
    BY <1>1, <1>3 DEF Word
  <1>5. ASSUME NEW n \in Int PROVE Wrap(n) \in Word
    BY <1>1 DEF Wrap, Word
  <1> QED
    BY <1>1, <1>3, <1>4, <1>5

LEMMA PowerFacts ==
  ASSUME NEW b \in Nat, NEW c \in Nat
  PROVE  Power(b, c) \in 0 .. Words
  <1>1. PICK W \in Nat \ {0} : W = Words
    BY Widths
  <1>2. PICK N \in Nat : N = Min({c, 4 * CellBits})
    BY WidthAssumption, Min2
  <1>3. PICK V : V = 0 .. W
    OBVIOUS
  <1> DEFINE times(x) == Min({W, b * x})
             Rec(p) == p = [k \in 0 .. N |-> IF k = 0 THEN 1 ELSE times(p[k - 1])]
  <1>4. ASSUME NEW x \in V PROVE times(x) \in V
    <2>1. b * x \in Nat
      BY <1>3
    <2> QED
      BY <1>3, <2>1, Min2
  <1>5. PICK p : p = CHOOSE q : Rec(q)
    OBVIOUS
  <1>6. Power(b, c) = p[N]
    BY <1>1, <1>2, <1>5 DEF Power
  <1> HIDE DEF times
  <1>7. PICK step : step = [k \in 1 .. N |-> [x \in V |-> times(x)]]
    OBVIOUS
  <1>8. step \in [1 .. N -> [V -> V]] /\ 1 \in V
    BY <1>3, <1>4, <1>7
  <1>9. PICK f : Defined(f, V, N, 1, step)
    BY <1>8, Recursion
  <1>10. f \in [0 .. N -> V] /\ \A k \in 1 .. N : f[k] = times(f[k - 1])
    <2>1. f \in [0 .. N -> V]
      BY <1>9 DEF Defined
    <2>2. ASSUME NEW k \in 1 .. N PROVE f[k] = times(f[k - 1])
      <3>1. f[k] = step[k][f[k - 1]]
        BY <1>9 DEF Defined
      <3>2. f[k - 1] \in V
        BY <2>1
      <3> QED
        BY <1>7, <3>1, <3>2
    <2> QED
      BY <2>1, <2>2
  <1>11. Rec(f)
    BY <1>9, <1>10 DEF Defined
  <1>12. Rec(p)
    BY <1>5, <1>11
  <1>13. p[0] \in V /\ \A k \in 1 .. N : p[k - 1] \in V => p[k] \in V
    BY <1>4, <1>8, <1>12
  <1>14. p[N] \in V
    BY <1>13, RecursionType
  <1> QED
    BY <1>1, <1>3, <1>6, <1>14

LEMMA OfBitsFacts == ASSUME NEW S PROVE OfBits(S) \in Nat
  <1>1. PICK N \in Nat : N = 4 * CellBits
    BY WidthAssumption
  <1> DEFINE bit(k) == IF k - 1 \in S THEN 2 ^ (k - 1) ELSE 0
             Rec(p) == p = [k \in 0 .. N |-> IF k = 0 THEN 0 ELSE p[k - 1] + bit(k)]
  <1>2. ASSUME NEW k \in 1 .. N PROVE bit(k) \in Nat
    <2>1. k - 1 \in Nat
      OBVIOUS
    <2> QED
      BY <2>1, PowerOfTwo
  <1>3. PICK p : p = CHOOSE q : Rec(q)
    OBVIOUS
  <1>4. OfBits(S) = p[N]
    BY <1>1, <1>3 DEF OfBits
  <1> HIDE DEF bit
  <1>5. PICK step : step = [k \in 1 .. N |-> [x \in Nat |-> x + bit(k)]]
    OBVIOUS
  <1>6. step \in [1 .. N -> [Nat -> Nat]]
    BY <1>2, <1>5
  <1>7. PICK f : Defined(f, Nat, N, 0, step)
    BY <1>6, Recursion
  <1>8. f \in [0 .. N -> Nat] /\ \A k \in 1 .. N : f[k] = f[k - 1] + bit(k)
    <2>1. f \in [0 .. N -> Nat]
      BY <1>7 DEF Defined
    <2>2. ASSUME NEW k \in 1 .. N PROVE f[k] = f[k - 1] + bit(k)
      <3>1. f[k] = step[k][f[k - 1]]
        BY <1>7 DEF Defined
      <3>2. f[k - 1] \in Nat
        BY <2>1
      <3> QED
        BY <1>5, <3>1, <3>2
    <2> QED
      BY <2>1, <2>2
  <1>9. Rec(f)
    BY <1>7, <1>8 DEF Defined
  <1>10. Rec(p)
    BY <1>3, <1>9
  <1>11. PICK V : V = Nat
    OBVIOUS
  <1>12. p[0] \in V /\ \A k \in 1 .. N : p[k - 1] \in V => p[k] \in V
    BY <1>2, <1>10, <1>11
  <1>13. p[N] \in V
    BY <1>12, RecursionType
  <1> QED
    BY <1>4, <1>11, <1>13

-----------------------------------------------------------------------------
(* Memory.                                                                 *)

Memories == [0 .. MemBytes - 1 -> 0 .. Cells - 1]

LEMMA Digits ==
  ASSUME NEW C \in Nat \ {0}, NEW D \in Nat \ {0},
         NEW x \in 0 .. C - 1, NEW y \in 0 .. D - 1
  PROVE  x + C * y \in 0 .. D * C - 1 /\ D * C \in Nat \ {0}
  <1>1. C * y <= C * (D - 1) /\ C * y \in Nat /\ C * D \in Nat
    OBVIOUS
  <1>2. C * (D - 1) = C * D - C /\ D * C = C * D
    OBVIOUS
  <1> QED
    BY <1>1, <1>2

LEMMA ReadFacts ==
  ASSUME NEW m \in Memories, NEW a \in Nat, a + 4 <= MemBytes
  PROVE  vm_mr32(m, a) \in Word
  <1>1. PICK C \in Nat \ {0} : C = Cells
    BY Widths
  <1>2. /\ m[a] \in 0 .. C - 1 /\ m[a + 1] \in 0 .. C - 1
        /\ m[a + 2] \in 0 .. C - 1 /\ m[a + 3] \in 0 .. C - 1
    BY <1>1, WidthAssumption DEF Memories
  <1>3. PICK D \in Nat \ {0} : D = C * C
    OBVIOUS
  <1>4. PICK y \in 0 .. D - 1 : y = m[a + 2] + C * m[a + 3]
    BY <1>2, <1>3, Digits
  <1>5. PICK E \in Nat \ {0} : E = D * C
    OBVIOUS
  <1>6. PICK z \in 0 .. E - 1 : z = m[a + 1] + C * y
    BY <1>2, <1>5, Digits
  <1>7. m[a] + C * z \in 0 .. E * C - 1
    BY <1>2, Digits
  <1>8. Words = E * C
    BY <1>1, <1>3, <1>5 DEF Words
  <1>9. vm_mr32(m, a) = m[a] + C * z
    BY <1>1, <1>4, <1>6 DEF vm_mr32
  <1> QED
    BY <1>7, <1>8, <1>9 DEF Word

LEMMA WriteFacts ==
  ASSUME NEW m \in Memories, NEW a \in Nat, NEW v \in Nat
  PROVE  vm_mw32(m, a, v) \in Memories
  <1>1. PICK C \in Nat \ {0} : C = Cells
    BY Widths
  <1>2. ASSUME NEW D \in Nat \ {0} PROVE (v \div D) % C \in 0 .. C - 1
    <2>1. v \div D \in Int
      OBVIOUS
    <2> QED
      BY <2>1
  <1>3. C * C \in Nat \ {0} /\ C * C * C \in Nat \ {0}
    <2>1. PICK D \in Nat \ {0} : D = C * C
      OBVIOUS
    <2>2. D * C \in Nat \ {0}
      OBVIOUS
    <2> QED
      BY <2>1, <2>2
  <1>4. v % C \in 0 .. C - 1
    OBVIOUS
  <1>5. PICK b1, b2, b3, b4 \in 0 .. C - 1 :
          /\ b1 = v % C /\ b2 = (v \div C) % C
          /\ b3 = (v \div (C * C)) % C /\ b4 = (v \div (C * C * C)) % C
    BY <1>2, <1>3, <1>4
  <1>6. PICK bytes : bytes = <<b1, b2, b3, b4>>
    OBVIOUS
  <1>7. vm_mw32(m, a, v) = [x \in DOMAIN m |-> IF x \in a .. a + 3 THEN bytes[x - a + 1]
                                                                  ELSE m[x]]
    BY <1>1, <1>5, <1>6 DEF vm_mw32
  <1>8. ASSUME NEW x \in 0 .. MemBytes - 1, x \in a .. a + 3
        PROVE  bytes[x - a + 1] \in 0 .. C - 1
    <2>1. x - a + 1 \in 1 .. 4
      BY <1>8
    <2>2. bytes \in [1 .. 4 -> 0 .. C - 1]
      BY <1>6
    <2> QED
      BY <2>1, <2>2
  <1> QED
    BY <1>1, <1>7, <1>8 DEF Memories

LEMMA RemainingFacts ==
  ASSUME NEW a \in Nat
  PROVE  /\ Remaining(a) \in Nat
         /\ a < MemBytes => a + Remaining(a) = MemBytes
         /\ a >= MemBytes => Remaining(a) = 0
  BY WidthAssumption DEF Remaining

(* The characters of a string, and what follows them.                      *)
LEMMA StrLenFacts ==
  ASSUME NEW m, NEW a \in Nat
  PROVE  /\ StrLen(m, a) \in 0 .. Remaining(a)
         /\ \A i \in 0 .. Remaining(a) : i < StrLen(m, a) => m[a + i] # 0
         /\ StrLen(m, a) < Remaining(a) => m[a + StrLen(m, a)] = 0
  <1>1. PICK S : S = {i \in 0 .. Remaining(a) : i = Remaining(a) \/ m[a + i] = 0}
    OBVIOUS
  <1>2. S \subseteq Nat /\ S # {}
    BY <1>1, RemainingFacts
  <1>3. Min(S) \in S /\ \A y \in S : Min(S) <= y
    BY <1>2, MinFacts
  <1>4. PICK n \in S : n = StrLen(m, a) /\ \A y \in S : n <= y
    BY <1>1, <1>3 DEF StrLen
  <1>5. n \in 0 .. Remaining(a) /\ (n < Remaining(a) => m[a + n] = 0)
    BY <1>1, RemainingFacts
  <1>6. ASSUME NEW i \in 0 .. Remaining(a), i < n PROVE m[a + i] # 0
    <2>1. i \notin S
      BY <1>2, <1>4, <1>6
    <2> QED
      BY <1>1, <2>1
  <1> QED
    BY <1>4, <1>5, <1>6

LEMMA MoveFacts ==
  ASSUME NEW m \in Memories, NEW dest \in Nat, NEW src \in Nat, NEW n \in Int,
         src + n <= MemBytes
  PROVE  /\ Move(m, dest, src, n) \in Memories
         /\ \A x \in 0 .. MemBytes - 1 :
              Move(m, dest, src, n)[x] =
                IF x \in dest .. dest + n - 1 THEN m[src + (x - dest)] ELSE m[x]
  <1>1. Move(m, dest, src, n) =
          [x \in 0 .. MemBytes - 1 |->
             IF x \in dest .. dest + n - 1 THEN m[src + (x - dest)] ELSE m[x]]
    BY DEF Move, Fill, Memories
  <1>2. ASSUME NEW x \in 0 .. MemBytes - 1, x \in dest .. dest + n - 1
        PROVE  m[src + (x - dest)] \in 0 .. Cells - 1
    <2>1. src + (x - dest) \in 0 .. MemBytes - 1
      BY <1>2, WidthAssumption
    <2> QED
      BY <2>1 DEF Memories
  <1> QED
    BY <1>1, <1>2 DEF Memories

LEMMA MemCpyFacts ==
  ASSUME NEW m \in Memories, NEW dest \in Nat, NEW src \in Nat, NEW n \in Nat,
         src + n <= MemBytes
  PROVE  MemCpy(m, dest, src, n) \subseteq Memories
  <1>1. Move(m, dest, src, n) \in Memories
    BY MoveFacts
  <1>2. ASSUME dest < src + n, src < dest + n, dest # src,
               NEW gap, gap = IF dest > src THEN dest - src ELSE src - dest
        PROVE  [x \in DOMAIN m |->
                  IF x \in dest .. dest + n - 1
                  THEN m[IF dest > src THEN src + ((x - dest) % gap)
                         ELSE src + n - 1 - ((n - 1 - (x - dest)) % gap)]
                  ELSE m[x]] \in Memories
    <2>1. gap \in Nat \ {0}
      BY <1>2
    <2>2. ASSUME NEW x \in 0 .. MemBytes - 1, x \in dest .. dest + n - 1
          PROVE  (IF dest > src THEN src + ((x - dest) % gap)
                  ELSE src + n - 1 - ((n - 1 - (x - dest)) % gap)) \in 0 .. MemBytes - 1
      <3>1. PICK k \in Nat : k = x - dest
        BY <2>2
      <3>2. k % gap \in 0 .. gap - 1
        BY <2>1
      <3>3. PICK j \in Int : j = n - 1 - k
        OBVIOUS
      <3>4. j % gap \in 0 .. gap - 1
        BY <2>1
      <3>5. CASE dest > src
        BY <1>2, <2>1, <3>1, <3>2, <3>5, WidthAssumption
      <3>6. CASE ~(dest > src)
        BY <1>2, <2>1, <3>1, <3>3, <3>4, <3>6, WidthAssumption
      <3> QED
        BY <3>5, <3>6
    <2>3. DOMAIN m = 0 .. MemBytes - 1 /\ \A x \in 0 .. MemBytes - 1 : m[x] \in 0 .. Cells - 1
      BY DEF Memories
    <2> QED
      BY <2>2, <2>3 DEF Memories
  <1> QED
    BY <1>1, <1>2 DEF MemCpy, Fill

-----------------------------------------------------------------------------
(* What the handlers compute is a word.                                    *)

LEMMA SqrtFacts == ASSUME NEW b \in Nat PROVE op_sqrt(b) \subseteq 0 .. b
  <1>1. PICK S : S = {x \in 0 .. b + 1 : x * x > b}
    OBVIOUS
  <1>2. S \subseteq Nat /\ S # {}
    <2>1. PICK x \in 0 .. b + 1 : x = b + 1
      OBVIOUS
    <2>2. x * x > b
      BY <2>1
    <2> QED
      BY <1>1, <2>2
  <1>3. PICK y \in S : \A z \in S : y <= z
    BY <1>2, MinFacts
  <1>4. y \in Nat /\ y # 0 /\ y <= b + 1 /\ y * y > b
    BY <1>1, <1>2, <1>3
  <1>5. PICK r \in 0 .. b : y = r + 1
    BY <1>4
  <1>6. r \notin S
    BY <1>3, <1>5
  <1>7. r * r <= b /\ b < (r + 1) * (r + 1)
    BY <1>1, <1>4, <1>5, <1>6
  <1> QED
    BY <1>7 DEF op_sqrt

LEMMA ReachedFacts ==
  ASSUME NEW b \in Nat, NEW T, T \subseteq Nat \ {0}
  PROVE  Reached(T, b) \in 0 .. b
  <1>1. IsFiniteSet(1 .. b) /\ Cardinality(1 .. b) = b
    BY FS_Interval
  <1>2. {t \in T : t <= b} \in SUBSET (1 .. b)
    <2>1. ASSUME NEW t \in T, t <= b PROVE t \in 1 .. b
      BY <2>1
    <2> QED
      BY <2>1
  <1>3. /\ Cardinality({t \in T : t <= b}) <= b
        /\ Cardinality({t \in T : t <= b}) \in Nat
    BY <1>1, <1>2, FS_Subset, FS_CardinalityType
  <1> QED
    BY <1>3 DEF Reached

LEMMA FunctionResults ==
  ASSUME NEW b \in Word, NEW op \in DOMAIN Functions(b)
  PROVE  Functions(b)[op] \subseteq Word
  <1>1. /\ Words \in Nat \ {0} /\ b \in Nat /\ {0, 1} \subseteq Word
        /\ \A n \in Int : Wrap(n) \in Word
        /\ 0 .. b \subseteq Word /\ Outcomes \subseteq Word
        /\ Words - 1 - b \in Word
    BY WordFacts, OutcomesAssumption DEF Word
  <1>2. op_abs(b) \subseteq Word
    BY <1>1 DEF op_abs
  <1>3. op_sqrt(b) \subseteq Word
    BY <1>1, SqrtFacts
  <1>4. op_ln(b) \subseteq Word
    <2>1. ToSet(ofE) \subseteq Nat \ {0}
      <3>1. ofE \in [1 .. 5 -> Nat \ {0}]
        BY DEF ofE
      <3> QED
        BY <3>1 DEF ToSet
    <2> QED
      BY <1>1, <2>1, ReachedFacts DEF op_ln
  <1>5. op_log(b) \subseteq Word
    <2>1. {10, 100} \subseteq Nat \ {0}
      OBVIOUS
    <2> QED
      BY <1>1, <2>1, ReachedFacts DEF op_log
  <1>6. op_exp(b) \subseteq Word
    <2>1. ExpOf \in [1 .. 6 -> Nat] /\ Len(ExpOf) = 6
      BY DEF ExpOf
    <2>2. CASE b < Len(ExpOf) /\ ExpOf[b + 1] < Words
      <3>1. b + 1 \in 1 .. 6 /\ ExpOf[b + 1] \in Nat
        BY <1>1, <2>1, <2>2
      <3>2. PICK n \in Nat : n = ExpOf[b + 1]
        BY <3>1
      <3>3. n < Words
        BY <2>2, <3>2
      <3>4. n \in Word
        BY <3>3, WordFacts DEF Word
      <3> QED
        BY <2>2, <3>2, <3>4 DEF op_exp
    <2>3. CASE ~(b < Len(ExpOf) /\ ExpOf[b + 1] < Words)
      BY <1>1, <2>3 DEF op_exp
    <2> QED
      BY <2>2, <2>3
  <1>7. /\ op_sin(b) \subseteq Word /\ op_cos(b) \subseteq Word
        /\ op_tan(b) \subseteq Word /\ op_asin(b) \subseteq Word
        /\ op_acos(b) \subseteq Word /\ op_atan(b) \subseteq Word
    BY <1>1 DEF op_sin, op_cos, op_tan, op_asin, op_acos, op_atan, Bit
  <1> HIDE DEF Word
  <1> QED
    BY <1>1, <1>2, <1>3, <1>4, <1>5, <1>6, <1>7 DEF Functions

LEMMA ArithmeticResults ==
  ASSUME NEW b \in Nat, NEW c \in Nat, NEW op \in DOMAIN Arithmetic(b, c)
  PROVE  Arithmetic(b, c)[op] \in Int
  <1>1. /\ op_and(b, c) \in Nat /\ op_or(b, c) \in Nat /\ op_xor(b, c) \in Nat
    BY OfBitsFacts DEF op_and, op_or, op_xor
  <1>2. b * c \in Int /\ (c # 0 => b \div c \in Int /\ b % c \in Int)
    OBVIOUS
  <1> QED
    BY <1>1, <1>2 DEF Arithmetic

LEMMA ResultsFacts ==
  ASSUME NEW op, NEW b \in Word, NEW c \in Word
  PROVE  Results(op, b, c) \subseteq Word
  <1>1. b \in Nat /\ c \in Nat
    BY WordFacts DEF Word
  <1>2. \A p \in BOOLEAN : Bit(p) \in Word
    BY WordFacts DEF Bit
  <1>3. ASSUME NEW o \in DOMAIN Compare(b, c) PROVE Bit(Compare(b, c)[o]) \in Word
    <2>1. Bit(Compare(b, c)[o]) \in {0, 1}
      BY DEF Bit
    <2> QED
      BY <2>1, WordFacts
  <1>4. op_expt(b, c) \subseteq Word
    <2>1. Power(b, c) \in 0 .. Words
      BY <1>1, PowerFacts
    <2>2. CASE Power(b, c) = Words
      BY <2>2, OutcomesAssumption DEF op_expt
    <2>3. CASE Power(b, c) # Words
      <3>1. Power(b, c) \in Word
        BY <2>1, <2>3, WordFacts DEF Word
      <3> QED
        BY <2>3, <3>1 DEF op_expt
    <2> QED
      BY <2>2, <2>3
  <1>5. op \in DOMAIN Arithmetic(b, c) => Wrap(Arithmetic(b, c)[op]) \in Word
    BY <1>1, ArithmeticResults, WordFacts
  <1>6. op \in DOMAIN Functions(b) => Functions(b)[op] \subseteq Word
    BY FunctionResults
  <1> QED
    BY <1>3, <1>4, <1>5, <1>6 DEF Results

-----------------------------------------------------------------------------
(* The string instructions stay within memory.                             *)

LEMMA SetNullFacts ==
  ASSUME NEW m \in Memories, NEW a
  PROVE  SetNull(m, a) \in Memories
  <1>1. 0 \in 0 .. Cells - 1
    BY Widths
  <1> QED
    BY <1>1 DEF SetNull, Memories

LEMMA Min3 ==
  ASSUME NEW a \in Nat, NEW b \in Nat, NEW c \in Nat
  PROVE  /\ Min({a, b, c}) \in {a, b, c}
         /\ Min({a, b, c}) <= a /\ Min({a, b, c}) <= b /\ Min({a, b, c}) <= c
  <1>1. PICK S : S = {a, b, c}
    OBVIOUS
  <1>2. S \subseteq Nat /\ S # {}
    BY <1>1
  <1>3. Min(S) \in S /\ \A y \in S : Min(S) <= y
    BY <1>2, MinFacts
  <1>4. a \in S /\ b \in S /\ c \in S
    BY <1>1
  <1>5. Min(S) \in {a, b, c} /\ Min(S) <= a /\ Min(S) <= b /\ Min(S) <= c
    BY <1>1, <1>3, <1>4, Zenon
  <1> QED
    BY <1>1, <1>5, Zenon

LEMMA SafeMoveFacts ==
  ASSUME NEW m \in Memories, NEW dest \in Nat, NEW src \in Nat, NEW n \in Nat
  PROVE  SafeMove(m, dest, src, n) \in Memories
  <1>1. PICK k \in Nat : /\ k = Min({n, Remaining(dest), Remaining(src)})
                         /\ k <= Remaining(src) /\ k <= Remaining(dest)
    <2>1. PICK rd \in Nat : rd = Remaining(dest)
      BY RemainingFacts
    <2>2. PICK rs \in Nat : rs = Remaining(src)
      BY RemainingFacts
    <2> QED
      BY <2>1, <2>2, Min3
  <1>2. CASE src < MemBytes
    <2>1. src + k <= MemBytes
      BY <1>1, <1>2, RemainingFacts, WidthAssumption
    <2> QED
      BY <1>1, <2>1, MoveFacts DEF SafeMove
  <1>3. CASE ~(src < MemBytes)
    <2>1. k = 0
      BY <1>1, <1>3, RemainingFacts, WidthAssumption
    <2>2. Move(m, dest, src, k) = m
      BY <2>1 DEF Move, Fill, Memories
    <2> QED
      BY <1>1, <2>2 DEF SafeMove
  <1> QED
    BY <1>2, <1>3

LEMMA RoomFacts ==
  ASSUME NEW m, NEW a \in Nat
  PROVE  /\ Room(m, a) \in Nat
         /\ Room(m, a) > 0 => StrLen(m, a) + Room(m, a) + 1 = Remaining(a)
  BY StrLenFacts, RemainingFacts DEF Room

LEMMA ConcatStays ==
  ASSUME NEW m \in Memories, NEW dest \in Nat, NEW src \in Nat
  PROVE  op_concat(m, dest, src) \subseteq Memories
  <1>1. PICK at \in Nat, n \in Nat :
          /\ at = dest + StrLen(m, dest)
          /\ n = Min({StrLen(m, src), Room(m, dest)}) /\ n <= StrLen(m, src)
    BY StrLenFacts, RoomFacts, Min2, RemainingFacts
  <1>2. ASSUME InMemory(src) PROVE src + n <= MemBytes
    BY <1>1, <1>2, StrLenFacts, RemainingFacts, WidthAssumption DEF InMemory
  <1>3. ASSUME InMemory(src), NEW c \in MemCpy(m, at, src, n)
        PROVE  SetNull(c, at + n) \in Memories
    BY <1>2, <1>3, MemCpyFacts, SetNullFacts
  <1>4. op_concat(m, dest, src) =
          IF InMemory(dest) /\ InMemory(src)
          THEN {SetNull(c, at + n) : c \in MemCpy(m, at, src, n)} ELSE {m}
    BY <1>1 DEF op_concat
  <1> QED
    BY <1>3, <1>4

LEMMA LeftStays ==
  ASSUME NEW m \in Memories, NEW a \in Nat, NEW n \in Nat
  PROVE  op_left(m, a, n) \subseteq Memories
  BY SetNullFacts DEF op_left

LEMMA RightStays ==
  ASSUME NEW m \in Memories, NEW a \in Nat, NEW n \in Nat
  PROVE  op_right(m, a, n) \subseteq Memories
  <1>1. ASSUME n < StrLen(m, a) PROVE a + StrLen(m, a) - n \in Nat
    BY <1>1, StrLenFacts, RemainingFacts
  <1>2. ASSUME n < StrLen(m, a)
        PROVE  SafeMove(m, a, a + StrLen(m, a) - n, n) \in Memories
    BY <1>1, <1>2, SafeMoveFacts
  <1> QED
    BY <1>2, SetNullFacts DEF op_right

LEMMA MidStays ==
  ASSUME NEW m \in Memories, NEW a \in Nat, NEW start \in Nat
  PROVE  op_mid(m, a, start) \subseteq Memories
  <1>1. CASE ~InMemory(a)
    BY <1>1 DEF op_mid
  <1>2. CASE InMemory(a) /\ start >= StrLen(m, a)
    BY <1>2, SetNullFacts DEF op_mid
  <1>3. CASE InMemory(a) /\ ~(start >= StrLen(m, a))
    <2>1. PICK n \in Nat : n = StrLen(m, a) - start
      BY <1>3, StrLenFacts, RemainingFacts
    <2>2. SetNull(SafeMove(m, a, a + start, n), a + n) \in Memories
      BY SafeMoveFacts, SetNullFacts
    <2> QED
      BY <1>3, <2>1, <2>2 DEF op_mid
  <1> QED
    BY <1>1, <1>2, <1>3

LEMMA InsertStays ==
  ASSUME NEW m \in Memories, NEW dest \in Nat, NEW src \in Nat, NEW pos \in Nat
  PROVE  op_insert(m, dest, src, pos) \subseteq Memories
  <1>1. PICK len \in Nat : len = StrLen(m, dest) /\ len <= Remaining(dest)
    BY StrLenFacts, RemainingFacts
  <1>2. PICK p \in Nat : p = Min({pos, StrLen(m, dest)}) /\ p <= len
    BY <1>1, Min2
  <1>3. PICK n \in Nat : /\ n = Min({StrLen(m, src), Room(m, dest)})
                         /\ n <= StrLen(m, src) /\ n <= Room(m, dest)
    BY StrLenFacts, RoomFacts, Min2, RemainingFacts
  <1>4. CASE InMemory(dest) /\ InMemory(src) /\ n > 0
    <2>1. src + n <= MemBytes
      BY <1>3, <1>4, StrLenFacts, RemainingFacts, WidthAssumption DEF InMemory
    <2>2. dest + p + (len - p + 1) <= MemBytes
      <3>1. Room(m, dest) > 0
        BY <1>3, <1>4, RoomFacts
      <3>2. len + 1 <= Remaining(dest)
        BY <1>1, <3>1, RoomFacts, RemainingFacts
      <3> QED
        BY <1>1, <1>2, <1>4, <3>2, RemainingFacts, WidthAssumption DEF InMemory
    <2>3. PICK moved : moved = Move(m, dest + p + n, dest + p, len - p + 1)
      OBVIOUS
    <2>4. moved \in Memories
      <3>1. PICK d \in Nat : d = dest + p + n
        OBVIOUS
      <3>2. PICK s \in Nat : s = dest + p
        OBVIOUS
      <3>3. PICK l \in Int : l = len - p + 1
        OBVIOUS
      <3>4. Move(m, d, s, l) \in Memories
        BY <2>2, <3>2, <3>3, MoveFacts
      <3> QED
        BY <2>3, <3>1, <3>2, <3>3, <3>4
    <2>5. MemCpy(moved, dest + p, src, n) \subseteq Memories
      BY <2>1, <2>4, MemCpyFacts
    <2>6. op_insert(m, dest, src, pos) = MemCpy(moved, dest + p, src, n)
      BY <1>1, <1>2, <1>3, <1>4, <2>3 DEF op_insert
    <2> QED
      BY <2>5, <2>6
  <1>5. CASE ~(InMemory(dest) /\ InMemory(src) /\ n > 0)
    BY <1>3, <1>5 DEF op_insert
  <1> QED
    BY <1>4, <1>5

LEMMA DeleteStays ==
  ASSUME NEW m \in Memories, NEW a \in Nat, NEW pos \in Nat, NEW n \in Nat
  PROVE  op_delete(m, a, pos, n) \subseteq Memories
  <1>1. PICK len \in Nat : len = StrLen(m, a)
    BY StrLenFacts, RemainingFacts
  <1>2. CASE InMemory(a) /\ pos < len
    <2>1. PICK k \in Nat : k = Min({n, len - pos}) /\ k <= len - pos
      <3>1. len - pos \in Nat
        BY <1>2
      <3> QED
        BY <3>1, Min2
    <2>2. PICK j \in Nat : j = len - pos - k + 1
      BY <2>1
    <2>3. SafeMove(m, a + pos, a + pos + k, j) \in Memories
      BY SafeMoveFacts
    <2> QED
      BY <1>1, <1>2, <2>1, <2>2, <2>3 DEF op_delete
  <1>3. CASE ~(InMemory(a) /\ pos < len)
    BY <1>1, <1>3 DEF op_delete
  <1> QED
    BY <1>2, <1>3

LEMMA ReplaceStays ==
  ASSUME NEW m \in Memories, NEW a \in Nat, NEW src \in Nat, NEW pos \in Nat
  PROVE  op_replace(m, a, src, pos) \subseteq Memories
  <1>1. PICK len \in Nat : len = StrLen(m, a)
    BY StrLenFacts, RemainingFacts
  <1>2. CASE ~InMemory(a) \/ ~InMemory(src) \/ pos > len
    BY <1>1, <1>2 DEF op_replace
  <1>3. CASE InMemory(a) /\ InMemory(src) /\ pos <= len
    <2>1. PICK n \in Nat : /\ n = Min({StrLen(m, src), len - pos})
                           /\ n <= StrLen(m, src) /\ n <= len - pos
      <3>1. len - pos \in Nat /\ StrLen(m, src) \in Nat
        BY <1>3, StrLenFacts, RemainingFacts
      <3> QED
        BY <3>1, Min2
    <2>2. PICK j \in Nat : j = len - pos - n + 1
      BY <2>1
    <2>3. PICK cut \in Memories : cut = SafeMove(m, a + pos, a + pos + n, j)
      BY SafeMoveFacts
    <2>4. PICK k \in Nat : k = Min({n, Room(cut, a)}) /\ k <= n /\ k <= Room(cut, a)
      BY RoomFacts, Min2
    <2>5. op_replace(m, a, src, pos) =
            IF k = 0 THEN {cut}
            ELSE MemCpy(Move(cut, a + pos + k, a + pos, StrLen(cut, a) - pos + 1),
                        a + pos, src, k)
      BY <1>1, <1>3, <2>1, <2>2, <2>3, <2>4 DEF op_replace
    <2>6. CASE k = 0
      BY <2>5, <2>6
    <2>7. CASE k # 0
      <3>1. PICK cutLen \in Nat : cutLen = StrLen(cut, a)
        BY StrLenFacts, RemainingFacts
      <3>2. src + k <= MemBytes
        BY <1>3, <2>1, <2>4, StrLenFacts, RemainingFacts, WidthAssumption DEF InMemory
      <3>3. a + pos + (cutLen - pos + 1) <= MemBytes
        <4>1. Room(cut, a) > 0
          BY <2>4, <2>7, RoomFacts
        <4>2. cutLen + 1 <= Remaining(a)
          BY <3>1, <4>1, RoomFacts, RemainingFacts
        <4> QED
          BY <1>3, <4>2, RemainingFacts, WidthAssumption DEF InMemory
      <3>4. PICK moved : moved = Move(cut, a + pos + k, a + pos, cutLen - pos + 1)
        OBVIOUS
      <3>5. moved \in Memories
        BY <3>3, <3>4, MoveFacts
      <3>6. MemCpy(moved, a + pos, src, k) \subseteq Memories
        BY <3>2, <3>5, MemCpyFacts
      <3> QED
        BY <2>5, <2>7, <3>1, <3>4, <3>6
    <2> QED
      BY <2>6, <2>7
  <1> QED
    BY <1>2, <1>3

-----------------------------------------------------------------------------
(* What an instruction leaves in the registers and in memory.              *)

Registers == [Register -> Word]

LEMMA FieldFacts ==
  ASSUME NEW i \in Nat
  PROVE  /\ RA(i) \in Register /\ RB(i) \in Register /\ RC(i) \in Register
         /\ SEXTIMM8(i) \in Word
  <1>1. PICK F \in Nat \ {0} : F = Fields
    BY Widths
  <1>2. PICK W \in Nat \ {0} : W = Words
    BY Widths
  <1>3. ASSUME NEW D \in Nat \ {0} PROVE (i \div D) % F \in 0 .. F - 1
    <2>1. i \div D \in Int
      OBVIOUS
    <2> QED
      BY <2>1
  <1>4. 2 * F * F \in Nat \ {0} /\ 2 * F \in Nat \ {0}
    <2>1. PICK D \in Nat \ {0} : D = 2 * F
      OBVIOUS
    <2>2. D * F \in Nat \ {0}
      OBVIOUS
    <2> QED
      BY <2>1, <2>2
  <1>5. PICK c \in 0 .. F - 1 : c = i % F
    OBVIOUS
  <1>6. RC(i) = c /\ IMM8(i) = c
    BY <1>1, <1>5 DEF RC, IMM8
  <1>7. PICK s \in Int : s = Signed(c)
    <2>1. c \in Int /\ c - F \in Int
      OBVIOUS
    <2>2. Signed(c) = c \/ Signed(c) = c - F
      BY <1>1, Zenon DEF Signed
    <2> QED
      BY <2>1, <2>2
  <1>8. (s + W) % W \in 0 .. W - 1
    OBVIOUS
  <1>9. SEXTIMM8(i) \in Word
    BY <1>2, <1>6, <1>7, <1>8 DEF SEXTIMM8, Word
  <1> QED
    BY <1>1, <1>3, <1>4, <1>6, <1>9 DEF RA, RB, Register

LEMMA OperandValues ==
  ASSUME NEW i \in Nat, reg \in Registers
  PROVE  /\ reg[RA(i)] \in Word /\ Bv(i) \in Word /\ Cv(i) \in Word
         /\ Cv_or_imm(i) \in Word
         /\ \A n \in Word : n \in Nat
  <1>1. /\ RA(i) \in Register /\ RB(i) \in Register /\ RC(i) \in Register
        /\ SEXTIMM8(i) \in Word
    BY FieldFacts
  <1>2. \A n \in Word : n \in Nat
    BY WordFacts DEF Word
  <1> HIDE DEF Word
  <1> QED
    BY <1>1, <1>2 DEF Bv, Cv, Cv_or_imm, Registers

LEMMA SetFacts ==
  ASSUME NEW i, NEW v \in Word, reg \in Registers, SetA_val(i, v)
  PROVE  reg' \in Registers
  BY DEF SetA_val, Registers

LEMMA BitFacts == \A p : Bit(p) \in Word
  BY WordFacts DEF Bit

LEMMA SelectFacts ==
  ASSUME NEW i \in Nat, reg \in Registers, mem \in Memories, Select(i)
  PROVE  reg' \in Registers
  <1>1. /\ reg[RA(i)] \in Word /\ Bv(i) \in Word /\ Cv(i) \in Word
        /\ Cv_or_imm(i) \in Word
        /\ \A n \in Word : n \in Nat
    BY OperandValues
  <1> HIDE DEF Word
  <1>2. ASSUME NEW a \in Nat PROVE Read(a) \in Word
    <2>1. CASE a + 4 <= MemBytes
      BY <2>1, ReadFacts DEF Read
    <2>2. CASE ~(a + 4 <= MemBytes)
      BY <2>2, WordFacts DEF Read
    <2> QED
      BY <2>1, <2>2
  <1>3. op_limit(i) \in Word
    BY <1>1 DEF op_limit
  <1>4. op_sel(i) \in Word
    <2>1. Cv(i) \in Nat /\ Cv(i) + 4 \in Nat
      BY <1>1
    <2> QED
      BY <1>2, <2>1 DEF op_sel
  <1>5. op_mux(i) \in Word
    <2>1. Bv(i) + 4 * Cv_or_imm(i) \in Nat
      BY <1>1
    <2> QED
      BY <1>2, <2>1 DEF op_mux
  <1>6. StrLen(mem, Bv(i)) \in Word
    <2>1. PICK a \in Nat : a = Bv(i)
      BY <1>1
    <2>2. StrLen(mem, a) \in 0 .. Remaining(a) /\ Remaining(a) \in Nat
      BY StrLenFacts, RemainingFacts
    <2>3. Remaining(a) <= MemBytes
      BY WidthAssumption DEF Remaining
    <2>4. MemBytes \in Nat /\ MemBytes < Words
      BY MemoryAssumption, WordFacts DEF Word
    <2>5. PICK n \in Nat : n = StrLen(mem, a) /\ n < Words
      BY <2>2, <2>3, <2>4, WordFacts
    <2>6. n \in Word
      BY <2>5, WordFacts DEF Word
    <2> QED
      BY <2>1, <2>5, <2>6
  <1> QED
    BY <1>3, <1>4, <1>5, <1>6, SetFacts DEF Select

LEMMA DemuxFacts ==
  ASSUME NEW i \in Nat, reg \in Registers, mem \in Memories, Demux(i)
  PROVE  mem' \in Memories
  <1>1. /\ reg[RA(i)] \in Nat /\ Bv(i) \in Nat /\ Cv_or_imm(i) \in Nat
    BY OperandValues
  <1>2. PICK a \in Nat : a = Bv(i) + 4 * Cv_or_imm(i)
    BY <1>1
  <1>3. mem' = IF a + 4 <= MemBytes THEN vm_mw32(mem, a, reg[RA(i)]) ELSE mem
    BY <1>2 DEF Demux
  <1>4. vm_mw32(mem, a, reg[RA(i)]) \in Memories
    BY <1>1, WriteFacts
  <1> QED
    BY <1>3, <1>4

LEMMA StringFacts ==
  ASSUME NEW i \in Nat, reg \in Registers, mem \in Memories, String(i)
  PROVE  mem' \in Memories
  <1>1. PICK a \in Nat, b \in Nat, c \in Nat :
          a = reg[RA(i)] /\ b = Bv(i) /\ c = ArgC(i)
    BY OperandValues DEF ArgC
  <1>2. PICK op \in StringOps : op = Operation(i)
    BY DEF String
  <1>3. mem' \in NewMemory(op, a, b, c)
    BY <1>1, <1>2 DEF String
  <1>4. /\ op_concat(mem, b, c) \subseteq Memories
        /\ op_left(mem, b, c) \subseteq Memories
        /\ op_right(mem, b, c) \subseteq Memories
        /\ op_mid(mem, b, c) \subseteq Memories
        /\ op_insert(mem, a, b, c) \subseteq Memories
        /\ op_delete(mem, a, b, c) \subseteq Memories
        /\ op_replace(mem, a, b, c) \subseteq Memories
    BY ConcatStays, LeftStays, RightStays, MidStays, InsertStays, DeleteStays,
       ReplaceStays
  <1>5. NewMemory(op, a, b, c) \subseteq Memories
    BY <1>2, <1>4 DEF NewMemory, StringOps
  <1> QED
    BY <1>3, <1>5

LEMMA CountFacts ==
  ASSUME NEW i \in Nat, reg \in Registers, Count(i), BlocksTypeOK'
  PROVE  reg' \in Registers
  <1> DEFINE id == reg[RA(i)]
             kind == Operation(i)
  <1>1. CASE id \notin Ids
    BY <1>1 DEF Count
  <1>2. CASE id \in Ids
    <2>1. kind \in Counters /\ SetA_val(i, CounterOutput(i, kind, id))
      BY <1>2 DEF Count
    <2>2. counter'[kind][id] \in 0 .. MaxCount
      BY <1>2, <2>1 DEF BlocksTypeOK
    <2>3. 0 .. MaxCount \subseteq Word
      BY RangeAssumption, WordFacts DEF Word
    <2>4. CounterOutput(i, kind, id) \in Word
      BY <2>1, <2>2, <2>3, BitFacts DEF CounterOutput, Counters
    <2> QED
      BY <2>1, <2>4, SetFacts
  <1> QED
    BY <1>1, <1>2

LEMMA ReadClockFacts ==
  ASSUME NEW i, reg \in Registers, ReadClock(i)
  PROVE  reg' \in Registers
  <1>1. PICK t \in Clock : /\ Operation(i) \in DOMAIN Reading(t)
                           /\ SetA_val(i, Wrap(Reading(t)[Operation(i)]))
    BY DEF ReadClock
  <1>2. /\ t.year \in Nat /\ t.month \in Nat /\ t.day \in Nat
        /\ t.hour \in Nat /\ t.minute \in Nat /\ t.second \in Nat
    BY RangeAssumption
  <1>3. Reading(t)[Operation(i)] \in Int
    BY <1>1, <1>2 DEF Reading
  <1>4. Wrap(Reading(t)[Operation(i)]) \in Word
    BY <1>3, WordFacts
  <1> QED
    BY <1>1, <1>4, SetFacts

(* Whatever an instruction does, registers hold words and cells bytes.     *)
LEMMA ExecuteFacts ==
  ASSUME NEW i \in Nat, reg \in Registers, mem \in Memories, BlocksTypeOK',
         Execute(i)
  PROVE  reg' \in Registers /\ mem' \in Memories
  <1>1. CASE Compute(i)
    <2>1. PICK v \in Results(Operation(i), Bv(i), Cv_or_imm(i)) : SetA_val(i, v)
      BY <1>1 DEF Compute
    <2>2. v \in Word
      BY <2>1, OperandValues, ResultsFacts
    <2> QED
      BY <1>1, <2>1, <2>2, SetFacts DEF Compute
  <1>2. CASE ReadClock(i)
    BY <1>2, ReadClockFacts DEF ReadClock
  <1>3. CASE Select(i)
    BY <1>3, SelectFacts DEF Select
  <1>4. CASE Demux(i)
    BY <1>4, DemuxFacts DEF Demux
  <1>5. CASE String(i)
    BY <1>5, StringFacts DEF String
  <1>6. CASE Timer(i)
    <2>1. UNCHANGED reg \/ \E q \in {0, 1} : SetA_val(i, q)
      BY <1>6 DEF Timer
    <2> QED
      BY <1>6, <2>1, SetFacts, WordFacts DEF Timer
  <1>7. CASE Count(i)
    BY <1>7, CountFacts DEF Count
  <1>8. CASE DetectEdge(i)
    <2>1. SetA_val(i, 0) \/ \E p : SetA_val(i, Bit(p))
      BY <1>8 DEF DetectEdge
    <2> QED
      BY <1>8, <2>1, SetFacts, BitFacts, WordFacts DEF DetectEdge
  <1>9. CASE SetLatch(i)
    <2>1. SetA_val(i, 0) \/ \E p : SetA_val(i, Bit(p))
      BY <1>9 DEF SetLatch
    <2> QED
      BY <1>9, <2>1, SetFacts, BitFacts, WordFacts DEF SetLatch
  <1>10. CASE Jump(i) \/ Nop(i) \/ Finish(i)
    BY <1>10 DEF Jump, Nop, Finish
  <1> QED
    BY <1>1, <1>2, <1>3, <1>4, <1>5, <1>6, <1>7, <1>8, <1>9, <1>10 DEF Execute

-----------------------------------------------------------------------------
(* Strings as texts.                                                       *)

Chars == 0 .. Cells - 1

LEMMA Max2 ==
  ASSUME NEW a \in Nat, NEW b \in Nat
  PROVE  Max({a, b}) = IF a >= b THEN a ELSE b
  <1>1. PICK c \in {a, b} : c = IF a >= b THEN a ELSE b
    OBVIOUS
  <1>2. \A y \in {a, b} : c >= y
    BY <1>1
  <1>3. /\ Max({a, b}) \in {a, b}
        /\ \A y \in {a, b} : Max({a, b}) >= y
    BY <1>2 DEF Max
  <1> QED
    BY <1>1, <1>3

LEMMA TextFacts ==
  ASSUME NEW m \in Memories, NEW a \in Nat
  PROVE  /\ TextAt(m, a) \in Seq(Chars)
         /\ Len(TextAt(m, a)) = StrLen(m, a) /\ StrLen(m, a) \in Nat
         /\ \A k \in 1 .. StrLen(m, a) :
              TextAt(m, a)[k] = m[a + k - 1] /\ m[a + k - 1] # 0
  <1>1. PICK n \in Nat : n = StrLen(m, a) /\ n <= Remaining(a)
    BY StrLenFacts, RemainingFacts
  <1>2. TextAt(m, a) = [k \in 1 .. n |-> m[a + k - 1]]
    BY <1>1 DEF TextAt
  <1>3. ASSUME NEW k \in 1 .. n PROVE m[a + k - 1] \in Chars /\ m[a + k - 1] # 0
    <2>1. PICK j \in 0 .. n - 1 : j = k - 1
      OBVIOUS
    <2>2. a + j \in 0 .. MemBytes - 1
      BY <1>1, <2>1, RemainingFacts, WidthAssumption
    <2>3. m[a + j] \in Chars /\ m[a + j] # 0
      <3>1. j \in 0 .. Remaining(a) /\ j < StrLen(m, a)
        BY <1>1, <2>1, RemainingFacts
      <3>2. m[a + j] # 0
        BY <3>1, StrLenFacts
      <3> QED
        BY <2>2, <3>2 DEF Memories, Chars
    <2>4. a + j = a + k - 1
      BY <2>1
    <2> QED
      BY <2>3, <2>4
  <1>4. PICK s \in [1 .. n -> Chars] : s = TextAt(m, a)
    BY <1>2, <1>3
  <1>5. s \in Seq(Chars) /\ Len(s) = n
    OBVIOUS
  <1> QED
    BY <1>1, <1>2, <1>3, <1>4, <1>5

LEMMA StrLenIs ==
  ASSUME NEW m \in Memories, NEW a \in Nat, NEW n \in Nat, a + n < MemBytes,
         \A k \in 0 .. n - 1 : m[a + k] # 0, m[a + n] = 0
  PROVE  StrLen(m, a) = n
  <1>1. PICK l \in Nat : l = StrLen(m, a) /\ l <= Remaining(a)
    BY StrLenFacts, RemainingFacts
  <1>2. a + Remaining(a) = MemBytes /\ Remaining(a) \in Nat
    BY RemainingFacts, WidthAssumption
  <1>3. CASE l < n
    BY <1>1, <1>2, <1>3, StrLenFacts
  <1>4. CASE n < l
    BY <1>1, <1>2, <1>4, StrLenFacts
  <1> QED
    BY <1>1, <1>3, <1>4

(* The first p characters of t, then w, then t from behind its q-th.       *)
Splice(t, p, w, q) ==
  [k \in 1 .. p + Len(w) + Len(t) - q |->
     IF k <= p THEN t[k]
     ELSE IF k <= p + Len(w) THEN w[k - p] ELSE t[k - p - Len(w) + q]]

(* c is m with w between the first p characters of the text at a, and what *)
(* follows its q-th.                                                       *)
IsEdit(m, c, a, p, w, q) ==
  /\ a + p + Len(w) + (StrLen(m, a) - q) < MemBytes
  /\ \A x \in a .. a + p - 1 : c[x] = m[x]
  /\ \A k \in 1 .. Len(w) : w[k] # 0 /\ c[a + p + k - 1] = w[k]
  /\ \A j \in q .. StrLen(m, a) : c[a + p + Len(w) + j - q] = m[a + j]

LEMMA EditText ==
  ASSUME NEW m \in Memories, NEW c \in Memories, NEW a \in Nat,
         StrLen(m, a) < Remaining(a), NEW p, NEW q, NEW w, Len(w) \in Nat,
         p \in 0 .. StrLen(m, a), q \in 0 .. StrLen(m, a),
         IsEdit(m, c, a, p, w, q)
  PROVE  TextAt(c, a) = Splice(TextAt(m, a), p, w, q)
  <1>1. PICK l \in Nat : l = StrLen(m, a)
    BY StrLenFacts, RemainingFacts
  <1>2. PICK n \in Nat : n = Len(w)
    OBVIOUS
  <1>3. l < Remaining(a) /\ p \in 0 .. l /\ q \in 0 .. l
    BY <1>1
  <1>4. /\ a + p + n + (l - q) < MemBytes
        /\ \A x \in a .. a + p - 1 : c[x] = m[x]
        /\ \A k \in 1 .. n : w[k] # 0
        /\ \A k \in 1 .. n : c[a + p + k - 1] = w[k]
        /\ \A j \in q .. l : c[a + p + n + j - q] = m[a + j]
    BY <1>1, <1>2 DEF IsEdit
  <1>5. a + p + n + l - q < MemBytes
    BY <1>3, <1>4, WidthAssumption
  <1>6. PICK e \in Nat : e = p + n + l - q
    BY <1>3
  <1>7. PICK t : t = TextAt(m, a)
    OBVIOUS
  <1>8. /\ Len(t) = l
        /\ \A k \in 1 .. l : t[k] = m[a + k - 1] /\ m[a + k - 1] # 0
    BY <1>1, <1>7, TextFacts
  <1> USE <1>1, <1>2, <1>3, <1>4, <1>5
  <1>9. Splice(t, p, w, q) =
          [k \in 1 .. e |-> IF k <= p THEN t[k]
                            ELSE IF k <= p + n THEN w[k - p] ELSE t[k - p - n + q]]
    BY <1>6, <1>8 DEF Splice
  <1>10. ASSUME NEW k \in 1 .. e
        PROVE  c[a + k - 1] = Splice(t, p, w, q)[k] /\ c[a + k - 1] # 0
    <2>1. CASE k <= p
      <3>1. a + k - 1 \in a .. a + p - 1 /\ k \in 1 .. l
        BY <2>1
      <3> QED
        BY <1>8, <1>9, <2>1, <3>1
    <2>2. CASE k > p /\ k <= p + n
      <3>1. PICK j \in 1 .. n : j = k - p
        BY <2>2
      <3>2. a + p + j - 1 = a + k - 1
        BY <3>1
      <3> QED
        BY <1>9, <2>2, <3>1, <3>2
    <2>3. CASE k > p + n
      <3>1. PICK j \in q .. l - 1 : j = k - p - n + q - 1
        <4>1. k - p - n + q - 1 \in Int
          OBVIOUS
        <4>2. k - p - n + q - 1 >= q /\ k - p - n + q - 1 <= l - 1
          BY <1>6, <2>3
        <4> QED
          BY <4>1, <4>2
      <3>2. a + p + n + j - q = a + k - 1 /\ j + 1 = k - p - n + q
        BY <3>1
      <3>3. c[a + k - 1] = m[a + j]
        BY <3>1, <3>2
      <3>4. j + 1 \in 1 .. l /\ a + (j + 1) - 1 = a + j
        BY <3>1
      <3>5. t[j + 1] = m[a + j] /\ m[a + j] # 0
        BY <1>8, <3>4
      <3>6. Splice(t, p, w, q)[k] = t[k - p - n + q]
        BY <1>9, <2>3
      <3> QED
        BY <3>2, <3>3, <3>5, <3>6
    <2> QED
      BY <2>1, <2>2, <2>3
  <1>11. c[a + e] = 0
    <2>1. l \in q .. l /\ a + p + n + l - q = a + e
      BY <1>6
    <2>2. m[a + l] = 0
      BY StrLenFacts
    <2> QED
      BY <2>1, <2>2
  <1>12. StrLen(c, a) = e
    <2>1. ASSUME NEW k \in 0 .. e - 1 PROVE c[a + k] # 0
      <3>1. k + 1 \in 1 .. e /\ a + (k + 1) - 1 = a + k
        OBVIOUS
      <3> QED
        BY <1>10, <3>1
    <2>2. a + e < MemBytes
      BY <1>6
    <2> QED
      BY <1>11, <2>1, <2>2, StrLenIs
  <1>13. TextAt(c, a) = [k \in 1 .. e |-> c[a + k - 1]]
    BY <1>12 DEF TextAt
  <1> QED
    BY <1>7, <1>9, <1>10, <1>13

(* The operations on texts as splices.                                     *)
Lesser(a, b) == IF a <= b THEN a ELSE b

IsTake(s, t, j) ==
  s \in Seq(Chars) /\ Len(s) = j /\ \A k \in 1 .. j : s[k] = t[k]
IsDrop(s, t, j) ==
  /\ s \in Seq(Chars) /\ Len(s) = Len(t) - j
  /\ \A k \in 1 .. Len(t) - j : s[k] = t[j + k]
IsConcat(s, t, w) ==
  /\ s \in Seq(Chars) /\ Len(s) = Len(t) + Len(w)
  /\ \A k \in 1 .. Len(t) : s[k] = t[k]
  /\ \A k \in 1 .. Len(w) : s[Len(t) + k] = w[k]
IsSplice(s, t, p, w, q) ==
  /\ s \in Seq(Chars) /\ Len(s) = p + Len(w) + (Len(t) - q)
  /\ \A k \in 1 .. p : s[k] = t[k]
  /\ \A k \in 1 .. Len(w) : s[p + k] = w[k]
  /\ \A k \in 1 .. Len(t) - q : s[p + Len(w) + k] = t[q + k]

LEMMA LesserFacts ==
  ASSUME NEW a \in Nat, NEW b \in Nat
  PROVE  /\ Lesser(a, b) \in Nat /\ Lesser(a, b) <= a /\ Lesser(a, b) <= b
         /\ Min({a, b}) = Lesser(a, b)
  BY Min2 DEF Lesser

LEMMA LesserRange ==
  ASSUME NEW a \in Nat, NEW b \in Nat
  PROVE  Lesser(a, b) \in 0 .. b
  BY DEF Lesser

LEMMA TakeFacts ==
  ASSUME NEW t \in Seq(Chars), NEW n \in Nat
  PROVE  IsTake(Take(t, n), t, Lesser(n, Len(t)))
  <1>0. PICK l \in Nat : l = Len(t)
    OBVIOUS
  <1>1. PICK j \in Nat : j = Lesser(n, Len(t)) /\ j <= Len(t)
    BY <1>0, LesserFacts
  <1>2. Take(t, n) = SubSeq(t, 1, j)
    BY <1>1, LesserFacts DEF Take
  <1>3. \A i \in 1 .. j : t[i] \in Chars
    BY <1>1
  <1>4. PICK s : s = SubSeq(t, 1, j)
    OBVIOUS
  <1>5. /\ s \in Seq(Chars) /\ Len(s) = IF 1 <= j THEN j - 1 + 1 ELSE 0
        /\ \A i \in 1 .. j - 1 + 1 : s[i] = t[1 + i - 1]
    BY <1>3, <1>4, SubSeqProperties
  <1>6. Len(s) = j
    BY <1>5
  <1>7. ASSUME NEW i \in 1 .. j PROVE s[i] = t[i]
    <2>1. i \in 1 .. j - 1 + 1 /\ 1 + i - 1 = i
      OBVIOUS
    <2> QED
      BY <1>5, <2>1
  <1>8. IsTake(s, t, j)
    BY <1>5, <1>6, <1>7 DEF IsTake
  <1> QED
    BY <1>1, <1>2, <1>4, <1>8

LEMMA DropFacts ==
  ASSUME NEW t \in Seq(Chars), NEW n \in Nat
  PROVE  IsDrop(Drop(t, n), t, Lesser(n, Len(t)))
  <1>1. PICK l \in Nat : l = Len(t)
    OBVIOUS
  <1>2. PICK j \in Nat : j = Lesser(n, l) /\ j <= l
    BY LesserFacts
  <1>3. Drop(t, n) = SubSeq(t, j + 1, l)
    BY <1>1, <1>2, LesserFacts DEF Drop
  <1>4. PICK h \in Nat : h = j + 1
    OBVIOUS
  <1>5. \A i \in h .. l : t[i] \in Chars
    BY <1>1, <1>4
  <1>6. PICK s : s = SubSeq(t, h, l)
    OBVIOUS
  <1>7. /\ s \in Seq(Chars) /\ Len(s) = IF h <= l THEN l - h + 1 ELSE 0
        /\ \A i \in 1 .. l - h + 1 : s[i] = t[h + i - 1]
    BY <1>5, <1>6, SubSeqProperties
  <1>8. Len(s) = l - j
    <2>1. CASE h <= l
      <3>1. Len(s) = l - h + 1
        BY <1>7, <2>1
      <3> QED
        BY <1>4, <3>1
    <2>2. CASE ~(h <= l)
      <3>1. Len(s) = 0
        BY <1>7, <2>2
      <3> QED
        BY <1>2, <1>4, <2>2, <3>1
    <2> QED
      BY <2>1, <2>2
  <1>9. ASSUME NEW i \in 1 .. l - j PROVE s[i] = t[j + i]
    <2>1. i \in 1 .. l - h + 1 /\ h + i - 1 = j + i
      BY <1>4
    <2> QED
      BY <1>7, <2>1
  <1>10. IsDrop(s, t, j)
    BY <1>1, <1>7, <1>8, <1>9 DEF IsDrop
  <1> QED
    BY <1>1, <1>2, <1>3, <1>4, <1>6, <1>10

LEMMA ConcatFacts ==
  ASSUME NEW s \in Seq(Chars), NEW r \in Seq(Chars)
  PROVE  IsConcat(s \o r, s, r)
  <1>1. PICK c : c = s \o r
    OBVIOUS
  <1>2. PICK a \in Nat, b \in Nat : a = Len(s) /\ b = Len(r)
    OBVIOUS
  <1>3. /\ c \in Seq(Chars) /\ Len(c) = a + b
        /\ \A i \in 1 .. a + b : c[i] = IF i <= a THEN s[i] ELSE r[i - a]
    BY <1>1, <1>2, ConcatProperties
  <1>4. ASSUME NEW k \in 1 .. a PROVE c[k] = s[k]
    <2>1. k \in 1 .. a + b
      OBVIOUS
    <2> QED
      BY <1>3, <2>1
  <1>5. ASSUME NEW k \in 1 .. b PROVE c[a + k] = r[k]
    <2>1. a + k \in 1 .. a + b /\ ~(a + k <= a) /\ a + k - a = k
      OBVIOUS
    <2> QED
      BY <1>3, <2>1
  <1>6. IsConcat(c, s, r)
    BY <1>2, <1>3, <1>4, <1>5 DEF IsConcat
  <1> QED
    BY <1>1, <1>6

LEMMA SpliceIs ==
  ASSUME NEW t, Len(t) \in Nat, NEW p \in 0 .. Len(t), NEW q \in 0 .. Len(t),
         NEW w, Len(w) \in Nat, NEW s, IsSplice(s, t, p, w, q)
  PROVE  s = Splice(t, p, w, q)
  <1>1. PICK l \in Nat, n \in Nat : l = Len(t) /\ n = Len(w)
    OBVIOUS
  <1>0. p \in 0 .. l /\ q \in 0 .. l
    BY <1>1
  <1>2. PICK r \in Nat : r = l - q
    BY <1>0
  <1>3. PICK z \in Nat : z = p + n + r
    BY <1>0
  <1>4. /\ s \in Seq(Chars) /\ Len(s) = z
        /\ \A k \in 1 .. p : s[k] = t[k]
        /\ \A k \in 1 .. n : s[p + k] = w[k]
        /\ \A k \in 1 .. r : s[p + n + k] = t[q + k]
    BY <1>1, <1>2, <1>3 DEF IsSplice
  <1>5. s = [k \in 1 .. z |-> s[k]]
    BY <1>4
  <1>6. p + n + l - q = z
    BY <1>0, <1>2, <1>3
  <1>7. Splice(t, p, w, q) =
          [k \in 1 .. z |-> IF k <= p THEN t[k]
             ELSE IF k <= p + n THEN w[k - p] ELSE t[k - p - n + q]]
    BY <1>1, <1>6 DEF Splice
  <1>8. ASSUME NEW k \in 1 .. z
        PROVE  s[k] = IF k <= p THEN t[k]
                      ELSE IF k <= p + n THEN w[k - p] ELSE t[k - p - n + q]
    <2>1. CASE k <= p
      <3>1. k \in 1 .. p
        BY <2>1
      <3> QED
        BY <1>4, <2>1, <3>1
    <2>2. CASE ~(k <= p) /\ k <= p + n
      <3>1. k - p \in 1 .. n /\ p + (k - p) = k
        BY <2>2
      <3>2. s[k] = w[k - p]
        BY <1>4, <3>1
      <3> QED
        BY <2>2, <3>2
    <2>3. CASE ~(k <= p) /\ ~(k <= p + n)
      <3>1. PICK j \in 1 .. r : p + n + j = k /\ q + j = k - p - n + q
        <4>1. k - p - n \in Int
          OBVIOUS
        <4>2. k - p - n \in 1 .. r
          BY <1>3, <2>3, <4>1
        <4>3. p + n + (k - p - n) = k /\ q + (k - p - n) = k - p - n + q
          OBVIOUS
        <4> QED
          BY <4>2, <4>3
      <3>2. s[p + n + j] = t[q + j]
        BY <1>4
      <3>3. s[k] = t[k - p - n + q]
        BY <3>1, <3>2
      <3> QED
        BY <2>3, <3>3
    <2> QED
      BY <2>1, <2>2, <2>3
  <1> QED
    BY <1>5, <1>7, <1>8

LEMMA TripleIs ==
  ASSUME NEW t \in Seq(Chars), NEW w \in Seq(Chars), NEW x \in Nat, NEW y \in Nat
  PROVE  Take(t, x) \o w \o Drop(t, y) =
           Splice(t, Lesser(x, Len(t)), w, Lesser(y, Len(t)))
  <1>1. PICK l \in Nat, n \in Nat : l = Len(t) /\ n = Len(w)
    OBVIOUS
  <1>2. PICK p \in 0 .. l : p = Lesser(x, l)
    BY LesserRange
  <1>3. PICK q \in 0 .. l : q = Lesser(y, l)
    BY LesserRange
  <1>4. PICK a : a = Take(t, x)
    OBVIOUS
  <1>5. IsTake(a, t, p)
    BY <1>1, <1>2, <1>4, TakeFacts
  <1>6. PICK b : b = Drop(t, y)
    OBVIOUS
  <1>7. IsDrop(b, t, q)
    BY <1>1, <1>3, <1>6, DropFacts
  <1>8. PICK c : c = a \o w
    OBVIOUS
  <1>9. IsConcat(c, a, w)
    BY <1>5, <1>8, ConcatFacts DEF IsTake
  <1>10. PICK s : s = c \o b
    OBVIOUS
  <1>11. IsConcat(s, c, b)
    <2>1. c \in Seq(Chars) /\ b \in Seq(Chars)
      BY <1>7, <1>9 DEF IsConcat, IsDrop
    <2> QED
      BY <1>10, <2>1, ConcatFacts
  <1>12. PICK r \in Nat : r = l - q
    OBVIOUS
  <1>13. PICK z \in Nat : z = p + n
    OBVIOUS
  <1>14. Len(a) = p /\ \A k \in 1 .. p : a[k] = t[k]
    BY <1>5 DEF IsTake
  <1>15. Len(b) = r /\ \A k \in 1 .. r : b[k] = t[q + k]
    BY <1>1, <1>7, <1>12 DEF IsDrop
  <1>16. /\ Len(c) = z
         /\ \A k \in 1 .. p : c[k] = a[k]
         /\ \A k \in 1 .. n : c[p + k] = w[k]
    BY <1>1, <1>9, <1>13, <1>14 DEF IsConcat
  <1>17. /\ s \in Seq(Chars) /\ Len(s) = z + r
         /\ \A k \in 1 .. z : s[k] = c[k]
         /\ \A k \in 1 .. r : s[z + k] = b[k]
    BY <1>11, <1>15, <1>16 DEF IsConcat
  <1>18. ASSUME NEW k \in 1 .. p PROVE s[k] = t[k]
    <2>1. k \in 1 .. z
      BY <1>13
    <2> QED
      BY <1>14, <1>16, <1>17, <2>1
  <1>19. ASSUME NEW k \in 1 .. n PROVE s[p + k] = w[k]
    <2>1. p + k \in 1 .. z
      BY <1>13
    <2> QED
      BY <1>16, <1>17, <2>1
  <1>20. ASSUME NEW k \in 1 .. r PROVE s[p + n + k] = t[q + k]
    <2>1. p + n + k = z + k
      BY <1>13
    <2> QED
      BY <1>15, <1>17, <2>1
  <1>21. IsSplice(s, t, p, w, q)
    BY <1>1, <1>12, <1>13, <1>17, <1>18, <1>19, <1>20 DEF IsSplice
  <1>22. s = Splice(t, p, w, q)
    BY <1>1, <1>21, SpliceIs
  <1> QED
    BY <1>1, <1>2, <1>3, <1>4, <1>6, <1>8, <1>10, <1>22

LEMMA JoinedIs ==
  ASSUME NEW t \in Seq(Chars), NEW u \in Seq(Chars), NEW room \in Nat
  PROVE  Joined(t, u, room) = Splice(t, Len(t), Take(u, room), Len(t))
  <1>1. PICK l \in Nat : l = Len(t)
    OBVIOUS
  <1>2. PICK w : w = Take(u, room)
    OBVIOUS
  <1>3. w \in Seq(Chars) /\ Len(w) \in Nat
    <2>1. PICK k : k = Lesser(room, Len(u))
      OBVIOUS
    <2>2. IsTake(w, u, k)
      BY <1>2, <2>1, TakeFacts
    <2> QED
      BY <2>2 DEF IsTake
  <1>4. PICK s : s = t \o w
    OBVIOUS
  <1>5. IsConcat(s, t, w)
    BY <1>3, <1>4, ConcatFacts
  <1>6. IsSplice(s, t, l, w, l)
    BY <1>1, <1>3, <1>5 DEF IsConcat, IsSplice
  <1>7. s = Splice(t, l, w, l)
    BY <1>1, <1>3, <1>6, SpliceIs
  <1> QED
    BY <1>1, <1>2, <1>4, <1>7 DEF Joined

LEMMA EmptyText == <<>> \in Seq(Chars) /\ Len(<<>>) = 0
  OBVIOUS

LEMMA TakeIs ==
  ASSUME NEW t \in Seq(Chars), NEW n \in Nat
  PROVE  Take(t, n) = Splice(t, Lesser(n, Len(t)), <<>>, Len(t))
  <1>1. PICK l \in Nat : l = Len(t)
    OBVIOUS
  <1>2. PICK p \in 0 .. l : p = Lesser(n, l)
    BY LesserRange
  <1>3. PICK s : s = Take(t, n)
    OBVIOUS
  <1>4. IsTake(s, t, p)
    BY <1>1, <1>2, <1>3, TakeFacts
  <1>5. PICK w : w = <<>>
    OBVIOUS
  <1>6. Len(w) = 0
    BY <1>5, EmptyText
  <1>7. IsSplice(s, t, p, w, l)
    BY <1>1, <1>4, <1>6 DEF IsTake, IsSplice
  <1>8. s = Splice(t, p, w, l)
    BY <1>1, <1>6, <1>7, SpliceIs
  <1> QED
    BY <1>1, <1>2, <1>3, <1>5, <1>8

LEMMA DropIs ==
  ASSUME NEW t \in Seq(Chars), NEW n \in Nat
  PROVE  Drop(t, n) = Splice(t, 0, <<>>, Lesser(n, Len(t)))
  <1>1. PICK l \in Nat : l = Len(t)
    OBVIOUS
  <1>2. PICK q \in 0 .. l : q = Lesser(n, l)
    BY LesserRange
  <1>3. PICK s : s = Drop(t, n)
    OBVIOUS
  <1>4. IsDrop(s, t, q)
    BY <1>1, <1>2, <1>3, DropFacts
  <1>5. PICK w : w = <<>>
    OBVIOUS
  <1>6. Len(w) = 0
    BY <1>5, EmptyText
  <1>7. IsSplice(s, t, 0, w, q)
    <2>1. s \in Seq(Chars) /\ Len(s) = l - q /\ \A k \in 1 .. l - q : s[k] = t[q + k]
      BY <1>1, <1>4 DEF IsDrop
    <2>2. ASSUME NEW k \in 1 .. l - q PROVE s[0 + Len(w) + k] = t[q + k]
      <3>1. 0 + Len(w) + k = k
        BY <1>6
      <3> QED
        BY <2>1, <3>1
    <2>3. Len(s) = 0 + Len(w) + (l - q)
      BY <1>6, <2>1
    <2> QED
      BY <1>1, <1>6, <2>1, <2>2, <2>3 DEF IsSplice
  <1>8. s = Splice(t, 0, w, q)
    BY <1>1, <1>6, <1>7, SpliceIs
  <1> QED
    BY <1>1, <1>2, <1>3, <1>5, <1>8

-----------------------------------------------------------------------------
(* What the string instructions make of a text that ends in memory.        *)

LEMMA EndFacts ==
  ASSUME NEW m, NEW a \in Nat, StrLen(m, a) < Remaining(a)
  PROVE  /\ InMemory(a) /\ StrLen(m, a) \in Nat
         /\ a + StrLen(m, a) < MemBytes /\ m[a + StrLen(m, a)] = 0
         /\ a + Remaining(a) = MemBytes
  BY StrLenFacts, RemainingFacts, WidthAssumption DEF InMemory

LEMMA SameEdit ==
  ASSUME NEW m \in Memories, NEW a \in Nat, StrLen(m, a) < Remaining(a),
         NEW p, p \in 0 .. StrLen(m, a), NEW w, Len(w) = 0
  PROVE  TextAt(m, a) = Splice(TextAt(m, a), p, w, p)
  <1>1. PICK l \in Nat : l = StrLen(m, a) /\ a + l < MemBytes
    BY EndFacts
  <1>2. p \in 0 .. l
    BY <1>1
  <1>3. \A j \in p .. l : a + p + 0 + j - p = a + j
    BY <1>2
  <1>4. IsEdit(m, m, a, p, w, p)
    BY <1>1, <1>2, <1>3 DEF IsEdit
  <1> QED
    BY <1>1, <1>4, EditText

LEMMA SetNullIs ==
  ASSUME NEW m \in Memories, NEW z \in 0 .. MemBytes - 1
  PROVE  /\ SetNull(m, z) \in Memories /\ SetNull(m, z)[z] = 0
         /\ \A x \in 0 .. MemBytes - 1 : x # z => SetNull(m, z)[x] = m[x]
  <1>1. SetNull(m, z) \in Memories
    BY SetNullFacts
  <1>2. SetNull(m, z) = [m EXCEPT ![z] = 0] /\ DOMAIN m = 0 .. MemBytes - 1
    BY DEF SetNull, Memories
  <1> QED
    BY <1>1, <1>2

LEMMA SafeMoveIs ==
  ASSUME NEW m, NEW dest \in Nat, NEW src \in Nat, NEW n \in Nat,
         dest + n <= MemBytes, src + n <= MemBytes
  PROVE  SafeMove(m, dest, src, n) = Move(m, dest, src, n) \/ n = 0
  <1>1. PICK x \in Nat : x = Remaining(dest) /\ (n > 0 => n <= x)
    BY RemainingFacts, WidthAssumption
  <1>2. PICK y \in Nat : y = Remaining(src) /\ (n > 0 => n <= y)
    BY RemainingFacts, WidthAssumption
  <1>3. /\ Min({n, x, y}) \in {n, x, y}
        /\ Min({n, x, y}) <= n /\ Min({n, x, y}) <= x /\ Min({n, x, y}) <= y
    BY Min3
  <1>4. n > 0 => Min({n, x, y}) = n
    BY <1>1, <1>2, <1>3
  <1> QED
    BY <1>1, <1>2, <1>4 DEF SafeMove

LEMMA SafeMoveNothing ==
  ASSUME NEW m \in Memories, NEW dest \in Nat, NEW src \in Nat
  PROVE  SafeMove(m, dest, src, 0) = m
  <1>1. PICK x \in Nat, y \in Nat : x = Remaining(dest) /\ y = Remaining(src)
    BY RemainingFacts
  <1>2. Min({0, x, y}) \in Nat /\ Min({0, x, y}) <= 0
    BY Min3
  <1>3. SafeMove(m, dest, src, 0) = Move(m, dest, src, 0)
    BY <1>1, <1>2 DEF SafeMove
  <1>4. Move(m, dest, src, 0) = m
    BY DEF Move, Fill, Memories
  <1> QED
    BY <1>3, <1>4

(* The bytes after a move within memory.                                   *)
Moved(m, c, dest, src, n) ==
  /\ c \in Memories
  /\ \A k \in 0 .. n - 1 : c[dest + k] = m[src + k]
  /\ \A x \in 0 .. MemBytes - 1 : x \notin dest .. dest + n - 1 => c[x] = m[x]

LEMMA MovedBytes ==
  ASSUME NEW m \in Memories, NEW dest \in Nat, NEW src \in Nat, NEW n \in Nat,
         dest + n <= MemBytes, src + n <= MemBytes, NEW c,
         c = SafeMove(m, dest, src, n) \/ c = Move(m, dest, src, n)
  PROVE  Moved(m, c, dest, src, n)
  <1>1. CASE n = 0
    <2>1. Move(m, dest, src, 0) = m
      BY DEF Move, Fill, Memories
    <2>2. c = m
      BY <1>1, <2>1, SafeMoveNothing
    <2> QED
      BY <1>1, <2>2 DEF Moved
  <1>2. CASE n # 0
    <2>1. c = Move(m, dest, src, n)
      BY <1>2, SafeMoveIs
    <2>2. n \in Int
      OBVIOUS
    <2>3. /\ Move(m, dest, src, n) \in Memories
          /\ \A x \in 0 .. MemBytes - 1 :
               Move(m, dest, src, n)[x] =
                 IF x \in dest .. dest + n - 1 THEN m[src + (x - dest)] ELSE m[x]
      BY <2>2, MoveFacts
    <2>4. /\ c \in Memories
          /\ \A x \in 0 .. MemBytes - 1 :
               c[x] = IF x \in dest .. dest + n - 1 THEN m[src + (x - dest)] ELSE m[x]
      BY <2>1, <2>3
    <2>5. ASSUME NEW k \in 0 .. n - 1 PROVE c[dest + k] = m[src + k]
      <3>1. PICK x \in Int : x = dest + k
        OBVIOUS
      <3>2. /\ x \in 0 .. MemBytes - 1 /\ x \in dest .. dest + n - 1
            /\ src + (x - dest) = src + k
        BY <3>1, WidthAssumption
      <3> QED
        BY <2>4, <3>1, <3>2
    <2> QED
      BY <2>4, <2>5 DEF Moved
  <1> QED
    BY <1>1, <1>2

(* The text at a becomes e, and no byte behind both texts changes.         *)
Result(m, c, a, e) ==
  /\ TextAt(c, a) = e
  /\ \A x \in DOMAIN m \ (a .. a + Max({Len(e), StrLen(m, a)})) : c[x] = m[x]

LEMMA SpliceLen ==
  ASSUME NEW t, NEW p \in Nat, NEW w, NEW q \in Nat, Len(t) \in Nat, Len(w) \in Nat,
         q <= Len(t)
  PROVE  Len(Splice(t, p, w, q)) = p + Len(w) + (Len(t) - q)
  <1>1. PICK n \in Nat : n = p + Len(w) + Len(t) - q
    OBVIOUS
  <1>2. \A f : Len([k \in 1 .. n |-> f[k]]) = n
    OBVIOUS
  <1>3. PICK f : f = Splice(t, p, w, q)
    OBVIOUS
  <1>4. f = [k \in 1 .. n |-> f[k]]
    BY <1>1, <1>3 DEF Splice
  <1> QED
    BY <1>1, <1>2, <1>3, <1>4

LEMMA EditResult ==
  ASSUME NEW m \in Memories, NEW c \in Memories, NEW a \in Nat,
         StrLen(m, a) < Remaining(a), NEW p, NEW q, NEW w, Len(w) \in Nat,
         p \in 0 .. StrLen(m, a), q \in 0 .. StrLen(m, a),
         IsEdit(m, c, a, p, w, q), NEW e, e = Splice(TextAt(m, a), p, w, q),
         NEW z \in Nat, z <= StrLen(m, a) \/ z <= p + Len(w) + (StrLen(m, a) - q),
         \A x \in 0 .. MemBytes - 1 : x \notin a .. a + z => c[x] = m[x]
  PROVE  Result(m, c, a, e)
  <1>1. PICK l \in Nat : l = StrLen(m, a)
    BY EndFacts
  <1>2. PICK t : t = TextAt(m, a)
    OBVIOUS
  <1>3. Len(t) = l
    BY <1>1, <1>2, TextFacts
  <1>4. PICK n \in Nat : n = Len(w)
    OBVIOUS
  <1>5. PICK k \in Nat : k = p + n + (l - q)
    BY <1>1
  <1>6. Len(e) = k
    BY <1>1, <1>2, <1>3, <1>4, <1>5, SpliceLen
  <1>7. PICK x \in Nat : x = Max({k, l}) /\ x >= k /\ x >= l
    BY Max2
  <1>8. z <= x
    <2>1. z <= l \/ z <= p + n + (l - q)
      BY <1>1, <1>4
    <2> QED
      BY <1>5, <1>7, <2>1
  <1>9. \A y \in DOMAIN m \ (a .. a + x) : c[y] = m[y]
    BY <1>8, WidthAssumption DEF Memories
  <1>10. TextAt(c, a) = e
    BY EditText
  <1> QED
    BY <1>1, <1>6, <1>7, <1>9, <1>10 DEF Result

LEMMA SameResult ==
  ASSUME NEW m, NEW a, NEW e, TextAt(m, a) = e
  PROVE  Result(m, m, a, e)
  BY DEF Result

LEMMA ApartFacts ==
  ASSUME NEW a \in Nat, NEW b \in Nat, NEW x \in Nat, NEW y \in Nat,
         (a .. a + x) \cap (b .. b + y) = {}
  PROVE  a + x < b \/ b + y < a
  <1>1. a \notin b .. b + y \/ a \notin a .. a + x
    OBVIOUS
  <1>2. b \notin b .. b + y \/ b \notin a .. a + x
    OBVIOUS
  <1> QED
    BY <1>1, <1>2

-----------------------------------------------------------------------------
LEMMA LeftText ==
  ASSUME NEW m \in Memories, NEW a \in Nat, StrLen(m, a) < Remaining(a),
         NEW n \in Nat, NEW c \in op_left(m, a, n)
  PROVE  Result(m, c, a, Take(TextAt(m, a), n))
  <1>1. PICK l \in Nat : l = StrLen(m, a) /\ a + l < MemBytes /\ m[a + l] = 0
    BY EndFacts
  <1>2. PICK t \in Seq(Chars) : t = TextAt(m, a) /\ Len(t) = l
    BY <1>1, TextFacts
  <1>3. Take(t, n) = Splice(t, Lesser(n, l), <<>>, l)
    BY <1>2, TakeIs
  <1>4. CASE n < l
    <2>1. c = SetNull(m, a + n)
      BY <1>1, <1>4, EndFacts DEF op_left
    <2>2. a + n \in 0 .. MemBytes - 1
      BY <1>1, <1>4, WidthAssumption
    <2>3. /\ c \in Memories /\ c[a + n] = 0
          /\ \A x \in 0 .. MemBytes - 1 : x # a + n => c[x] = m[x]
      BY <2>1, <2>2, SetNullIs
    <2>4. Lesser(n, l) = n
      BY <1>4 DEF Lesser
    <2>5. \A x \in a .. a + n - 1 : c[x] = m[x]
      BY <2>2, <2>3, WidthAssumption
    <2>6. ASSUME NEW j \in l .. l PROVE c[a + n + 0 + j - l] = m[a + j]
      <3>1. j = l /\ a + n + 0 + j - l = a + n
        OBVIOUS
      <3> QED
        BY <1>1, <2>3, <3>1
    <2>7. a + n + 0 + (l - l) < MemBytes
      BY <2>2, WidthAssumption
    <2>8. PICK w : w = <<>> /\ Len(w) = 0
      BY EmptyText
    <2>9. IsEdit(m, c, a, n, w, l)
      BY <1>1, <2>5, <2>6, <2>7, <2>8 DEF IsEdit
    <2>10. \A x \in 0 .. MemBytes - 1 : x \notin a .. a + n => c[x] = m[x]
      BY <2>3
    <2>11. n \in 0 .. l /\ l \in 0 .. l
      BY <1>4
    <2>12. Take(t, n) = Splice(TextAt(m, a), n, w, l)
      BY <1>2, <1>3, <2>4, <2>8
    <2> QED
      BY <1>1, <1>2, <1>4, <2>3, <2>8, <2>9, <2>10, <2>11, <2>12, EditResult
  <1>5. CASE ~(n < l)
    <2>1. c = m
      BY <1>1, <1>5 DEF op_left
    <2>2. Lesser(n, l) = l
      BY <1>5 DEF Lesser
    <2>3. TextAt(m, a) = Splice(TextAt(m, a), l, <<>>, l)
      BY <1>1, EmptyText, SameEdit
    <2> QED
      BY <1>2, <1>3, <2>1, <2>2, <2>3, SameResult
  <1> QED
    BY <1>4, <1>5
(* The text from behind its q-th character moved to the front.             *)
LEMMA TailText ==
  ASSUME NEW m \in Memories, NEW a \in Nat, StrLen(m, a) < Remaining(a),
         NEW q \in 0 .. StrLen(m, a), NEW n, n = StrLen(m, a) - q,
         NEW c, c = SetNull(SafeMove(m, a, a + q, n), a + n)
  PROVE  Result(m, c, a, Splice(TextAt(m, a), 0, <<>>, q))
  <1>1. PICK l \in Nat : l = StrLen(m, a) /\ a + l < MemBytes /\ m[a + l] = 0
    BY EndFacts
  <1>2. q \in Nat /\ q \in 0 .. l /\ n \in Nat /\ n = l - q /\ n <= l
    BY <1>1
  <1>3. a + n <= MemBytes /\ (a + q) + n <= MemBytes /\ a + q \in Nat
    BY <1>1, <1>2, WidthAssumption
  <1>4. PICK d : d = SafeMove(m, a, a + q, n)
    OBVIOUS
  <1>5. /\ d \in Memories
        /\ \A k \in 0 .. n - 1 : d[a + k] = m[a + q + k]
        /\ \A x \in 0 .. MemBytes - 1 : x \notin a .. a + n - 1 => d[x] = m[x]
    <2>1. Moved(m, d, a, a + q, n)
      BY <1>2, <1>3, <1>4, MovedBytes
    <2> QED
      BY <2>1 DEF Moved
  <1>6. a + n \in 0 .. MemBytes - 1
    BY <1>1, <1>2, WidthAssumption
  <1>7. /\ c \in Memories /\ c[a + n] = 0
        /\ \A x \in 0 .. MemBytes - 1 : x # a + n => c[x] = d[x]
    BY <1>4, <1>5, <1>6, SetNullIs
  <1>8. ASSUME NEW j \in q .. l PROVE c[a + 0 + 0 + j - q] = m[a + j]
    <2>1. PICK k \in 0 .. n : k = j - q
      BY <1>2
    <2>2. a + 0 + 0 + j - q = a + k /\ a + j = a + q + k
      BY <1>2, <2>1
    <2>3. a + k \in 0 .. MemBytes - 1
      BY <1>2, <1>6, WidthAssumption
    <2>4. CASE k = n
      BY <1>1, <1>2, <1>7, <2>2, <2>4
    <2>5. CASE k # n
      <3>1. k \in 0 .. n - 1 /\ a + k # a + n
        BY <1>2, <2>5
      <3> QED
        BY <1>5, <1>7, <2>2, <2>3, <3>1
    <2> QED
      BY <2>4, <2>5
  <1>9. ASSUME NEW x \in 0 .. MemBytes - 1, x \notin a .. a + n PROVE c[x] = m[x]
    <2>1. x \notin a .. a + n - 1 /\ x # a + n
      BY <1>2, <1>9, WidthAssumption
    <2> QED
      BY <1>5, <1>7, <2>1
  <1>10. PICK w : w = <<>> /\ Len(w) = 0
    BY EmptyText
  <1>11. a + 0 + 0 + (l - q) < MemBytes
    BY <1>1, <1>2, WidthAssumption
  <1>12. \A x \in a .. a + 0 - 1 : FALSE
    OBVIOUS
  <1>13. IsEdit(m, c, a, 0, w, q)
    BY <1>1, <1>8, <1>10, <1>11, <1>12 DEF IsEdit
  <1>14. 0 \in 0 .. l
    OBVIOUS
  <1>15. PICK e : e = Splice(TextAt(m, a), 0, w, q)
    OBVIOUS
  <1>16. Result(m, c, a, e)
    BY <1>1, <1>2, <1>7, <1>9, <1>10, <1>13, <1>14, <1>15, EditResult
  <1> QED
    BY <1>10, <1>15, <1>16

LEMMA RightText ==
  ASSUME NEW m \in Memories, NEW a \in Nat, StrLen(m, a) < Remaining(a),
         NEW n \in Nat, NEW c \in op_right(m, a, n), NEW t, t = TextAt(m, a)
  PROVE  Result(m, c, a, Drop(t, Len(t) - Min({n, Len(t)})))
  <1>1. PICK l \in Nat : l = StrLen(m, a)
    BY EndFacts
  <1>2. t \in Seq(Chars) /\ Len(t) = l
    BY <1>1, TextFacts
  <1>3. PICK q \in 0 .. l : q = l - Min({n, l}) /\ (n < l => q = l - n) /\ (n >= l => q = 0)
    <2>1. Min({n, l}) = Lesser(n, l)
      BY LesserFacts
    <2> QED
      BY <2>1 DEF Lesser
  <1>4. Drop(t, q) = Splice(t, 0, <<>>, q)
    <2>1. Drop(t, q) = Splice(t, 0, <<>>, Lesser(q, l))
      BY <1>2, <1>3, DropIs
    <2>2. Lesser(q, l) = q
      BY <1>3 DEF Lesser
    <2> QED
      BY <2>1, <2>2
  <1>5. CASE n < l
    <2>1. c = SetNull(SafeMove(m, a, a + l - n, n), a + n)
      BY <1>1, <1>5, EndFacts DEF op_right
    <2>2. a + l - n = a + q /\ n = l - q
      BY <1>3, <1>5
    <2>3. c = SetNull(SafeMove(m, a, a + q, n), a + n)
      BY <2>1, <2>2
    <2>4. Result(m, c, a, Splice(TextAt(m, a), 0, <<>>, q))
      BY <1>1, <2>2, <2>3, TailText
    <2> QED
      BY <1>2, <1>3, <1>4, <2>4
  <1>6. CASE n >= l
    <2>1. c = m
      BY <1>1, <1>6 DEF op_right
    <2>2. TextAt(m, a) = Splice(TextAt(m, a), 0, <<>>, 0)
      BY <1>1, EmptyText, SameEdit
    <2>3. TextAt(m, a) = Drop(t, q)
      BY <1>3, <1>4, <1>6, <2>2
    <2> QED
      BY <1>2, <1>3, <2>1, <2>3, SameResult
  <1> QED
    BY <1>5, <1>6

LEMMA MidText ==
  ASSUME NEW m \in Memories, NEW a \in Nat, StrLen(m, a) < Remaining(a),
         NEW start \in Nat, NEW c \in op_mid(m, a, start)
  PROVE  Result(m, c, a, Drop(TextAt(m, a), start))
  <1>1. PICK l \in Nat : l = StrLen(m, a)
    BY EndFacts
  <1>2. PICK t \in Seq(Chars) : t = TextAt(m, a) /\ Len(t) = l
    BY <1>1, TextFacts
  <1>3. PICK q \in 0 .. l : q = Lesser(start, l)
    BY LesserRange
  <1>4. Drop(t, start) = Splice(t, 0, <<>>, q)
    BY <1>2, <1>3, DropIs
  <1>5. PICK n \in Nat : n = l - q
    OBVIOUS
  <1>6. c = SetNull(SafeMove(m, a, a + q, n), a + n)
    <2>1. InMemory(a)
      BY EndFacts
    <2>2. CASE start >= l
      <3>1. q = l /\ n = 0 /\ a + n = a
        BY <1>3, <1>5, <2>2 DEF Lesser
      <3>2. c = SetNull(m, a)
        BY <1>1, <2>1, <2>2 DEF op_mid
      <3>3. SafeMove(m, a, a + q, n) = m
        BY <3>1, SafeMoveNothing
      <3> QED
        BY <3>1, <3>2, <3>3
    <2>3. CASE ~(start >= l)
      <3>1. q = start
        BY <1>3, <2>3 DEF Lesser
      <3>2. c = SetNull(SafeMove(m, a, a + start, l - start), a + (l - start))
        BY <1>1, <2>1, <2>3 DEF op_mid
      <3> QED
        BY <1>5, <3>1, <3>2
    <2> QED
      BY <2>2, <2>3
  <1>7. Result(m, c, a, Splice(TextAt(m, a), 0, <<>>, q))
    BY <1>1, <1>5, <1>6, TailText
  <1> QED
    BY <1>2, <1>4, <1>7
(* Two texts with nothing between them.                                    *)
LEMMA PairIs ==
  ASSUME NEW t \in Seq(Chars), NEW x \in Nat, NEW y \in Nat
  PROVE  Take(t, x) \o Drop(t, y) =
           Splice(t, Lesser(x, Len(t)), <<>>, Lesser(y, Len(t)))
  <1>1. PICK s \in Seq(Chars) : s = Take(t, x)
    BY TakeFacts DEF IsTake
  <1>2. s \o <<>> = s
    BY <1>1, EmptyText, ConcatProperties
  <1>3. PICK w \in Seq(Chars) : w = <<>>
    BY EmptyText
  <1>4. Take(t, x) \o w \o Drop(t, y) =
          Splice(t, Lesser(x, Len(t)), w, Lesser(y, Len(t)))
    BY TripleIs
  <1> QED
    BY <1>1, <1>2, <1>3, <1>4

(* The characters pos .. pos + k - 1 moved over by what follows them.      *)
IsCut(m, c, a, pos, k, r) ==
  /\ c \in Memories
  /\ \A i \in 0 .. r : c[a + pos + i] = m[a + pos + k + i]
  /\ \A x \in 0 .. MemBytes - 1 : x \notin a + pos .. a + pos + r => c[x] = m[x]

LEMMA CutBytes ==
  ASSUME NEW m \in Memories, NEW a \in Nat, StrLen(m, a) < Remaining(a),
         NEW pos \in Nat, NEW k \in Nat, NEW r \in Nat, StrLen(m, a) = pos + k + r,
         NEW c, c = SafeMove(m, a + pos, a + pos + k, r + 1)
  PROVE  IsCut(m, c, a, pos, k, r)
  <1>1. PICK l \in Nat : l = StrLen(m, a) /\ a + l < MemBytes
    BY EndFacts
  <1>2. l = pos + k + r
    BY <1>1
  <1>3. PICK dest \in Nat : dest = a + pos
    OBVIOUS
  <1>4. PICK src \in Nat : src = a + pos + k
    OBVIOUS
  <1>5. PICK n \in Nat : n = r + 1
    BY <1>2
  <1>6. dest + n <= MemBytes /\ src + n <= MemBytes
    BY <1>1, <1>2, <1>3, <1>4, <1>5, WidthAssumption
  <1>7. Moved(m, c, dest, src, n)
    BY <1>3, <1>4, <1>5, <1>6, MovedBytes
  <1>8. 0 .. n - 1 = 0 .. r /\ dest .. dest + n - 1 = a + pos .. a + pos + r
    BY <1>2, <1>3, <1>5
  <1> QED
    BY <1>3, <1>4, <1>7, <1>8 DEF Moved, IsCut

LEMMA CutText ==
  ASSUME NEW m \in Memories, NEW a \in Nat, StrLen(m, a) < Remaining(a),
         NEW pos \in Nat, NEW k \in Nat, NEW r \in Nat, StrLen(m, a) = pos + k + r,
         NEW c, IsCut(m, c, a, pos, k, r)
  PROVE  Result(m, c, a, Splice(TextAt(m, a), pos, <<>>, pos + k))
  <1>1. PICK l \in Nat : l = StrLen(m, a) /\ a + l < MemBytes /\ l = pos + k + r
    BY EndFacts
  <1>2. PICK q \in 0 .. l : q = pos + k
    BY <1>1
  <1>3. /\ c \in Memories
        /\ \A i \in 0 .. r : c[a + pos + i] = m[a + pos + k + i]
        /\ \A x \in 0 .. MemBytes - 1 : x \notin a + pos .. a + pos + r => c[x] = m[x]
    BY DEF IsCut
  <1>4. ASSUME NEW j \in q .. l PROVE c[a + pos + 0 + j - q] = m[a + j]
    <2>1. PICK i \in 0 .. r : i = j - q
      BY <1>1, <1>2
    <2>2. a + pos + 0 + j - q = a + pos + i /\ a + j = a + pos + k + i
      BY <1>2, <2>1
    <2> QED
      BY <1>3, <2>1, <2>2
  <1>5. \A x \in a .. a + pos - 1 : c[x] = m[x]
    BY <1>1, <1>3, WidthAssumption
  <1>6. a + pos + 0 + (l - q) < MemBytes
    BY <1>1, <1>2, WidthAssumption
  <1>7. PICK w : w = <<>> /\ Len(w) = 0
    BY EmptyText
  <1>8. IsEdit(m, c, a, pos, w, q)
    BY <1>1, <1>4, <1>5, <1>6, <1>7 DEF IsEdit
  <1>9. PICK z \in Nat : z = pos + r
    OBVIOUS
  <1>10. \A x \in 0 .. MemBytes - 1 : x \notin a .. a + z => c[x] = m[x]
    BY <1>3, <1>9, WidthAssumption
  <1>11. pos \in 0 .. l /\ z <= l
    BY <1>1, <1>9
  <1>12. PICK e : e = Splice(TextAt(m, a), pos, w, q)
    OBVIOUS
  <1>13. Result(m, c, a, e)
    BY <1>1, <1>3, <1>7, <1>8, <1>9, <1>10, <1>11, <1>12, EditResult
  <1> QED
    BY <1>2, <1>7, <1>12, <1>13

LEMMA DeleteText ==
  ASSUME NEW m \in Memories, NEW a \in Nat, StrLen(m, a) < Remaining(a),
         NEW pos \in Nat, NEW n \in Nat, NEW c \in op_delete(m, a, pos, n)
  PROVE  Result(m, c, a, Deleted(TextAt(m, a), pos, n))
  <1>1. PICK l \in Nat : l = StrLen(m, a) /\ a + l < MemBytes
    BY EndFacts
  <1>2. PICK t \in Seq(Chars) : t = TextAt(m, a) /\ Len(t) = l
    BY <1>1, TextFacts
  <1>3. Deleted(t, pos, n) = Splice(t, Lesser(pos, l), <<>>, Lesser(pos + n, l))
    <2>1. PICK y \in Nat : y = pos + n
      OBVIOUS
    <2>2. Take(t, pos) \o Drop(t, y) = Splice(t, Lesser(pos, l), <<>>, Lesser(y, l))
      BY <1>2, PairIs
    <2> QED
      BY <1>2, <2>1, <2>2 DEF Deleted
  <1>4. CASE pos < l
    <2>1. PICK k \in Nat : /\ k = Min({n, l - pos}) /\ k <= l - pos
                           /\ Lesser(pos + n, l) = pos + k
      <3>1. l - pos \in Nat
        BY <1>4
      <3>2. Min({n, l - pos}) = Lesser(n, l - pos)
        BY <3>1, LesserFacts
      <3> QED
        BY <1>4, <3>1, <3>2 DEF Lesser
    <2>2. PICK r \in Nat : r = l - pos - k
      BY <1>4, <2>1
    <2>3. c = SafeMove(m, a + pos, a + pos + k, r + 1)
      BY <1>1, <1>4, <2>1, <2>2, EndFacts DEF op_delete
    <2>4. StrLen(m, a) = pos + k + r
      BY <1>1, <2>2
    <2>5. IsCut(m, c, a, pos, k, r)
      BY <2>3, <2>4, CutBytes
    <2>6. Result(m, c, a, Splice(TextAt(m, a), pos, <<>>, pos + k))
      BY <2>4, <2>5, CutText
    <2>7. Lesser(pos, l) = pos
      BY <1>4 DEF Lesser
    <2> QED
      BY <1>2, <1>3, <2>1, <2>6, <2>7
  <1>5. CASE ~(pos < l)
    <2>1. c = m
      BY <1>1, <1>5 DEF op_delete
    <2>2. Lesser(pos, l) = l /\ Lesser(pos + n, l) = l
      BY <1>5 DEF Lesser
    <2>3. TextAt(m, a) = Splice(TextAt(m, a), l, <<>>, l)
      BY <1>1, EmptyText, SameEdit
    <2> QED
      BY <1>2, <1>3, <2>1, <2>2, <2>3, SameResult
  <1> QED
    BY <1>4, <1>5

(* What is put into a text: the first characters of the source.            *)
IsTaken(m, src, r, w, n) ==
  /\ w \in Seq(Chars) /\ n \in Nat /\ Len(w) = n
  /\ n = Min({StrLen(m, src), r}) /\ n <= r /\ n <= StrLen(m, src)
  /\ \A k \in 1 .. n : w[k] = m[src + k - 1] /\ w[k] # 0

LEMMA TakenFacts ==
  ASSUME NEW m \in Memories, NEW src \in Nat, NEW r \in Nat
  PROVE  IsTaken(m, src, r, Take(TextAt(m, src), r), Min({StrLen(m, src), r}))
  <1>1. PICK l \in Nat : l = StrLen(m, src)
    BY StrLenFacts, RemainingFacts
  <1>2. PICK u \in Seq(Chars) :
          /\ u = TextAt(m, src) /\ Len(u) = l
          /\ \A k \in 1 .. l : u[k] = m[src + k - 1] /\ m[src + k - 1] # 0
    BY <1>1, TextFacts
  <1>3. PICK w \in Seq(Chars) : w = Take(u, r) /\ IsTake(w, u, Lesser(r, l))
    BY <1>2, TakeFacts DEF IsTake
  <1>4. PICK n \in Nat : n = Lesser(r, l) /\ n <= r /\ n <= l
    BY LesserFacts
  <1>5. Min({l, r}) = n
    <2>1. Min({l, r}) = Lesser(l, r)
      BY LesserFacts
    <2> QED
      BY <1>4, <2>1 DEF Lesser
  <1>6. Len(w) = n /\ \A k \in 1 .. n : w[k] = u[k]
    BY <1>3, <1>4 DEF IsTake
  <1>7. \A k \in 1 .. n : w[k] = m[src + k - 1] /\ w[k] # 0
    BY <1>2, <1>4, <1>6
  <1>8. IsTaken(m, src, r, w, n)
    BY <1>1, <1>4, <1>5, <1>6, <1>7 DEF IsTaken
  <1> QED
    BY <1>1, <1>2, <1>3, <1>5, <1>8

(* Between regions apart memcpy has one outcome.                           *)
LEMMA CopyBytes ==
  ASSUME NEW m \in Memories, NEW dest \in Nat, NEW src \in Nat, NEW n \in Nat,
         dest + n <= MemBytes, src + n <= MemBytes,
         dest + n <= src \/ src + n <= dest,
         NEW c, c \in MemCpy(m, dest, src, n)
  PROVE  Moved(m, c, dest, src, n)
  <1>1. ~(dest < src + n /\ src < dest + n /\ dest # src)
    OBVIOUS
  <1>2. c = Move(m, dest, src, n)
    BY <1>1 DEF MemCpy
  <1> QED
    BY <1>2, MovedBytes

(* The room that a text leaves, and where its source is.                   *)
LEMMA RoomIs ==
  ASSUME NEW m, NEW a \in Nat, StrLen(m, a) < Remaining(a)
  PROVE  Room(m, a) \in Nat /\ a + StrLen(m, a) + Room(m, a) + 1 = MemBytes
  <1>1. PICK l \in Nat : l = StrLen(m, a)
    BY EndFacts
  <1>2. PICK x \in Nat : x = Remaining(a) /\ a + x = MemBytes
    BY EndFacts, RemainingFacts
  <1>3. Room(m, a) = x - l - 1
    BY <1>1, <1>2 DEF Room
  <1> QED
    BY <1>1, <1>2, <1>3

LEMMA SourceEnds ==
  ASSUME NEW m, NEW src \in Nat, InMemory(src)
  PROVE  StrLen(m, src) \in Nat /\ src + StrLen(m, src) <= MemBytes
  BY StrLenFacts, RemainingFacts, WidthAssumption DEF InMemory

(* The source is not touched when the text at a becomes e.                 *)
Apart(m, a, src, e) ==
  (src .. src + StrLen(m, src)) \cap (a .. a + Max({Len(e), StrLen(m, a)})) = {}

LEMMA ApartIs ==
  ASSUME NEW m, NEW a \in Nat, NEW src \in Nat, NEW e, Len(e) \in Nat,
         Apart(m, a, src, e)
  PROVE  \/ src + StrLen(m, src) < a
         \/ a + StrLen(m, a) < src /\ a + Len(e) < src
  <1>1. PICK l \in Nat : l = StrLen(m, a)
    BY StrLenFacts, RemainingFacts
  <1>2. PICK ls \in Nat : ls = StrLen(m, src)
    BY StrLenFacts, RemainingFacts
  <1>3. PICK x \in Nat : x = Max({Len(e), l}) /\ x >= Len(e) /\ x >= l
    BY Max2
  <1>4. (src .. src + ls) \cap (a .. a + x) = {}
    BY <1>1, <1>2, <1>3 DEF Apart
  <1>5. src + ls < a \/ a + x < src
    BY <1>4, ApartFacts
  <1> QED
    BY <1>1, <1>2, <1>3, <1>5

LEMMA ConcatText ==
  ASSUME NEW m \in Memories, NEW a \in Nat, StrLen(m, a) < Remaining(a),
         NEW src \in Nat, InMemory(src), NEW c \in op_concat(m, a, src),
         NEW e, e = Joined(TextAt(m, a), TextAt(m, src), Room(m, a)),
         Apart(m, a, src, e)
  PROVE  Result(m, c, a, e)
  <1>1. PICK l \in Nat : /\ l = StrLen(m, a) /\ a + l < MemBytes /\ m[a + l] = 0
                         /\ InMemory(a)
    BY EndFacts
  <1>2. PICK room \in Nat : room = Room(m, a) /\ a + l + room + 1 = MemBytes
    BY <1>1, RoomIs
  <1>3. PICK t \in Seq(Chars) : t = TextAt(m, a) /\ Len(t) = l
    BY <1>1, TextFacts
  <1>4. PICK w : w = Take(TextAt(m, src), room)
    OBVIOUS
  <1>5. PICK n : n = Min({StrLen(m, src), room})
    OBVIOUS
  <1>6. IsTaken(m, src, room, w, n)
    BY <1>4, <1>5, TakenFacts
  <1>7. PICK ls \in Nat : ls = StrLen(m, src) /\ src + ls <= MemBytes
    BY SourceEnds
  <1>8. /\ w \in Seq(Chars) /\ n \in Nat /\ Len(w) = n /\ n <= room /\ n <= ls
        /\ \A k \in 1 .. n : w[k] = m[src + k - 1] /\ w[k] # 0
    BY <1>6, <1>7 DEF IsTaken
  <1>9. e = Splice(t, l, w, l)
    <2>1. PICK u \in Seq(Chars) : u = TextAt(m, src)
      BY TextFacts
    <2>2. e = Joined(t, u, room)
      BY <1>2, <1>3, <2>1
    <2>3. w = Take(u, room)
      BY <1>4, <2>1
    <2>4. Joined(t, u, room) = Splice(t, Len(t), Take(u, room), Len(t))
      BY <1>2, <1>3, <2>1, JoinedIs
    <2>5. e = Splice(t, Len(t), w, Len(t))
      BY <2>2, <2>3, <2>4, Zenon
    <2> QED
      BY <1>3, <2>5, Zenon
  <1>10. Len(e) = l + n
    BY <1>3, <1>8, <1>9, SpliceLen
  <1>11. src + ls < a \/ a + l + n < src
    BY <1>1, <1>7, <1>8, <1>10, ApartIs
  <1>12. PICK at \in Nat : at = a + l
    OBVIOUS
  <1>13. PICK d \in MemCpy(m, at, src, n) : c = SetNull(d, at + n)
    BY <1>1, <1>2, <1>5, <1>12 DEF op_concat
  <1>14. Moved(m, d, at, src, n)
    <2>1. at + n <= MemBytes /\ src + n <= MemBytes
      BY <1>2, <1>7, <1>8, <1>12, WidthAssumption
    <2>2. at + n <= src \/ src + n <= at
      BY <1>8, <1>11, <1>12
    <2> QED
      BY <1>8, <2>1, <2>2, CopyBytes
  <1>15. /\ d \in Memories
         /\ \A k \in 0 .. n - 1 : d[at + k] = m[src + k]
         /\ \A x \in 0 .. MemBytes - 1 : x \notin at .. at + n - 1 => d[x] = m[x]
    BY <1>14 DEF Moved
  <1>16. at + n \in 0 .. MemBytes - 1
    BY <1>2, <1>8, <1>12, WidthAssumption
  <1>17. /\ c \in Memories /\ c[at + n] = 0
         /\ \A x \in 0 .. MemBytes - 1 : x # at + n => c[x] = d[x]
    BY <1>13, <1>15, <1>16, SetNullIs
  <1>18. ASSUME NEW k \in 1 .. n PROVE w[k] # 0 /\ c[a + l + k - 1] = w[k]
    <2>1. PICK i \in 0 .. n - 1 : i = k - 1
      BY <1>8
    <2>2. /\ a + l + k - 1 = at + i /\ src + k - 1 = src + i
          /\ at + i \in 0 .. MemBytes - 1 /\ at + i # at + n
      BY <1>8, <1>12, <1>16, <2>1, WidthAssumption
    <2>3. c[at + i] = d[at + i] /\ d[at + i] = m[src + i]
      <3>1. PICK y \in 0 .. MemBytes - 1 : y = at + i
        BY <2>2
      <3> QED
        BY <1>15, <1>17, <2>2, <3>1
    <2>4. w[k] = m[src + k - 1] /\ w[k] # 0
      BY <1>8
    <2> QED
      BY <2>2, <2>3, <2>4
  <1>19. ASSUME NEW x \in 0 .. MemBytes - 1, x \notin at .. at + n PROVE c[x] = m[x]
    <2>1. x \notin at .. at + n - 1 /\ x # at + n
      BY <1>8, <1>19, WidthAssumption
    <2> QED
      BY <1>15, <1>17, <2>1
  <1>20. \A x \in a .. a + l - 1 : c[x] = m[x]
    <2>1. ASSUME NEW x \in a .. a + l - 1
          PROVE  x \in 0 .. MemBytes - 1 /\ x \notin at .. at + n
      BY <1>1, <1>8, <1>12, WidthAssumption
    <2> QED
      BY <1>19, <2>1
  <1>21. ASSUME NEW j \in l .. l PROVE c[a + l + n + j - l] = m[a + j]
    <2>1. j = l /\ a + l + n + j - l = at + n
      BY <1>8, <1>12
    <2> QED
      BY <1>1, <1>17, <2>1
  <1>22. a + l + n + (l - l) < MemBytes
    BY <1>12, <1>16, <1>8, WidthAssumption
  <1>23. IsEdit(m, c, a, l, w, l)
    BY <1>1, <1>8, <1>18, <1>20, <1>21, <1>22 DEF IsEdit
  <1>24. PICK z \in Nat : z = l + n
    BY <1>8
  <1>25. \A x \in 0 .. MemBytes - 1 : x \notin a .. a + z => c[x] = m[x]
    BY <1>8, <1>12, <1>19, <1>24, WidthAssumption
  <1>26. l \in 0 .. l /\ z <= l + n + (l - l)
    BY <1>8, <1>24
  <1> QED
    BY <1>1, <1>3, <1>8, <1>9, <1>17, <1>23, <1>24, <1>25, <1>26, EditResult
(* n characters put in at at, and r characters and the zero from `from'    *)
(* behind them.                                                            *)
IsPut(m, c, at, src, n, from, r) ==
  /\ c \in Memories
  /\ \A k \in 0 .. n - 1 : c[at + k] = m[src + k]
  /\ \A i \in 0 .. r : c[at + n + i] = m[from + i]
  /\ \A x \in 0 .. MemBytes - 1 : x \notin at .. at + n + r => c[x] = m[x]

LEMMA PutBytes ==
  ASSUME NEW m \in Memories, NEW at \in Nat, NEW src \in Nat, NEW n \in Nat,
         NEW r \in Nat, at + n + r < MemBytes, src + n <= MemBytes,
         src + n <= at \/ at + n + r < src,
         NEW c \in MemCpy(Move(m, at + n, at, r + 1), at, src, n)
  PROVE  IsPut(m, c, at, src, n, at, r)
  <1>1. PICK dest \in Nat : dest = at + n
    OBVIOUS
  <1>2. PICK s \in Nat : s = r + 1
    OBVIOUS
  <1>3. PICK d : d = Move(m, dest, at, s)
    OBVIOUS
  <1>4. Moved(m, d, dest, at, s)
    <2>1. dest + s <= MemBytes /\ at + s <= MemBytes
      BY <1>1, <1>2, WidthAssumption
    <2> QED
      BY <1>3, <2>1, MovedBytes
  <1>5. /\ d \in Memories
        /\ \A i \in 0 .. r : d[dest + i] = m[at + i]
        /\ \A x \in 0 .. MemBytes - 1 : x \notin dest .. dest + r => d[x] = m[x]
    BY <1>2, <1>4 DEF Moved
  <1>6. Moved(d, c, at, src, n)
    <2>1. c \in MemCpy(d, at, src, n)
      BY <1>1, <1>2, <1>3
    <2>2. at + n <= MemBytes /\ (at + n <= src \/ src + n <= at)
      BY WidthAssumption
    <2> QED
      BY <1>5, <2>1, <2>2, CopyBytes
  <1>7. /\ c \in Memories
        /\ \A k \in 0 .. n - 1 : c[at + k] = d[src + k]
        /\ \A x \in 0 .. MemBytes - 1 : x \notin at .. at + n - 1 => c[x] = d[x]
    BY <1>6 DEF Moved
  <1>8. ASSUME NEW k \in 0 .. n - 1 PROVE c[at + k] = m[src + k]
    <2>1. PICK x \in Int : x = src + k
      OBVIOUS
    <2>2. x \in 0 .. MemBytes - 1 /\ x \notin dest .. dest + r
      BY <1>1, <2>1, WidthAssumption
    <2> QED
      BY <1>5, <1>7, <2>1, <2>2
  <1>9. ASSUME NEW i \in 0 .. r PROVE c[at + n + i] = m[at + i]
    <2>1. PICK x \in Int : x = dest + i
      BY <1>1
    <2>2. x \in 0 .. MemBytes - 1 /\ x \notin at .. at + n - 1 /\ at + n + i = x
      BY <1>1, <2>1, WidthAssumption
    <2> QED
      BY <1>5, <1>7, <2>1, <2>2
  <1>10. ASSUME NEW x \in 0 .. MemBytes - 1, x \notin at .. at + n + r
         PROVE  c[x] = m[x]
    <2>1. x \notin at .. at + n - 1 /\ x \notin dest .. dest + r
      BY <1>1, <1>10, WidthAssumption
    <2> QED
      BY <1>5, <1>7, <2>1
  <1> QED
    BY <1>7, <1>8, <1>9, <1>10 DEF IsPut

(* What is put in at p, with what stood behind q after it.                 *)
LEMMA PutResult ==
  ASSUME NEW m \in Memories, NEW a \in Nat, StrLen(m, a) < Remaining(a),
         NEW p \in 0 .. StrLen(m, a), NEW q \in 0 .. StrLen(m, a),
         NEW src \in Nat, NEW room, NEW w, NEW n, IsTaken(m, src, room, w, n),
         NEW r, r = StrLen(m, a) - q, a + p + n + r < MemBytes,
         NEW c, IsPut(m, c, a + p, src, n, a + q, r),
         NEW e, e = Splice(TextAt(m, a), p, w, q)
  PROVE  Result(m, c, a, e)
  <1>1. PICK l \in Nat : l = StrLen(m, a)
    BY EndFacts
  <1>2. p \in 0 .. l /\ q \in 0 .. l /\ r \in Nat /\ r = l - q /\ q + r = l
    BY <1>1
  <1>3. n \in Nat /\ w \in Seq(Chars) /\ Len(w) = n
    BY DEF IsTaken
  <1>4. \A k \in 1 .. n : w[k] = m[src + k - 1] /\ w[k] # 0
    BY DEF IsTaken
  <1>5. PICK at \in Nat : at = a + p
    BY <1>2
  <1>6. /\ c \in Memories
        /\ \A k \in 0 .. n - 1 : c[at + k] = m[src + k]
        /\ \A i \in 0 .. r : c[at + n + i] = m[a + q + i]
    BY <1>5 DEF IsPut
  <1>7. \A x \in 0 .. MemBytes - 1 : x \notin at .. at + n + r => c[x] = m[x]
    BY <1>5 DEF IsPut
  <1>8. ASSUME NEW k \in 1 .. n PROVE w[k] # 0 /\ c[a + p + k - 1] = w[k]
    <2>1. PICK i \in 0 .. n - 1 : i = k - 1
      BY <1>3
    <2>2. a + p + k - 1 = at + i /\ src + k - 1 = src + i
      BY <1>2, <1>5, <2>1
    <2>3. c[at + i] = m[src + i] /\ w[k] = m[src + k - 1] /\ w[k] # 0
      BY <1>4, <1>6
    <2> QED
      BY <2>2, <2>3
  <1>9. ASSUME NEW j \in q .. l PROVE c[a + p + n + j - q] = m[a + j]
    <2>1. PICK i \in 0 .. r : i = j - q
      BY <1>2
    <2>2. a + p + n + j - q = at + n + i /\ a + q + i = a + j
      BY <1>2, <1>3, <1>5, <2>1
    <2> QED
      BY <1>6, <2>2
  <1>10. ASSUME NEW x \in a .. a + p - 1 PROVE c[x] = m[x]
    <2>1. at + n + r < MemBytes
      BY <1>5
    <2>2. x \in 0 .. MemBytes - 1 /\ x \notin at .. at + n + r
      BY <1>2, <1>3, <1>5, <2>1, WidthAssumption
    <2> QED
      BY <1>7, <2>2
  <1>11. IsEdit(m, c, a, p, w, q)
    <2>1. a + p + n + (l - q) < MemBytes
      BY <1>2
    <2> QED
      BY <1>1, <1>3, <1>8, <1>9, <1>10, <2>1 DEF IsEdit
  <1>12. PICK z \in Nat : z = p + n + r
    BY <1>2, <1>3
  <1>13. \A x \in 0 .. MemBytes - 1 : x \notin a .. a + z => c[x] = m[x]
    <2>1. ASSUME NEW x \in 0 .. MemBytes - 1, x \notin a .. a + z
          PROVE  x \notin at .. at + n + r
      <3>1. x < a \/ a + z < x
        BY <1>12, <2>1, WidthAssumption
      <3>2. a <= at
        BY <1>5
      <3>3. at + n + r = a + z
        BY <1>3, <1>5, <1>12
      <3> QED
        BY <3>1, <3>2, <3>3
    <2> QED
      BY <1>7, <2>1
  <1>14. z <= p + Len(w) + (StrLen(m, a) - q)
    BY <1>1, <1>2, <1>3, <1>12
  <1> QED
    BY <1>3, <1>6, <1>11, <1>12, <1>13, <1>14, EditResult

LEMMA InsertText ==
  ASSUME NEW m \in Memories, NEW a \in Nat, StrLen(m, a) < Remaining(a),
         NEW src \in Nat, InMemory(src), NEW pos \in Nat,
         NEW c \in op_insert(m, a, src, pos),
         NEW e, e = Inserted(TextAt(m, a), TextAt(m, src), pos, Room(m, a)),
         Apart(m, a, src, e)
  PROVE  Result(m, c, a, e)
  <1>1. PICK l \in Nat : l = StrLen(m, a) /\ a + l < MemBytes /\ InMemory(a)
    BY EndFacts
  <1>2. PICK room \in Nat : room = Room(m, a) /\ a + l + room + 1 = MemBytes
    BY <1>1, RoomIs
  <1>3. PICK t \in Seq(Chars) : t = TextAt(m, a) /\ Len(t) = l
    BY <1>1, TextFacts
  <1>4. PICK w \in Seq(Chars) : /\ w = Take(TextAt(m, src), room)
                                /\ Len(w) = Min({StrLen(m, src), room})
    <2>1. IsTaken(m, src, room, Take(TextAt(m, src), room), Min({StrLen(m, src), room}))
      BY TakenFacts
    <2> QED
      BY <2>1 DEF IsTaken
  <1>5. PICK n \in Nat : n = Min({StrLen(m, src), room})
    <2>1. IsTaken(m, src, room, Take(TextAt(m, src), room), Min({StrLen(m, src), room}))
      BY TakenFacts
    <2> QED
      BY <2>1 DEF IsTaken
  <1>6. IsTaken(m, src, room, w, n)
    BY <1>4, <1>5, TakenFacts
  <1>7. PICK ls \in Nat : ls = StrLen(m, src) /\ src + ls <= MemBytes
    BY SourceEnds
  <1>8. n <= ls /\ n <= room /\ Len(w) = n
    BY <1>4, <1>5, <1>6, <1>7 DEF IsTaken
  <1>9. PICK p \in Nat : p = Lesser(pos, l) /\ p = Min({pos, l}) /\ p <= l
    BY LesserFacts
  <1>10. e = Splice(t, p, w, p)
    <2>1. Take(t, pos) \o w \o Drop(t, pos) =
            Splice(t, Lesser(pos, Len(t)), w, Lesser(pos, Len(t)))
      BY TripleIs
    <2> QED
      BY <1>2, <1>3, <1>4, <1>9, <2>1 DEF Inserted
  <1>11. CASE n > 0
    <2>1. Len(e) = l + n
      BY <1>3, <1>8, <1>9, <1>10, SpliceLen
    <2>2. src + ls < a \/ a + l + n < src
      BY <1>1, <1>7, <1>8, <2>1, ApartIs
    <2>3. PICK at \in Nat : at = a + p
      OBVIOUS
    <2>4. PICK r \in Nat : r = l - p
      BY <1>9
    <2>5. c \in MemCpy(Move(m, at + n, at, r + 1), at, src, n)
      BY <1>1, <1>2, <1>5, <1>9, <1>11, <2>3, <2>4 DEF op_insert
    <2>6. at + n + r < MemBytes
      BY <1>2, <1>8, <2>3, <2>4, WidthAssumption
    <2>7. src + n <= MemBytes /\ (src + n <= at \/ at + n + r < src)
      <3>1. p <= l
        BY <1>9
      <3>2. n <= ls
        BY <1>8
      <3>3. at >= a
        BY <2>3
      <3>4. at + n + r = a + l + n
        BY <2>3, <2>4, <3>1
      <3>5. src + n <= src + ls
        BY <3>2
      <3>6. src + n <= MemBytes
        BY <1>7, <3>5, WidthAssumption
      <3>7. CASE src + ls < a
        BY <3>3, <3>5, <3>6, <3>7
      <3>8. CASE a + l + n < src
        BY <3>4, <3>6, <3>8
      <3> QED
        BY <2>2, <3>7, <3>8
    <2>8. IsPut(m, c, at, src, n, at, r)
      BY <2>5, <2>6, <2>7, PutBytes
    <2>9. IsPut(m, c, a + p, src, n, a + p, r)
      BY <2>3, <2>8
    <2>10. r = StrLen(m, a) - p /\ a + p + n + r < MemBytes
      BY <1>1, <2>3, <2>4, <2>6
    <2>11. p \in 0 .. StrLen(m, a)
      BY <1>1, <1>9
    <2> QED
      BY <1>3, <1>6, <1>10, <2>9, <2>10, <2>11, PutResult
  <1>12. CASE ~(n > 0)
    <2>1. c = m
      BY <1>2, <1>5, <1>12 DEF op_insert
    <2>2. Len(w) = 0
      BY <1>8, <1>12
    <2>3. TextAt(m, a) = e
      BY <1>1, <1>3, <1>9, <1>10, <2>2, SameEdit
    <2> QED
      BY <2>1, <2>3, SameResult
  <1> QED
    BY <1>11, <1>12
(* What was cut out is the place of what is put in.                        *)
LEMMA PutBack ==
  ASSUME NEW m \in Memories, NEW a \in Nat, NEW pos \in Nat, NEW n \in Nat,
         NEW r \in Nat, NEW cut, IsCut(m, cut, a, pos, n, r),
         NEW src \in Nat, src + n <= MemBytes, a + pos + n + r < MemBytes,
         src + n <= a \/ a + pos + n + r < src,
         NEW c, IsPut(cut, c, a + pos, src, n, a + pos, r)
  PROVE  IsPut(m, c, a + pos, src, n, a + (pos + n), r)
  <1>1. PICK at \in Nat : at = a + pos /\ at + n = a + (pos + n)
    OBVIOUS
  <1>2. /\ \A i \in 0 .. r : cut[at + i] = m[at + n + i]
        /\ \A x \in 0 .. MemBytes - 1 : x \notin at .. at + r => cut[x] = m[x]
    BY <1>1 DEF IsCut
  <1>3. /\ c \in Memories
        /\ \A k \in 0 .. n - 1 : c[at + k] = cut[src + k]
        /\ \A i \in 0 .. r : c[at + n + i] = cut[at + i]
        /\ \A x \in 0 .. MemBytes - 1 : x \notin at .. at + n + r => c[x] = cut[x]
    BY <1>1 DEF IsPut
  <1>4. ASSUME NEW k \in 0 .. n - 1 PROVE c[at + k] = m[src + k]
    <2>1. PICK x \in Int : x = src + k
      OBVIOUS
    <2>2. x \in 0 .. MemBytes - 1 /\ x \notin at .. at + r
      BY <1>1, <2>1, WidthAssumption
    <2> QED
      BY <1>2, <1>3, <2>1, <2>2
  <1>5. ASSUME NEW i \in 0 .. r PROVE c[at + n + i] = m[at + n + i]
    BY <1>2, <1>3
  <1>6. ASSUME NEW x \in 0 .. MemBytes - 1, x \notin at .. at + n + r
        PROVE  c[x] = m[x]
    <2>1. x \notin at .. at + r
      BY <1>6, WidthAssumption
    <2> QED
      BY <1>2, <1>3, <1>6, <2>1
  <1> QED
    BY <1>1, <1>3, <1>4, <1>5, <1>6 DEF IsPut

LEMMA ReplaceText ==
  ASSUME NEW m \in Memories, NEW a \in Nat, StrLen(m, a) < Remaining(a),
         NEW src \in Nat, InMemory(src), NEW pos \in Nat,
         NEW c \in op_replace(m, a, src, pos),
         NEW e, e = Overwritten(TextAt(m, a), TextAt(m, src), pos),
         Apart(m, a, src, e)
  PROVE  Result(m, c, a, e)
  <1>1. PICK l \in Nat : l = StrLen(m, a) /\ a + l < MemBytes /\ InMemory(a)
    BY EndFacts
  <1>2. PICK t \in Seq(Chars) : t = TextAt(m, a) /\ Len(t) = l
    BY <1>1, TextFacts
  <1>3. CASE pos > l
    <2>1. c = m
      BY <1>1, <1>3 DEF op_replace
    <2>2. e = t
      BY <1>2, <1>3 DEF Overwritten
    <2> QED
      BY <1>2, <2>1, <2>2, SameResult
  <1>4. CASE pos <= l
    <2>1. PICK room \in Nat : room = l - pos
      BY <1>4
    <2>2. PICK v \in Seq(Chars) : /\ v = Take(TextAt(m, src), room)
                                  /\ Len(v) = Min({StrLen(m, src), room})
      <3>1. IsTaken(m, src, room, Take(TextAt(m, src), room),
                    Min({StrLen(m, src), room}))
        BY TakenFacts
      <3> QED
        BY <3>1 DEF IsTaken
    <2>3. PICK n \in Nat : n = Min({StrLen(m, src), room})
      <3>1. IsTaken(m, src, room, Take(TextAt(m, src), room),
                    Min({StrLen(m, src), room}))
        BY TakenFacts
      <3> QED
        BY <3>1 DEF IsTaken
    <2>4. IsTaken(m, src, room, v, n)
      BY <2>2, <2>3, TakenFacts
    <2>5. PICK ls \in Nat : ls = StrLen(m, src) /\ src + ls <= MemBytes
      BY SourceEnds
    <2>6. n <= ls /\ n <= room /\ Len(v) = n
      BY <2>2, <2>3, <2>4, <2>5 DEF IsTaken
    <2>7. PICK q \in Nat : q = pos + n /\ q <= l
      BY <2>1, <2>6
    <2>8. e = Splice(t, pos, v, q)
      <3>1. Take(t, pos) \o v \o Drop(t, q) =
              Splice(t, Lesser(pos, Len(t)), v, Lesser(q, Len(t)))
        BY TripleIs
      <3>2. Lesser(pos, Len(t)) = pos /\ Lesser(q, Len(t)) = q
        BY <1>2, <1>4, <2>7 DEF Lesser
      <3>3. e = Take(t, pos) \o v \o Drop(t, pos + Len(v))
        BY <1>2, <1>4, <2>1, <2>2 DEF Overwritten
      <3> QED
        BY <2>6, <2>7, <3>1, <3>2, <3>3
    <2>9. Len(e) = l
      BY <1>2, <1>4, <2>6, <2>7, <2>8, SpliceLen
    <2>10. src + ls < a \/ a + l < src
      BY <1>1, <2>5, <2>9, ApartIs
    <2>11. PICK r \in Nat : r = l - pos - n
      BY <2>7
    <2>12. StrLen(m, a) = pos + n + r
      BY <1>1, <2>11
    <2>13. PICK cut : cut = SafeMove(m, a + pos, a + pos + n, r + 1)
      OBVIOUS
    <2>14. IsCut(m, cut, a, pos, n, r)
      BY <2>12, <2>13, CutBytes
    <2>15. cut \in Memories
      BY <2>14 DEF IsCut
    <2>16. StrLen(cut, a) = l - n
      <3>1. TextAt(cut, a) = Splice(t, pos, <<>>, q)
        <4>1. Result(m, cut, a, Splice(TextAt(m, a), pos, <<>>, pos + n))
          BY <2>12, <2>14, CutText
        <4> QED
          BY <1>2, <2>7, <4>1 DEF Result
      <3>2. Len(TextAt(cut, a)) = pos + 0 + (l - q)
        BY <1>2, <2>7, <3>1, EmptyText, SpliceLen
      <3>3. Len(TextAt(cut, a)) = StrLen(cut, a)
        BY <2>15, TextFacts
      <3> QED
        BY <2>7, <3>2, <3>3
    <2>17. Min({n, Room(cut, a)}) = n
      <3>1. PICK x \in Nat : x = Remaining(a) /\ l < x
        BY <1>1, RemainingFacts
      <3>2. Room(cut, a) = x - (l - n) - 1
        BY <2>6, <2>16, <3>1 DEF Room
      <3>3. PICK y \in Nat : y = Room(cut, a) /\ n <= y
        BY <2>1, <2>6, <3>1, <3>2
      <3>4. Min({n, y}) = Lesser(n, y)
        BY LesserFacts
      <3> QED
        BY <3>3, <3>4 DEF Lesser
    <2>18. c \in IF n = 0 THEN {cut}
                 ELSE MemCpy(Move(cut, a + pos + n, a + pos, r + 1), a + pos, src, n)
      <3>1. l - pos - n + 1 = r + 1 /\ (l - n) - pos + 1 = r + 1
        BY <2>11
      <3>2. ~(~InMemory(a) \/ ~InMemory(src) \/ pos > l)
        BY <1>1, <1>4
      <3> QED
        BY <1>1, <2>1, <2>3, <2>13, <2>16, <2>17, <3>1, <3>2 DEF op_replace
    <2>19. a + pos + n + r < MemBytes
      BY <1>1, <2>11, WidthAssumption
    <2>20. src + n <= MemBytes /\ (src + n <= a \/ a + pos + n + r < src)
      BY <2>5, <2>6, <2>10, <2>11, WidthAssumption
    <2>21. IsPut(cut, c, a + pos, src, n, a + pos, r)
      <3>1. PICK at \in Nat : at = a + pos
        OBVIOUS
      <3>2. CASE n = 0
        BY <2>15, <2>18, <3>1, <3>2 DEF IsPut
      <3>3. CASE n # 0
        <4>1. c \in MemCpy(Move(cut, at + n, at, r + 1), at, src, n)
          BY <2>18, <3>1, <3>3
        <4>2. at + n + r < MemBytes /\ (src + n <= at \/ at + n + r < src)
          BY <2>19, <2>20, <3>1
        <4>3. IsPut(cut, c, at, src, n, at, r)
          BY <2>15, <2>20, <4>1, <4>2, PutBytes
        <4> QED
          BY <3>1, <4>3
      <3> QED
        BY <3>2, <3>3
    <2>22. IsPut(m, c, a + pos, src, n, a + (pos + n), r)
      BY <2>14, <2>19, <2>20, <2>21, PutBack
    <2>23. /\ r = StrLen(m, a) - q
           /\ pos \in 0 .. StrLen(m, a) /\ q \in 0 .. StrLen(m, a)
           /\ IsPut(m, c, a + pos, src, n, a + q, r)
      BY <1>1, <1>4, <2>7, <2>11, <2>22
    <2> QED
      BY <1>2, <2>4, <2>8, <2>19, <2>23, PutResult
  <1> QED
    BY <1>3, <1>4
(* Of an operation on strings only String is the handler.                  *)
LEMMA StringIsHandled ==
  ASSUME NEW i, Operation(i) \in StringOps, Execute(i)
  PROVE  String(i)
  <1>1. PICK op \in StringOps : op = Operation(i)
    OBVIOUS
  <1>2. ~Compute(i)
    <2>1. ASSUME NEW b, NEW c PROVE Results(op, b, c) = {}
      <3>1. op \notin DOMAIN Compare(b, c)
        BY DEF Compare, StringOps
      <3>2. op \notin DOMAIN Arithmetic(b, c)
        BY DEF Arithmetic, StringOps
      <3>3. op \notin DOMAIN Functions(b)
        BY DEF Functions, StringOps
      <3>4. op # "expt"
        BY DEF StringOps
      <3> QED
        BY <3>1, <3>2, <3>3, <3>4 DEF Results
    <2> QED
      BY <1>1, <2>1 DEF Compute
  <1>3. ~ReadClock(i)
    <2>1. ASSUME NEW t PROVE op \notin DOMAIN Reading(t)
      BY DEF Reading, StringOps
    <2> QED
      BY <1>1, <2>1 DEF ReadClock
  <1>4. ~(Select(i) \/ Demux(i) \/ Timer(i))
    BY <1>1 DEF Select, Demux, Timer, StringOps
  <1>5. ~Count(i)
    BY <1>1 DEF Count, Counters, StringOps
  <1>6. ~(DetectEdge(i) \/ SetLatch(i))
    BY <1>1 DEF DetectEdge, EdgeOps, SetLatch, StringOps
  <1>7. ~(Jump(i) \/ Nop(i) \/ Finish(i))
    BY <1>1 DEF Jump, Nop, Finish, StringOps
  <1> QED
    BY <1>2, <1>3, <1>4, <1>5, <1>6, <1>7 DEF Execute
=============================================================================
