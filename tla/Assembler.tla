----------------------------- MODULE Assembler -----------------------------
(***************************************************************************)
(* The assembler (prototype-integrator: tools/converter.c): a source line  *)
(* becomes an instruction word, and the first line that is wrong ends the  *)
(* run with the words of the lines before it already in the output file.   *)
(*                                                                         *)
(* A line is a mnemonic and up to three operands; an operand is a register *)
(* R<n>, an immediate #<n>, or text that is neither.  How text becomes     *)
(* tokens, and numbers beyond the range of an int, are left out.           *)
(***************************************************************************)
EXTENDS Words, SequencesExt

(* The mnemonics with the policy for operand C, in the order of op_table;  *)
(* the opcode is the position.                                             *)
ImmediateC == "C may be immediate"
RegisterC == "C is a register"
NoPolicy == "no policy"

op_table ==
  <<<<"add", ImmediateC>>, <<"sub", ImmediateC>>, <<"mul", ImmediateC>>,
    <<"div", ImmediateC>>, <<"mod", ImmediateC>>, <<"expt", ImmediateC>>,
    <<"abs", NoPolicy>>, <<"sqrt", NoPolicy>>, <<"ln", NoPolicy>>,
    <<"log", NoPolicy>>, <<"exp", NoPolicy>>, <<"sin", NoPolicy>>,
    <<"cos", NoPolicy>>, <<"tan", NoPolicy>>, <<"asin", NoPolicy>>,
    <<"acos", NoPolicy>>, <<"atan", NoPolicy>>,
    <<"and", ImmediateC>>, <<"or", ImmediateC>>, <<"xor", ImmediateC>>,
    <<"not", NoPolicy>>, <<"eq", ImmediateC>>, <<"ne", ImmediateC>>,
    <<"gt", ImmediateC>>, <<"ge", ImmediateC>>, <<"lt", ImmediateC>>,
    <<"le", ImmediateC>>, <<"time", NoPolicy>>, <<"date", NoPolicy>>,
    <<"tod", NoPolicy>>, <<"dt", NoPolicy>>, <<"add_time", ImmediateC>>,
    <<"sub_time", ImmediateC>>, <<"year", NoPolicy>>, <<"month", NoPolicy>>,
    <<"day", NoPolicy>>, <<"hour", NoPolicy>>, <<"minute", NoPolicy>>,
    <<"second", NoPolicy>>, <<"len", NoPolicy>>, <<"concat", RegisterC>>,
    <<"left", ImmediateC>>, <<"right", ImmediateC>>, <<"mid", ImmediateC>>,
    <<"insert", ImmediateC>>, <<"delete", ImmediateC>>,
    <<"replace", ImmediateC>>, <<"ton", ImmediateC>>, <<"tof", ImmediateC>>,
    <<"tp", ImmediateC>>, <<"ctu", ImmediateC>>, <<"ctd", ImmediateC>>,
    <<"ctud", RegisterC>>, <<"limit", ImmediateC>>, <<"sel", RegisterC>>,
    <<"mux", ImmediateC>>, <<"rising_edge", ImmediateC>>,
    <<"falling_edge", ImmediateC>>, <<"edge_both", ImmediateC>>,
    <<"rs_latch", ImmediateC>>, <<"sr_latch", ImmediateC>>,
    <<"demux", ImmediateC>>, <<"jmp", ImmediateC>>, <<"jmp_if", ImmediateC>>,
    <<"jmp_if_not", ImmediateC>>, <<"exit", ImmediateC>>,
    <<"halt", NoPolicy>>, <<"nop", NoPolicy>>>>

Mnemonics == {op_table[k][1] : k \in DOMAIN op_table}
opcode_from_name(name) == (CHOOSE k \in DOMAIN op_table : op_table[k][1] = name) - 1
Policy(name) == op_table[opcode_from_name(name) + 1][2]

(* What the parser makes of a line: at least a mnemonic, and operands.     *)
Operands == [kind : {"reg", "imm", "text"}, n : Int]
SourceLine(line) ==
  Len(line) \in Nat \ {0} /\ \A k \in 2 .. Len(line) : line[k] \in Operands

(* HALT stands for EXIT 0 unless --raw-halt was given.                     *)
Mnemonic(line, rawHalt) ==
  IF line[1] = "halt" /\ ~rawHalt THEN "exit" ELSE line[1]

(* An operand that is missing is register 0.                               *)
Operand(line, k) == IF Len(line) > k THEN line[k + 1] ELSE R(0)

check_reg_range(n) == n \in 0 .. Fields - 1
check_imm8_range(n) == n \in -(Fields \div 2) .. Fields \div 2 - 1

GoodRegister(t) == t.kind = "reg" /\ check_reg_range(t.n)
GoodC(name, t) ==
  \/ GoodRegister(t)
  \/ t.kind = "imm" /\ Policy(name) = ImmediateC /\ check_imm8_range(t.n)

Accepted(line, rawHalt) ==
  LET name == Mnemonic(line, rawHalt)
  IN  /\ name \in Mnemonics
      /\ GoodRegister(Operand(line, 1))
      /\ GoodRegister(Operand(line, 2))
      /\ GoodC(name, Operand(line, 3))

(* The flag of an immediate is forgotten.                                  *)
F_Encode_drops_flag(line, rawHalt) ==
  LET c == Operand(line, 3)
  IN  Pack(opcode_from_name(Mnemonic(line, rawHalt)),
           Operand(line, 1).n, Operand(line, 2).n, 0, (c.n + Fields) % Fields)

(* The word of an accepted line.                                           *)
Encode(line, rawHalt) ==
  LET c == Operand(line, 3)
  IN  Pack(opcode_from_name(Mnemonic(line, rawHalt)),
           Operand(line, 1).n, Operand(line, 2).n,
           IF c.kind = "imm" THEN 1 ELSE 0, (c.n + Fields) % Fields)

(* The first line that is wrong (0 when none is), and the file that the    *)
(* lines before it make.                                                   *)
FirstWrongLine(source, rawHalt) ==
  SelectInSeq(source, LAMBDA line : ~Accepted(line, rawHalt))

Output(source, rawHalt) ==
  LET wrong == FirstWrongLine(source, rawHalt)
      n == IF wrong = 0 THEN Len(source) ELSE wrong - 1
  IN  [k \in 1 .. n |-> Encode(source[k], rawHalt)]
=============================================================================
