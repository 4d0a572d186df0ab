------------------------------- MODULE Words -------------------------------
(***************************************************************************)
(* The instruction word and the data word of the virtual machine, and the  *)
(* three tables that give an opcode its meaning (the macros of funcs.h,    *)
(* the accessors of main.h, and the tables of vm_lifecycle.c, converter.c  *)
(* and debug.c).                                                           *)
(*                                                                         *)
(* The code has fields of 8 bits and words of four cells of 8 bits; both   *)
(* widths are parameters here.  A negative number is its two's complement. *)
(***************************************************************************)
EXTENDS Integers, Sequences

CONSTANTS
  FieldBits,   (* bits of the fields A, B and C of an instruction: 8       *)
  CellBits,    (* bits of a cell of memory: 8                              *)
  MemBytes     (* VM_MEM_BYTES                                             *)

ASSUME WidthAssumption == /\ FieldBits \in Nat \ {0}
                          /\ CellBits \in Nat \ {0}
                          /\ MemBytes \in Nat \ {0}

Fields == 2 ^ FieldBits
Cells == 2 ^ CellBits
Words == Cells * Cells * Cells * Cells
Word == 0 .. Words - 1
Register == 0 .. Fields - 1

(* An address is a word.                                                   *)
ASSUME MemoryAssumption == MemBytes \in Word

-----------------------------------------------------------------------------
(* The fields of an instruction: opcode, A, B, immediate flag, C.          *)

Pack(op, a, b, fimm, c) == (((op * Fields + a) * Fields + b) * 2 + fimm) * Fields + c

OPC(i) == i \div (2 * Fields * Fields * Fields)
RA(i) == (i \div (2 * Fields * Fields)) % Fields
RB(i) == (i \div (2 * Fields)) % Fields
FIMM(i) == (i \div Fields) % 2 = 1
RC(i) == i % Fields
IMM8(i) == i % Fields

(* The immediate as a signed number, and that number as a word.            *)
Signed(n) == IF n >= Fields \div 2 THEN n - Fields ELSE n
SEXTIMM8(i) == (Signed(IMM8(i)) + Words) % Words

-----------------------------------------------------------------------------
(* Little-endian words in memory.                                          *)

vm_mr32(m, a) ==
  m[a] + Cells * (m[a + 1] + Cells * (m[a + 2] + Cells * m[a + 3]))

vm_mw32(m, a, v) ==
  LET bytes == <<v % Cells, (v \div Cells) % Cells, (v \div (Cells * Cells)) % Cells,
                 (v \div (Cells * Cells * Cells)) % Cells>>
  IN  [x \in DOMAIN m |-> IF x \in a .. a + 3 THEN bytes[x - a + 1] ELSE m[x]]

-----------------------------------------------------------------------------
(* What the machine executes for an opcode: default_op_ex.  The opcode is  *)
(* the position in the table, from 0.                                      *)
default_op_ex ==
  <<"add", "sub", "mul", "div", "mod", "expt", "abs", "sqrt", "ln", "log",
    "exp", "sin", "cos", "tan", "asin", "acos", "atan",
    "and", "or", "xor", "not", "eq", "ne", "gt", "ge", "lt", "le",
    "time", "date", "tod", "dt", "add_time", "sub_time",
    "year", "month", "day", "hour", "minute", "second",
    "len", "concat", "left", "right", "mid", "insert", "delete", "replace",
    "ton", "tof", "tp", "ctu", "ctd", "ctud", "limit", "sel", "mux",
    "rising_edge", "falling_edge", "edge_both", "rs_latch", "sr_latch",
    "demux", "jmp", "jmp_if", "jmp_if_not", "exit", "halt", "nop">>

OPCODE_COUNT == Len(default_op_ex)
Operation(i) == IF OPC(i) < OPCODE_COUNT THEN default_op_ex[OPC(i) + 1] ELSE "none"

(* What the log prints for an opcode: opcode_names.                        *)
opcode_names ==
  <<"add", "sub", "mul", "div", "mod", "expt", "abs", "sqrt", "ln", "log",
    "exp", "sin", "cos", "tan", "asin", "acos", "atan",
    "and", "or", "xor", "not", "eq", "ne", "gt", "ge", "lt", "le",
    "time", "date", "tod", "dt", "add_time", "sub_time",
    "year", "month", "day", "hour", "minute", "second",
    "len", "concat", "left", "right", "mid", "insert", "delete", "replace",
    "ton", "tof", "tp", "ctu", "ctd", "ctud", "limit", "sel", "mux",
    "rising_edge", "falling_edge", "edge_both", "rs_latch", "sr_latch",
    "demux", "jmp", "jmp_if", "jmp_if_not", "exit", "halt", "nop">>

opcode_name(op) == IF op >= OPCODE_COUNT THEN "unknown" ELSE opcode_names[op + 1]

(* An operand as the assembler reads it and the log prints it.             *)
R(n) == [kind |-> "reg", n |-> n]
Imm(n) == [kind |-> "imm", n |-> n]

(* A line of the log for an instruction: fprintf_inst.                     *)
fprintf_inst(i) ==
  <<opcode_name(OPC(i)), R(RA(i)), R(RB(i)),
    IF FIMM(i) THEN Imm(Signed(IMM8(i))) ELSE R(RC(i))>>
=============================================================================
