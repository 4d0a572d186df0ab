---------------------------- MODULE MCController ----------------------------
(***************************************************************************)
(* Instances of Controller for TLC.  Fields have 4 bits (16 registers,     *)
(* immediates -8 .. 7) and cells 2 bits, so a word is below 256; memory    *)
(* has 12 cells, and the program begins behind all immediate targets, as   *)
(* address 0x3000 is.  A counter has 4 values.                             *)
(*                                                                         *)
(* Each session is one question; registers get their values from           *)
(* immediates, and inputs that vary from the clock.  R15 stays 0.          *)
(***************************************************************************)
EXTENDS Controller

MCClock ==
  {[year |-> 2025, month |-> 12, day |-> 31, hour |-> 23, minute |-> m,
    second |-> s] : m, s \in 0 .. 1}

MCDirectories == {DefaultDir, "plc"}

(* One instruction with three registers, or two and an immediate.          *)
Reg3(name, a, b, c) == <<name, R(a), R(b), R(c)>>
Imm2(name, a, b, n) == <<name, R(a), R(b), Imm(n)>>
Short(name, a, b) == <<name, R(a), R(b)>>

(* r := v, digit by digit.                                                 *)
Set(r, v) ==
  <<Imm2("add", r, 15, v \div 64), Imm2("mul", r, r, 4),
    Imm2("add", r, r, (v \div 16) % 4), Imm2("mul", r, r, 4),
    Imm2("add", r, r, (v \div 4) % 4), Imm2("mul", r, r, 4),
    Imm2("add", r, r, v % 4)>>

(* R1 and R2 are inputs that may change with every scan.                   *)
Inputs == <<<<"second", R(1)>>, <<"minute", R(2)>>>>
Zero(r) == Imm2("add", r, 15, 0)

Session(name, source) ==
  [name |-> name, args |-> <<>>, source |-> source, rawHalt |-> FALSE,
   build |-> "prototype", tight |-> FALSE]

InBuild(s, copy) == [s EXCEPT !.build = copy]

-----------------------------------------------------------------------------
CountersSource ==
  Inputs \o
  <<Zero(3), Imm2("ctu", 3, 1, 2), Zero(4), Reg3("ctud", 4, 1, 2),
    Imm2("add", 5, 15, 1), Imm2("ctd", 5, 2, 1),
    Imm2("add", 6, 15, 7), Imm2("ctu", 6, 1, 1)>>

EdgesSource ==
  Inputs \o
  <<Imm2("rising_edge", 4, 1, 0), Imm2("falling_edge", 5, 1, 0),
    Imm2("edge_both", 6, 1, 0), Reg3("ne", 7, 1, 8), Imm2("add", 8, 1, 0)>>

(* The id in a register, and one out of range.                             *)
OddEdgesSource ==
  Inputs \o <<Zero(4), Reg3("rising_edge", 4, 1, 0), Imm2("edge_both", 5, 1, 7)>>

LatchesSource ==
  Inputs \o <<Reg3("rs_latch", 1, 1, 2), Reg3("sr_latch", 0, 1, 2),
              Reg3("rs_latch", 9, 1, 2), Imm2("sr_latch", 3, 2, 1)>>

TimersSource ==
  Inputs \o <<Imm2("ton", 3, 1, 0), Imm2("tof", 4, 1, 1), Imm2("tp", 5, 1, 0),
              Imm2("ton", 3, 1, 5), Reg3("ton", 3, 1, 0)>>

(* Every computation, on small operands and on the largest ones.           *)
Binary == <<"add", "sub", "mul", "div", "mod", "expt", "and", "or", "xor",
            "eq", "ne", "gt", "ge", "lt", "le", "add_time", "sub_time">>
Unary == <<"abs", "sqrt", "ln", "log", "exp", "sin", "cos", "tan", "asin",
           "acos", "atan", "not", "time", "date", "tod", "dt", "year", "month",
           "day", "hour", "minute", "second">>

BinarySource(n) ==
  Inputs \o <<Imm2("sub", 1, 1, 1)>> \o
  [k \in DOMAIN Binary |-> IF n = 0 THEN Reg3(Binary[k], 3, 1, 2)
                                    ELSE Imm2(Binary[k], 3, 1, n)]
UnarySource(v) ==
  Set(1, v) \o [k \in DOMAIN Unary |-> Short(Unary[k], 3, 1)]

SelectSource ==
  Inputs \o
  <<Imm2("add", 3, 15, 7), Imm2("demux", 3, 15, 0), Imm2("demux", 1, 15, 1),
    Imm2("demux", 3, 15, 2), Imm2("demux", 3, 15, 3), Imm2("mux", 4, 15, 1),
    Imm2("mux", 4, 15, -1), Reg3("sel", 4, 1, 15), Reg3("sel", 4, 2, 3),
    Imm2("add", 5, 3, 3), Reg3("sel", 4, 2, 5), Imm2("len", 6, 15, 0),
    Imm2("limit", 3, 1, 5), Imm2("limit", 3, 3, 0)>>

(* A jump into the module needs a register; an immediate target leaves it. *)
JumpsSource ==
  Inputs \o Set(3, PcStart + 18) \o Set(4, PcStart + 20) \o
  <<Reg3("jmp_if", 0, 3, 1), Reg3("jmp_if_not", 0, 4, 2), <<"nop">>, <<"halt">>,
    Imm2("jmp", 0, 0, 3)>>

(* Back to the line before the jump, for ever, or to the jump itself.      *)
LoopSource(back) ==
  Set(3, PcStart + 8 - back) \o <<<<"nop">>, <<"jmp", R(0), R(3)>>, <<"nop">>>>

ExitSource == Inputs \o <<Imm2("exit", 3, 0, 5), <<"nop">>>>

(* One line that the assembler refuses, after one that it takes.           *)
WrongLines ==
  {<<"move", R(1), R(2)>>, Reg3("add", 16, 0, 0), Reg3("add", 0, 16, 0),
   Reg3("add", 0, 0, 16), Imm2("add", 0, 0, 8), Imm2("add", 0, 0, -9),
   Imm2("sel", 0, 0, 1), Imm2("not", 0, 0, 1), <<"add", Imm(1)>>,
   <<"add", R(0), R(0), [kind |-> "text", n |-> 0]>>}

-----------------------------------------------------------------------------
(* Strings: a text of up to three characters and one to read, each at an   *)
(* address of its own: with room for seven, with room for three at the end *)
(* of memory, close together, and one within the other.  The word in the   *)
(* middle holds no zero before they are written.                           *)
Layouts == {<<0, 8>>, <<8, 0>>, <<0, 4>>, <<0, 1>>}
Texts == {0, 1, 1 + 4 * 2, 1 + 4 * 2 + 16 * 3}
Others == {0, 3, 3 + 4 * 3}

StringSource(text, other, dest, src, lines) ==
  Set(5, text) \o Set(6, other) \o
  <<Short("not", 7, 15), Imm2("demux", 7, 15, 1),
    Imm2("add", 1, 15, 4), Imm2("add", 1, 1, dest - 4),
    Imm2("add", 2, 15, 4), Imm2("add", 2, 2, src - 4),
    Imm2("demux", 5, 1, 0), Imm2("demux", 6, 2, 0)>> \o lines

(* R1 holds the destination and R2 the source.                             *)
StringLines ==
  {<<Reg3("concat", 0, 1, 2)>>, <<Reg3("concat", 0, 1, 1)>>} \cup
  {<<Imm2(op, 0, 1, n)>> : op \in {"left", "right", "mid"}, n \in 0 .. 3} \cup
  {<<Imm2(op, 1, 2, n)>> : op \in {"insert", "replace"}, n \in 0 .. 3} \cup
  {<<Imm2("add", 3, 15, p), Imm2("delete", 1, 3, n)>> : p \in 0 .. 3, n \in 1 .. 2}

StringSessions ==
  {Session("strings", StringSource(t, u, at[1], at[2], lines \o <<<<"exit">>>>)) :
     t \in Texts, u \in Others, at \in Layouts, lines \in StringLines}

-----------------------------------------------------------------------------
Arg(name, value) == [name |-> name, value |-> value]

ArgumentLists ==
  {<<Arg("clock_rate_hz", 0)>>, <<Arg("clock_rate_hz", -1), Arg("help", 1)>>,
   <<Arg("help", 1), Arg("clock_rate_hz", -1)>>,
   <<Arg("program_dir", "plc"), Arg("cycle_time_ms", 5), Arg("cycle_time_ms", 7)>>,
   <<Arg("program_dir", "plc"), Arg("cycle_time_ms", 0)>>,
   <<Arg("program_dir", "nowhere")>>, <<Arg("program_dir", "")>>,
   <<Arg("program_dir", "plc"), Arg("program_dir", "plc")>>,
   <<Arg("enable_hash_check", TRUE), Arg("program_dir", "plc"),
     Arg("enable_cycle_check", FALSE), Arg("enable_hash_check", FALSE),
     Arg("enable_tick_timing", TRUE)>>,
   <<Arg("hash_algo", FNV1A)>>, <<Arg("hash_algo", "md5")>>, <<Arg("verbose", 1)>>}

MCSessions ==
  {Session("counters", CountersSource), Session("edges", EdgesSource),
   InBuild(Session("edges", EdgesSource), "legacy"),
   Session("edges by register", OddEdgesSource),
   Session("latches", LatchesSource),
   InBuild(Session("latches", LatchesSource), "legacy"),
   Session("timers", TimersSource), Session("select", SelectSource),
   Session("jumps", JumpsSource),
   [Session("jumps", JumpsSource) EXCEPT !.rawHalt = TRUE],
   Session("exit", ExitSource), InBuild(Session("exit", ExitSource), "legacy"),
   [Session("tight", CountersSource) EXCEPT !.tight = TRUE]} \cup
  {Session("loop", LoopSource(back)) : back \in 0 .. 1} \cup
  {Session("binary", BinarySource(n)) : n \in {-1, 0, 3}} \cup
  {Session("unary", UnarySource(v)) : v \in {0, 1, 5, 120, 255}} \cup
  {Session("wrong line", <<<<"nop">>, line, <<"nop">>>>) : line \in WrongLines} \cup
  {[Session("arguments", <<<<"exit">>>>) EXCEPT !.args = args] :
     args \in ArgumentLists} \cup
  StringSessions
=============================================================================
