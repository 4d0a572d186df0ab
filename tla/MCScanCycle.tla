---------------------------- MODULE MCScanCycle ----------------------------
(***************************************************************************)
(* Instances of ScanCycle for TLC: programs of two modules, of one to      *)
(* three words each, and a word of data behind them.                       *)
(***************************************************************************)
EXTENDS ScanCycle

MCArgs == 0 .. 5

I(op, arg) == [op |-> op, arg |-> arg]

(* The second module starts behind the words of the first.                 *)
Program(first, second) ==
  [code |-> first \o second,
   modules |-> << [addr |-> 0, size |-> Len(first)],
                  [addr |-> Len(first), size |-> Len(second)] >>]

Looping == Program(<<I("add", 0), I("jmp", 0)>>,
                   <<I("demux", 5), I("jmp_if", 2), I("zero", 0)>>)
Exiting == Program(<<I("nop", 0), I("jmp_if", 4)>>,
                   <<I("add", 0), I("jmp_if", 2), I("exit", 1)>>)
Halting == Program(<<I("halt", 0), I("nop", 0)>>,
                   <<I("jmp", 2), I("jmp_if", 4), I("add", 0)>>)
Broken == Program(<<I("bad", 0), I("nop", 0)>>,
                  <<I("add", 0), I("jmp", 5), I("nop", 0)>>)

(* A write over the target of a jump that was executed before.             *)
Patching == Program(<<I("jmp", 2), I("nop", 0)>>, <<I("demux", 0)>>)
Jumping == Program(<<I("jmp", 1), I("nop", 0)>>, <<I("nop", 0)>>)

(* Two programs of three words, of which one never stops by itself.        *)
Spinning == Program(<<I("add", 0), I("jmp", 0)>>, <<I("nop", 0)>>)
Quitting == Program(<<I("nop", 0)>>, <<I("exit", 1), I("nop", 0)>>)

Programs == {Looping, Exiting, Halting, Broken, Patching, Jumping, Spinning,
             Quitting}

OnlyPatching == {{Patching, Jumping}}
Directories == OnlyPatching \cup
  {{Looping}, {Exiting}, {Halting}, {Broken}, {Spinning, Quitting}}
=============================================================================
