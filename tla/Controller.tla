----------------------------- MODULE Controller -----------------------------
(***************************************************************************)
(* The virtual machine as a process (prototype-integrator: src/main.c with *)
(* src/vm_helpers.c, src/vm_lifecycle.c, src/vm_tables.c, src/debug.c and  *)
(* the loop of src/vm_runtime.c): from the assembled program and the       *)
(* arguments of the command line to the exit of the process.               *)
(*                                                                         *)
(* A session is what the user brings: arguments, the source of the one     *)
(* module, how it is assembled, which copy of funcs.c the machine was      *)
(* built from, and whether memory for the decode cache may run out.  More  *)
(* modules, reloads and stale cache entries are the subject of ScanCycle   *)
(* and HotReload, the virtual clock of IecTimers.                          *)
(*                                                                         *)
(* Definitions named F_... are faulty variants of the definition after     *)
(* them; they serve to show which property detects them.                   *)
(***************************************************************************)
EXTENDS Assembler, Instructions, CommandLine

CONSTANTS
  Sessions,        (* what the user brings                                 *)
  Directories,     (* the paths that are directories                       *)
  PcStart,         (* vm->PC_START, in words                               *)
  MaxInstructions  (* MAX_INSTRUCTIONS                                     *)

ASSUME SessionsAssumption ==
  /\ \A s \in Sessions : /\ s.build \in Builds
                         /\ {s.tight, s.rawHalt} \subseteq BOOLEAN
                         /\ s.args \in Seq(ToSet(s.args))
                         /\ Len(s.source) \in Nat
                         /\ \A k \in 1 .. Len(s.source) : SourceLine(s.source[k])
  /\ PcStart \in Nat \ {0} /\ MaxInstructions \in Nat \ {0}

VARIABLES
  session,     (* what the user brought                                    *)
  phase,       (* where main and run_program are                           *)
  config,      (* vm->config                                               *)
  dir,         (* vm->program_dir                                          *)
  prog,        (* the module in memory                                     *)
  held,        (* what the process holds: memory, tables, the log file     *)
  count,       (* instr_count of vm_run_module                             *)
  globalStop,  (* vm_stop_requested                                        *)
  status       (* what main returns                                        *)

machine == <<reg, mem, PC, run, blocks>>
setting == <<session, config, dir, prog, status>>
vars == <<machine, setting, phase, held, count, globalStop>>

NoDir == "null"
DefaultDir == "build/programs"
Tables == {"labels", "breakpoints", "decoded"}
OfMachine == {"vm", "mem", "dir", "modules", "log"}

(* vm_state_init_registers; the earlier build gives two registers a value. *)
LegacyRegisters == [r \in Register |-> CASE r = 0 -> 5 [] r = 1 -> 3 [] OTHER -> 0]
vm_state_init_registers ==
  IF build = "legacy" THEN LegacyRegisters ELSE [r \in Register |-> 0]

(* The state that vm_create makes; before it there is none to speak of.    *)
Init ==
  /\ session \in Sessions
  /\ build = session.build
  /\ Cleared
  /\ reg = vm_state_init_registers
  /\ mem = [a \in 0 .. MemBytes - 1 |-> 0]
  /\ PC = 0 /\ running = TRUE /\ stop = FALSE /\ exitCode = 0
  /\ config = Defaults /\ dir = NoDir /\ prog = <<>>
  /\ phase = "create" /\ held = {} /\ count = 0
  /\ globalStop = FALSE /\ status = 0

-----------------------------------------------------------------------------
(* main, up to the run.                                                    *)

(* What vm_destroy frees.                                                  *)
Freed == held \ OfMachine

(* The directory is kept.                                                  *)
F_Leave_keeps_dir(s) ==
  /\ held' = held \ (OfMachine \ {"dir"})
  /\ phase' = "exited" /\ status' = s
  /\ UNCHANGED <<machine, session, config, dir, prog, count, globalStop>>

Leave(s) ==
  /\ held' = Freed
  /\ phase' = "exited" /\ status' = s
  /\ UNCHANGED <<machine, session, config, dir, prog, count, globalStop>>

CreateFails == phase = "create" /\ Leave(1)

Create ==
  /\ phase = "create"
  /\ held' = {"vm", "mem"} /\ phase' = "parse"
  /\ UNCHANGED <<machine, setting, count, globalStop>>

ParseEnds ==
  /\ phase = "parse" /\ vm_parse_cli(session.args) # 0
  /\ Leave(IF vm_parse_cli(session.args) = 1 THEN 0 ELSE 1)

Parse ==
  /\ phase = "parse" /\ vm_parse_cli(session.args) = 0
  /\ phase' = "apply"
  /\ UNCHANGED <<machine, setting, held, count, globalStop>>

DirGiven == "program_dir" \in DOMAIN Given(session.args)

(* strdup may fail; a value of 0 is refused.                               *)
ApplyFails ==
  /\ phase = "apply"
  /\ DirGiven \/ ~Applicable(Given(session.args))
  /\ Leave(1)

Apply ==
  /\ phase = "apply" /\ Applicable(Given(session.args))
  /\ config' = Applied(config, Given(session.args))
  /\ dir' = IF DirGiven THEN Given(session.args).program_dir ELSE NoDir
  /\ held' = held \cup {x \in {"dir"} : DirGiven}
  /\ phase' = "directory"
  /\ UNCHANGED <<machine, session, prog, status, count, globalStop>>

DirectoryFails == phase = "directory" /\ "dir" \notin held /\ Leave(1)

Directory ==
  /\ phase = "directory"
  /\ dir' = IF "dir" \in held THEN dir ELSE DefaultDir
  /\ held' = held \cup {"dir"}
  /\ phase' = "validate"
  /\ UNCHANGED <<machine, session, config, prog, status, count, globalStop>>

ValidateFails ==
  /\ phase = "validate" /\ ~vm_validate_config(config, dir, Directories)
  /\ Leave(1)

Validate ==
  /\ phase = "validate" /\ vm_validate_config(config, dir, Directories)
  /\ phase' = "load"
  /\ UNCHANGED <<machine, setting, held, count, globalStop>>

LoadFails == phase = "load" /\ Leave(1)

(* The module is the output of the assembler, also of one that stopped at  *)
(* a wrong line.                                                           *)
Load ==
  /\ phase = "load"
  /\ prog' = Output(session.source, session.rawHalt)
  /\ held' = held \cup {"modules"}
  /\ phase' = "tables"
  /\ UNCHANGED <<machine, session, config, dir, status, count, globalStop>>

(* A table that cannot be made takes those before it along, and main goes  *)
(* on without.                                                             *)
vm_tables_init ==
  /\ phase = "tables"
  /\ held' \in {held, held \cup Tables}
  /\ phase' = "start"
  /\ UNCHANGED <<machine, setting, count, globalStop>>

-----------------------------------------------------------------------------
(* run_program.                                                            *)

(* init_logging may fail to open its file.  The algorithm that was asked   *)
(* for is overridden.                                                      *)
StartRun ==
  /\ phase = "start"
  /\ held' \in {held, held \cup {"log"}}
  /\ config' = [config EXCEPT !.hash_algo = CRC32]
  /\ phase' = "cycle"
  /\ UNCHANGED <<machine, session, dir, prog, status, count, globalStop>>

Stopped == stop \/ globalStop

(* close_logging.                                                          *)
StopRun ==
  /\ phase = "cycle" /\ Stopped
  /\ stop' = TRUE
  /\ held' = held \ {"log"}
  /\ phase' = "ran"
  /\ UNCHANGED <<reg, mem, PC, running, exitCode, blocks, setting, count,
                 globalStop>>

BeginScan ==
  /\ phase = "cycle" /\ ~Stopped
  /\ running' = TRUE /\ PC' = PcStart /\ count' = 0
  /\ phase' = "module"
  /\ UNCHANGED <<reg, mem, stop, exitCode, blocks, setting, held, globalStop>>

EndScan ==
  /\ phase' = "cycle"
  /\ UNCHANGED <<reg, mem, PC, stop, exitCode, blocks, setting, count, globalStop>>

MayRun == phase = "module" /\ running /\ count < MaxInstructions
InModule == PC \in PcStart .. PcStart + Len(prog) - 1
Current == prog[PC - PcStart + 1]
HasInstruction == MayRun /\ InModule /\ Current # 0

ModuleEnds ==
  /\ phase = "module" /\ ~HasInstruction
  /\ EndScan
  /\ UNCHANGED <<running, held>>

(* No cache, or no memory for an entry.                                    *)
DecodeFails ==
  /\ HasInstruction
  /\ "decoded" \notin held \/ session.tight
  /\ running' = FALSE
  /\ EndScan
  /\ UNCHANGED held

RunInstruction ==
  /\ HasInstruction /\ "decoded" \in held
  /\ Execute(Current)
  /\ count' = count + 1
  /\ held' = held \cup {"entries"}
  /\ UNCHANGED <<setting, phase, globalStop>>

Signal ==
  /\ phase \in {"tables", "start", "cycle", "module", "ran"}
  /\ stop' = TRUE /\ globalStop' = TRUE
  /\ UNCHANGED <<reg, mem, PC, running, exitCode, blocks, setting, phase, held,
                 count>>

-----------------------------------------------------------------------------
(* The later copy forgets the inputs of the counters.                      *)
F_vm_state_clear_iec_state_keeps_inputs ==
  /\ counter' = [k \in Counters |-> [id \in Ids |-> 0]]
  /\ latch' = [k \in Latches |-> [id \in Ids |-> FALSE]]
  /\ prev' = [s \in Signals |-> IF s \in {"ctu", "ctd", "up", "down"}
                                THEN prev[s] ELSE [id \in Ids |-> FALSE]]

vm_state_clear_iec_state ==
  /\ counter' = [k \in Counters |-> [id \in Ids |-> 0]]
  /\ latch' = [k \in Latches |-> [id \in Ids |-> FALSE]]
  /\ prev' = [s \in Signals |-> [id \in Ids |-> FALSE]]

(* vm_reset, and run_program once more, by a host that keeps the machine.  *)
vm_reset ==
  /\ phase = "ran"
  /\ running' = TRUE /\ stop' = FALSE /\ exitCode' = 0
  /\ PC' = PcStart
  /\ reg' = vm_state_init_registers
  /\ vm_state_clear_iec_state /\ UNCHANGED build
  /\ phase' = "start"
  /\ UNCHANGED <<mem, setting, held, count, globalStop>>

(* vm_tables_destroy and vm_destroy.  The entries of the decode cache are  *)
(* not the table's to free.                                                *)
TearDown ==
  /\ phase = "ran"
  /\ held' = Freed \ Tables
  /\ phase' = "exited" /\ status' = 0
  /\ UNCHANGED <<machine, session, config, dir, prog, count, globalStop>>

Exited == phase = "exited" /\ UNCHANGED vars

Next ==
  \/ CreateFails \/ Create \/ ParseEnds \/ Parse \/ ApplyFails \/ Apply
  \/ DirectoryFails \/ Directory \/ ValidateFails \/ Validate
  \/ LoadFails \/ Load \/ vm_tables_init
  \/ StartRun \/ StopRun \/ BeginScan \/ ModuleEnds \/ DecodeFails
  \/ RunInstruction \/ Signal \/ vm_reset \/ TearDown \/ Exited

Spec == Init /\ [][Next]_vars

-----------------------------------------------------------------------------
TypeOK ==
  /\ BlocksTypeOK
  /\ reg \in [Register -> Word]
  /\ mem \in [0 .. MemBytes - 1 -> 0 .. Cells - 1]
  /\ held \subseteq OfMachine \cup Tables \cup {"entries"}
  /\ config.hash_algo \in {CRC32, FNV1A}

(* The log and the handler agree with the source: what is printed for the  *)
(* instruction at PC is the line it was assembled from, with the operands  *)
(* left out as R0, and the table of handlers has the same operation and    *)
(* the same literal.  Four tables and two decoders keep in step.           *)
Line == session.source[PC - PcStart + 1]

LogShowsSource ==
  HasInstruction =>
    LET name == Mnemonic(Line, session.rawHalt)
        c == Operand(Line, 3)
    IN  /\ fprintf_inst(Current) = <<name, Operand(Line, 1), Operand(Line, 2), c>>
        /\ Operation(Current) = name
        /\ c.kind = "imm" => SEXTIMM8(Current) = Wrap(c.n)

(* A machine runs only on arguments that were all in order, with each      *)
(* option as it was given last, or its default, in a directory that exists *)
(* (the hash algorithm is overridden).                                     *)
GivenLast(name, v) ==
  \E k \in DOMAIN session.args :
    /\ session.args[k].name = name /\ session.args[k].value = v
    /\ \A j \in DOMAIN session.args : session.args[j].name = name => j <= k

NotGiven(name) == \A k \in DOMAIN session.args : session.args[k].name # name

AsAsked(name, v, default) == GivenLast(name, v) \/ (NotGiven(name) /\ v = default)

RunsAsAsked ==
  phase \in {"cycle", "module", "ran"} =>
    /\ \A name \in Switches \cup Numbers : AsAsked(name, config[name], Defaults[name])
    /\ \A name \in Numbers : config[name] \in Nat \ {0}
    /\ AsAsked("program_dir", dir, DefaultDir) /\ dir \in Directories
    /\ NotGiven("help")

(* On every way out of main all is released but the decoded instructions,  *)
(* which nobody frees.                                                     *)
ReleasedAtExit == phase = "exited" => held \subseteq {"entries"}

(* In a program that feeds a CTU and a CTUD from the same input, the CTUD, *)
(* which is also counted down, is never ahead: neither counts an edge the  *)
(* other misses, at the ends of the range either.                          *)
CountersAgree ==
  session.name = "counters" => counter["ctud"][0] <= counter["ctu"][0]

(* What that program does for it: whenever the up input that the CTUD has  *)
(* sampled changes, it becomes the one that the CTU has sampled before, in *)
(* every scan and, when both are forgotten, at a reset.                    *)
CtudFollowsCtu ==
  [][session.name = "counters" /\ prev'["up"][0] # prev["up"][0] =>
       prev'["up"][0] = prev'["ctu"][0]]_vars

(* Three detectors of one id, fed in one scan with the same input, agree   *)
(* at its end with each other and with the change of the input since the   *)
(* scan before.  In the earlier build the first detector of a scan hides   *)
(* the edge from the other two.                                            *)
EdgesAgree ==
  (session.name = "edges" /\ phase = "module" /\ PC = PcStart + Len(prog)) =>
    IF build = "prototype"
    THEN reg[6] = reg[4] + reg[5] /\ reg[6] = reg[7]
    ELSE reg[5] = 0 /\ reg[6] = 0 /\ reg[4] = Bit(reg[7] = 1 /\ reg[1] = 1)

(* The string that an instruction changes, and the one it reads.           *)
Destination(i) == IF Operation(i) \in {"insert", "delete", "replace"}
                  THEN reg[RA(i)] ELSE Bv(i)
Source(i) == IF Operation(i) = "concat" THEN Cv(i) ELSE Bv(i)
ReadsSource(i) == Operation(i) \in {"concat", "insert", "replace"}

Expected(i) ==
  LET t == TextAt(mem, Destination(i))
      u == TextAt(mem, Source(i))
      room == Room(mem, Destination(i))
      n == Cv_or_imm(i)
  IN  CASE Operation(i) = "concat" -> Joined(t, u, room)
        [] Operation(i) = "left" -> Take(t, n)
        [] Operation(i) = "right" -> Drop(t, Len(t) - Min({n, Len(t)}))
        [] Operation(i) = "mid" -> Drop(t, n)
        [] Operation(i) = "insert" -> Inserted(t, u, n, room)
        [] Operation(i) = "delete" -> Deleted(t, Bv(i), n)
        [] Operation(i) = "replace" -> Overwritten(t, u, n)

(* The bytes of a text of n characters at a, with its zero.                *)
Extent(a, n) == a .. a + n

Affected(i) ==
  Extent(Destination(i),
         Max({Len(Expected(i)), StrLen(mem, Destination(i))}))

WellFormed(i) ==
  /\ InMemory(Destination(i))
  /\ StrLen(mem, Destination(i)) < Remaining(Destination(i))
  /\ ReadsSource(i) =>
       /\ InMemory(Source(i))
       /\ Extent(Source(i), StrLen(mem, Source(i))) \cap Affected(i) = {}

(* On a string that ends within memory, with a source apart from it, each  *)
(* instruction leaves the text that its operation on texts gives, cut off  *)
(* where memory ends, and no other byte is touched.                        *)
StringsMatchReference ==
  [][\A i \in {prog[k] : k \in DOMAIN prog} :
       (/\ HasInstruction /\ i = Current
        /\ Operation(i) \in StringOps /\ WellFormed(i) /\ count' = count + 1) =>
       /\ TextAt(mem', Destination(i)) = Expected(i)
       /\ \A a \in DOMAIN mem \ Affected(i) : mem'[a] = mem[a]]_vars
=============================================================================
