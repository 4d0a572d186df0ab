----------------------------- MODULE ScanCycle -----------------------------
(***************************************************************************)
(* The scan cycle of the virtual machine (prototype-integrator: the loop   *)
(* run_program of src/vm_runtime.c with vm_run_module and                  *)
(* vm_run_instruction, the decode cache of src/vm_tables.c, the control    *)
(* instructions of src/funcs.c, the stop flags of src/cleanup.c and        *)
(* src/main.c, and vm_reset of src/vm_lifecycle.c).                        *)
(*                                                                         *)
(* Every scan gives control to each module in turn.  A module runs until   *)
(* it leaves its addresses, fetches a zero word, fails to decode, stops    *)
(* itself, or has executed MaxInstructions.  Signals and vm_request_stop   *)
(* may come at any instant.                                                *)
(*                                                                         *)
(* Memory is a sequence of words.  A word is an operation with one         *)
(* argument, which stands for the operand fields of the instruction: the   *)
(* target of a jump, the address that DEMUX writes, the exit code.  The    *)
(* register bank is one number; the checksum of the registers tells its    *)
(* values apart.  What becomes of time and of the timers in a scan is the  *)
(* subject of IecTimers; where a new program comes from, of HotReload.     *)
(*                                                                         *)
(* Definitions named F_... are faulty variants of the definition after     *)
(* them; they are not part of the specification and serve to show which    *)
(* property detects them.                                                  *)
(***************************************************************************)
EXTENDS Naturals, Sequences

CONSTANTS
  MemWords,        (* words of memory                                      *)
  RegValues,       (* values of the register bank, 0 .. RegValues - 1      *)
  Args,            (* arguments of an instruction                          *)
  Images,          (* programs                                             *)
  Sites,           (* the programs that one directory may hold in turn     *)
  MaxInstructions  (* MAX_INSTRUCTIONS, per module and scan                *)

Ops == {"zero", "add", "demux", "jmp", "jmp_if", "exit", "halt", "nop", "bad"}
Word == [op : Ops, arg : Args]
Address == 0 .. MemWords - 1
Registers == 0 .. RegValues - 1

(* load_programs lays modules out within memory.                           *)
Module == {m \in [addr : Address, size : 0 .. MemWords] :
             m.addr + m.size <= MemWords}

(* The word of all zero bits; the word that holds the number 1 is an add.  *)
Zero == [op |-> "zero", arg |-> 0]
WordOf(n) == IF n = 0 THEN Zero ELSE [op |-> "add", arg |-> 0]

ASSUME SizeAssumption == /\ MemWords \in Nat \ {0}
                         /\ RegValues \in Nat \ {0}
                         /\ MaxInstructions \in Nat \ {0}
ASSUME ArgsAssumption == Args \subseteq Nat /\ 0 \in Args
ASSUME ImagesAssumption ==
  Images \subseteq [code : Seq(Word), modules : Seq(Module)]
ASSUME SitesAssumption == Sites \subseteq SUBSET Images

VARIABLES
  site,        (* the programs that the directory holds in turn            *)
  mem,         (* vm->mem                                                  *)
  modules,     (* vm->modules                                              *)
  cache,       (* vm->decoded_cache, by address                            *)
  reg,         (* vm->reg                                                  *)
  PC,          (* vm->PC, in words                                         *)
  running,     (* vm->running                                              *)
  exitCode,    (* vm->exit_code                                            *)
  globalStop,  (* vm_stop_requested                                        *)
  vmStop,      (* vm->stop_requested                                       *)
  cycle,       (* vm->cycle_count: none, the first, or a later one         *)
  prevHash,    (* vm->prev_cycle_hash                                      *)
  mismatch,    (* the last scan printed HASH MISMATCH                      *)
  pc,          (* where run_program is                                     *)
  idx,         (* mod_idx + 1                                              *)
  count,       (* instr_count of vm_run_module                             *)
  total,       (* total_instr_count of run_program                         *)
  startHash,   (* start_hash of run_program                                *)
  visited,     (* history: modules that got control in this scan           *)
  late,        (* history: scans begun since a stop was asked for          *)
  dirty        (* history: addresses written over after they were decoded  *)

data == <<site, mem, modules, cache, dirty, reg, exitCode>>
control == <<PC, running, idx, count, total, visited>>
stops == <<globalStop, vmStop>>
hashes == <<cycle, prevHash, mismatch, startHash, late>>
vars == <<data, control, stops, hashes, pc>>

NotCached == [op |-> "none", arg |-> 0]

(* A program is written over what memory held before.                      *)
Overwrite(code, n) ==
  [a \in Address |-> IF a < n THEN code[a + 1] ELSE mem[a]]

(* The words that a step writes over and that the cache holds.             *)
NoteWrites ==
  dirty' = dirty \cup {a \in Address : /\ mem'[a] # mem[a]
                                       /\ cache'[a] # NotCached}

-----------------------------------------------------------------------------
(* The first program is loaded and vm_tables_init made the cache.          *)
Init ==
  \E directory \in Sites : \E image \in directory :
    /\ site = directory /\ dirty = {}
    /\ mem = [a \in Address |-> IF a < Len(image.code) THEN image.code[a + 1]
                                                       ELSE Zero]
    /\ modules = image.modules
    /\ cache = [a \in Address |-> NotCached]
    /\ reg = 0 /\ PC = 0 /\ running = TRUE /\ exitCode = 0
    /\ globalStop = FALSE /\ vmStop = FALSE
    /\ cycle = 0 /\ prevHash = 0 /\ mismatch = FALSE
    /\ pc = "top" /\ idx = 1 /\ count = 0 /\ total = 0 /\ startHash = 0
    /\ visited = {} /\ late = 0

-----------------------------------------------------------------------------
(* Requests to stop.                                                       *)

(* vm_request_stop, which any part of the process may call.                *)
RequestStop ==
  /\ globalStop' = TRUE
  /\ UNCHANGED <<data, control, hashes, vmStop, pc>>

(* SIGINT and SIGTERM: the handler sets both flags.                        *)
Signal ==
  /\ globalStop' = TRUE /\ vmStop' = TRUE
  /\ UNCHANGED <<data, control, hashes, pc>>

-----------------------------------------------------------------------------
(* The top of the cycle.                                                   *)

NoReload ==
  /\ pc = "top"
  /\ pc' = "flag"
  /\ UNCHANGED <<data, control, stops, hashes>>

Reload(image) ==
  /\ pc = "top"
  /\ mem' = Overwrite(image.code, Len(image.code))
  /\ modules' = image.modules
  /\ pc' = "flag"
  /\ UNCHANGED <<site, cache, reg, exitCode, control, stops, hashes>>
  /\ NoteWrites

(* Some files are read before one fails.                                   *)
ReloadFails(image) ==
  /\ pc = "top"
  /\ \E n \in 0 .. Len(image.code) : mem' = Overwrite(image.code, n)
  /\ modules' = <<>>
  /\ pc' = "flag"
  /\ UNCHANGED <<site, cache, reg, exitCode, control, stops, hashes>>
  /\ NoteWrites

(* The global flag is not passed on.                                       *)
F_ReadGlobalStop_ignored ==
  /\ pc = "flag"
  /\ pc' = "check"
  /\ UNCHANGED <<data, control, stops, hashes>>

ReadGlobalStop ==
  /\ pc = "flag"
  /\ vmStop' = (vmStop \/ globalStop)
  /\ pc' = "check"
  /\ UNCHANGED <<data, control, globalStop, hashes>>

NextCycle == IF cycle = 0 THEN 1 ELSE 2

(* The cycle is counted before the flag is looked at.                      *)
Stop ==
  /\ pc = "check" /\ vmStop
  /\ cycle' = NextCycle
  /\ pc' = "done"
  /\ UNCHANGED <<data, control, stops, prevHash, mismatch, startHash, late>>

BeginScan ==
  /\ pc = "check" /\ ~vmStop
  /\ cycle' = NextCycle
  /\ startHash' = reg
  /\ prevHash' = IF NextCycle = 1 THEN reg ELSE prevHash
  /\ idx' = 1 /\ total' = 0 /\ visited' = {}
  /\ late' = IF globalStop THEN late + 1 ELSE late
  /\ pc' = "modules"
  /\ UNCHANGED <<data, stops, PC, running, count, mismatch>>

-----------------------------------------------------------------------------
(* vm_run_module.                                                          *)

(* A module that stopped itself stops those after it.                      *)
F_EnterModule_keeps_running ==
  /\ pc = "modules" /\ idx \in DOMAIN modules
  /\ PC' = modules[idx].addr
  /\ count' = 0
  /\ pc' = "run"
  /\ UNCHANGED <<data, stops, hashes, running, idx, total, visited>>

EnterModule ==
  /\ pc = "modules" /\ idx \in DOMAIN modules
  /\ running' = TRUE
  /\ PC' = modules[idx].addr
  /\ count' = 0
  /\ pc' = "run"
  /\ UNCHANGED <<data, stops, hashes, idx, total, visited>>

AllModulesRan ==
  /\ pc = "modules" /\ idx \notin DOMAIN modules
  /\ pc' = "end"
  /\ UNCHANGED <<data, control, stops, hashes>>

(* Off by one.                                                             *)
F_MayRun_once_more == running /\ count <= MaxInstructions

(* The condition of the loop over instructions.                            *)
MayRun == running /\ count < MaxInstructions

InModule == /\ PC >= modules[idx].addr
            /\ PC < modules[idx].addr + modules[idx].size

LeaveModule ==
  /\ pc' = "modules"
  /\ idx' = idx + 1
  /\ UNCHANGED <<stops, hashes, PC, count, total>>

(* The loop ends without a look at another instruction.                    *)
RunEnds ==
  /\ pc = "run" /\ ~MayRun
  /\ LeaveModule
  /\ UNCHANGED <<data, running, visited>>

(* The end of the module, by its address or by a zero word.                *)
ModuleCompleted ==
  /\ pc = "run" /\ MayRun
  /\ InModule => mem[PC].op = "zero"
  /\ visited' = visited \cup {idx}
  /\ LeaveModule
  /\ UNCHANGED <<data, running>>

(* A fetch that goes on to the decoder.                                    *)
Fetch == /\ pc = "run" /\ MayRun
         /\ InModule /\ mem[PC].op # "zero"
         /\ visited' = visited \cup {idx}

Decoded == IF cache[PC] = NotCached THEN mem[PC] ELSE cache[PC]

(* The key is the address within the module.                               *)
F_Decode_by_offset ==
  cache' = [cache EXCEPT ![PC - modules[idx].addr] = Decoded]

(* decode_instruction_cached: an entry, once made, is never made again;    *)
(* the table may have no room for a new one.                               *)
Decode == cache' \in {cache, [cache EXCEPT ![PC] = Decoded]}

(* No memory for a new entry.                                              *)
DecodeFails ==
  /\ Fetch
  /\ cache[PC] = NotCached
  /\ running' = FALSE
  /\ LeaveModule
  /\ UNCHANGED data

InvalidOpcode ==
  /\ Fetch
  /\ Decode
  /\ mem[PC].op = "bad"
  /\ running' = FALSE
  /\ LeaveModule
  /\ UNCHANGED <<site, mem, modules, dirty, reg, exitCode>>

-----------------------------------------------------------------------------
(* vm_run_instruction.                                                     *)

(* The operation comes from memory, its arguments from the cache.          *)
Arg == Decoded.arg

Dispatch(op) == Fetch /\ Decode /\ mem[PC].op = op

(* The instructions are not counted.                                       *)
F_Completes_uncounted(next) ==
  /\ PC' = IF next = PC THEN PC + 1 ELSE next
  /\ UNCHANGED <<site, modules, globalStop, hashes, pc, idx, count, total>>

(* A handler that leaves PC alone, or jumps to itself, is stepped over.    *)
Completes(next) ==
  /\ PC' = IF next = PC THEN PC + 1 ELSE next
  /\ count' = count + 1 /\ total' = total + 1
  /\ UNCHANGED <<site, modules, globalStop, hashes, pc, idx>>

(* A sum that is not cut to the width of a register.                       *)
F_Add_carries ==
  /\ Dispatch("add")
  /\ reg' = reg + 1
  /\ Completes(PC)
  /\ UNCHANGED <<mem, dirty, exitCode, running, vmStop>>

Add ==
  /\ Dispatch("add")
  /\ reg' = (reg + 1) % RegValues
  /\ Completes(PC)
  /\ UNCHANGED <<mem, dirty, exitCode, running, vmStop>>

(* A write out of memory is left out.                                      *)
Demux ==
  /\ Dispatch("demux")
  /\ mem' = IF Arg \in Address THEN [mem EXCEPT ![Arg] = WordOf(reg)] ELSE mem
  /\ Completes(PC)
  /\ NoteWrites
  /\ UNCHANGED <<reg, exitCode, running, vmStop>>

Jump ==
  /\ Dispatch("jmp")
  /\ Completes(Arg)
  /\ UNCHANGED <<mem, dirty, reg, exitCode, running, vmStop>>

JumpIf ==
  /\ Dispatch("jmp_if")
  /\ Completes(IF reg # 0 THEN Arg ELSE PC)
  /\ UNCHANGED <<mem, dirty, reg, exitCode, running, vmStop>>

Nop ==
  /\ Dispatch("nop")
  /\ Completes(PC)
  /\ UNCHANGED <<mem, dirty, reg, exitCode, running, vmStop>>

Halt ==
  /\ Dispatch("halt")
  /\ running' = FALSE /\ vmStop' = TRUE
  /\ Completes(PC)
  /\ UNCHANGED <<mem, dirty, reg, exitCode>>

Exit ==
  /\ Dispatch("exit")
  /\ exitCode' = Arg
  /\ running' = FALSE /\ vmStop' = TRUE
  /\ Completes(PC)
  /\ UNCHANGED <<mem, dirty, reg>>

Execute == Add \/ Demux \/ Jump \/ JumpIf \/ Nop \/ Halt \/ Exit

-----------------------------------------------------------------------------
(* The checksum of the first scan remains the one to compare with.         *)
F_EndScan_keeps_hash ==
  /\ pc = "end"
  /\ mismatch' = (cycle > 1 /\ reg # prevHash)
  /\ pc' = "top"
  /\ UNCHANGED <<data, control, stops, cycle, prevHash, startHash, late>>

(* The checksum at the end is compared with the one at the end of the scan *)
(* before.                                                                 *)
EndScan ==
  /\ pc = "end"
  /\ mismatch' = (cycle > 1 /\ reg # prevHash)
  /\ prevHash' = reg
  /\ pc' = "top"
  /\ UNCHANGED <<data, control, stops, cycle, startHash, late>>

(* vm_reset and another run_program.  Memory, the modules, the cache and   *)
(* the global flag stay.                                                   *)
VmReset ==
  /\ pc = "done"
  /\ running' = TRUE /\ exitCode' = 0 /\ vmStop' = FALSE
  /\ cycle' = 0 /\ prevHash' = 0
  /\ PC' = 0 /\ reg' = 0
  /\ pc' = "top"
  /\ UNCHANGED <<site, mem, modules, cache, dirty, idx, count, total, visited, globalStop,
                 mismatch, startHash, late>>

-----------------------------------------------------------------------------
HostStep ==
  \/ NoReload \/ \E image \in site : Reload(image) \/ ReloadFails(image)
  \/ ReadGlobalStop \/ Stop \/ BeginScan
  \/ EnterModule \/ AllModulesRan \/ RunEnds \/ ModuleCompleted
  \/ DecodeFails \/ InvalidOpcode \/ Execute
  \/ EndScan

Next == HostStep \/ RequestStop \/ Signal \/ VmReset

Spec == Init /\ [][Next]_vars

(* run_program is a loop that waits for nobody: sleeping to the end of the *)
(* cycle and reading the directory take bounded time.                      *)
FairSpec == Spec /\ WF_vars(HostStep)

-----------------------------------------------------------------------------
(* Properties.                                                             *)

Where == {"top", "flag", "check", "modules", "run", "end", "done"}

(* Every value stays within its type: registers wrap, the counters of a    *)
(* module and of a scan stay natural, PC may leave memory only upwards.    *)
TypeOK ==
  /\ mem \in [Address -> Word] /\ modules \in Seq(Module)
  /\ cache \in [Address -> Word \cup {NotCached}]
  /\ reg \in Registers /\ PC \in Nat /\ exitCode \in Args
  /\ running \in BOOLEAN /\ globalStop \in BOOLEAN /\ vmStop \in BOOLEAN
  /\ cycle \in 0 .. 2 /\ mismatch \in BOOLEAN
  /\ prevHash \in Registers /\ startHash \in Registers
  /\ pc \in Where /\ idx \in Nat /\ count \in Nat /\ total \in Nat
  /\ visited \subseteq Nat /\ late \in Nat
  /\ site \subseteq Images /\ dirty \subseteq Address

(* run_program: whatever the modules do, loop for ever included, a request *)
(* to stop, from outside or by HALT or EXIT, ends the run.                 *)
StopEndsRun == (globalStop \/ vmStop) ~> (pc = "done")

(* run_program, the two flags: a request that comes between the reading of *)
(* the global flag and the check lets one more scan begin, never two.      *)
OneScanAfterStop == late <= 1

(* vm_run_module sets running and PC: no module keeps those after it from  *)
(* getting control in the same scan, nor one scan the next.                *)
NoModuleStarves == pc = "end" => visited = DOMAIN modules

(* MAX_INSTRUCTIONS bounds what one scan executes, for the number of       *)
(* modules in the table.                                                   *)
ScanIsBounded ==
  pc \in {"modules", "run", "end"} => total <= MaxInstructions * Len(modules)

(* Modules share a scan: none is left out and none takes the time of       *)
(* another, whatever they execute.                                         *)
ScanIsShared == NoModuleStarves /\ ScanIsBounded

(* prev_cycle_hash: the message HASH MISMATCH comes at the end of a scan   *)
(* if and only if that scan, not the first, changed the registers.         *)
MismatchMeansChange ==
  [][pc = "end" /\ pc' = "top" =>
       (mismatch' <=> cycle > 1 /\ reg # startHash)]_vars

(* vm_run_instruction and decode_instruction_cached: the handler, chosen   *)
(* by the word in memory, gets the arguments of that word, in whichever    *)
(* module and scan it was first decoded, unless the word was written over  *)
(* since by an instruction, a reload or a part of one.                     *)
OperandsMatch ==
  [][Execute /\ PC \notin dirty => Arg = mem[PC].arg]_vars

(* "The instruction cache must be invalidated when memory changes" say the *)
(* documents: the handler gets the instruction that is in memory at PC.    *)
ExecutedIsFetched == [][Execute => Arg = mem[PC].arg]_vars
=============================================================================
