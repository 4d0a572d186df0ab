---------------------------- MODULE CommandLine -----------------------------
(***************************************************************************)
(* Options of the virtual machine (prototype-integrator:                   *)
(* src/vm_helpers.c): parsing, applying to the configuration, validating.  *)
(*                                                                         *)
(* An argument is a name with a value: the pair --enable-x and --disable-x *)
(* is the name x with TRUE and FALSE, a word without dashes is the name    *)
(* program_dir, -h is help.  A number that parse_u32 does not take, or     *)
(* that is missing, is negative here.  getopt_long moves the words without *)
(* dashes behind the options.                                              *)
(***************************************************************************)
EXTENDS Integers, Sequences, SequencesExt

CRC32 == "crc32"
FNV1A == "fnv1a"

Switches == {"enable_cycle_check", "enable_hash_check", "enable_tick_timing"}
Numbers == {"clock_rate_hz", "cycle_time_ms"}
Options == Switches \cup Numbers \cup {"hash_algo"}

(* vm_state_init_common.                                                   *)
Defaults ==
  [clock_rate_hz |-> 100, cycle_time_ms |-> 1000, enable_cycle_check |-> TRUE,
   enable_hash_check |-> FALSE, enable_tick_timing |-> FALSE,
   hash_algo |-> CRC32]

-----------------------------------------------------------------------------
(* vm_parse_cli.                                                           *)

Malformed(arg) ==
  \/ arg.name \notin Options \cup {"program_dir", "help"}
  \/ arg.name \in Numbers /\ arg.value \notin Nat
  \/ arg.name = "hash_algo" /\ arg.value \notin {CRC32, FNV1A}

Ends(arg) == arg.name = "help" \/ Malformed(arg)
IsPositional(arg) == arg.name = "program_dir"

(* 0, 1 for help, -1 for an error.                                         *)
vm_parse_cli(args) ==
  LET k == SelectInSeq(args, Ends)
  IN  IF k # 0 THEN IF args[k].name = "help" THEN 1 ELSE -1
      ELSE IF Len(SelectSeq(args, IsPositional)) > 1 THEN -1 ELSE 0

(* The options that were given, each with the value given last.            *)
F_Given_first(args) ==
  [name \in {args[k].name : k \in DOMAIN args} |->
     args[SelectInSeq(args, LAMBDA arg : arg.name = name)].value]

Given(args) ==
  [name \in {args[k].name : k \in DOMAIN args} |->
     args[SelectLastInSeq(args, LAMBDA arg : arg.name = name)].value]

-----------------------------------------------------------------------------
(* vm_apply_cli_options: a rate or a cycle of 0 is refused only here.      *)
Applicable(opts) == \A name \in Numbers \cap DOMAIN opts : opts[name] # 0

Applied(config, opts) ==
  [name \in DOMAIN config |-> IF name \in DOMAIN opts THEN opts[name]
                                                      ELSE config[name]]

(* vm_validate_config; Directories are the paths that are directories.     *)
vm_validate_config(config, dir, Directories) ==
  /\ dir # "" /\ dir \in Directories
  /\ \A name \in Numbers : config[name] # 0
  /\ config.hash_algo \in {CRC32, FNV1A}
=============================================================================
