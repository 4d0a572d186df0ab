------------------------- MODULE Controller_proofs --------------------------
(***************************************************************************)
(* What holds of the machine as a process for every program, every command *)
(* line, every size of memory, fields and blocks, and either build: its    *)
(* function blocks behave as FunctionBlocks says, it releases what it      *)
(* holds, it runs with the settings it was asked for, its log shows its    *)
(* source, its words stay words, and its strings become what the           *)
(* operations on texts say.                                                *)
(***************************************************************************)
EXTENDS Controller, FunctionBlocks_proofs, Instructions_proofs

-----------------------------------------------------------------------------
(* Function blocks.                                                        *)

(* An instruction works on one block, or on none.                          *)
LEMMA CountWorks ==
  ASSUME NEW i, Count(i)
  PROVE  UNCHANGED blocks \/ \E id \in Ids : Work(id)
  <1> DEFINE id == reg[RA(i)]
  <1>1. CASE id \notin Ids
    BY <1>1 DEF Count
  <1>2. CASE id \in Ids
    <2>1. \/ Ctu(id, Bv(i) # 0)
          \/ Ctd(id, Bv(i) # 0)
          \/ Ctud(id, Bv(i) # 0, Cv(i) # 0)
      BY <1>2 DEF Count
    <2>2. (Bv(i) # 0) \in BOOLEAN /\ (Cv(i) # 0) \in BOOLEAN
      OBVIOUS
    <2>3. Work(id)
      BY <2>1, <2>2, Zenon DEF Work
    <2> QED
      BY <1>2, <2>3
  <1> QED
    BY <1>1, <1>2

LEMMA DetectEdgeWorks ==
  ASSUME NEW i, DetectEdge(i)
  PROVE  UNCHANGED blocks \/ \E id \in Ids : Work(id)
  <1> DEFINE id == IF FIMM(i) THEN IMM8(i) ELSE reg[RA(i)]
             kind == EdgeOps[Operation(i)]
  <1>1. Operation(i) \in DOMAIN EdgeOps
    BY DEF DetectEdge
  <1>2. kind \in EdgeKinds
    BY <1>1 DEF EdgeOps, EdgeKinds
  <1>3. CASE id \notin Ids
    BY <1>3 DEF DetectEdge
  <1>4. CASE id \in Ids
    <2>1. Edge(kind, id, Bv(i) # 0)
      BY <1>4 DEF DetectEdge
    <2>2. (Bv(i) # 0) \in BOOLEAN
      OBVIOUS
    <2>3. Work(id)
      BY <1>2, <2>1, <2>2, Zenon DEF Work
    <2> QED
      BY <1>4, <2>3
  <1> QED
    BY <1>3, <1>4

LEMMA SetLatchWorks ==
  ASSUME NEW i, SetLatch(i)
  PROVE  UNCHANGED blocks \/ \E id \in Ids : Work(id)
  <1> DEFINE id == LatchId(i)
  <1>1. CASE UNCHANGED blocks
    BY <1>1
  <1>2. CASE ~UNCHANGED blocks
    <2>1. /\ id \in Ids
          /\ RsLatch(id, Bv(i) # 0, Cv(i) # 0) \/ SrLatch(id, Bv(i) # 0, Cv(i) # 0)
      BY <1>2 DEF SetLatch
    <2>2. (Bv(i) # 0) \in BOOLEAN /\ (Cv(i) # 0) \in BOOLEAN
      OBVIOUS
    <2>3. Work(id)
      BY <2>1, <2>2, Zenon DEF Work
    <2> QED
      BY <2>1, <2>3
  <1> QED
    BY <1>1, <1>2

LEMMA ExecuteWorks ==
  ASSUME NEW i, Execute(i)
  PROVE  UNCHANGED blocks \/ \E id \in Ids : Work(id)
  <1>1. CASE Compute(i) \/ ReadClock(i) \/ Select(i) \/ Demux(i) \/ String(i) \/ Timer(i)
    BY <1>1 DEF Compute, ReadClock, Select, Demux, String, Timer
  <1>2. CASE Jump(i) \/ Nop(i) \/ Finish(i)
    BY <1>2 DEF Jump, Nop, Finish
  <1> QED
    BY <1>1, <1>2, CountWorks, DetectEdgeWorks, SetLatchWorks DEF Execute

(* main and run_program leave the blocks to the instructions and vm_reset. *)
LEMMA MainKeepsBlocks ==
  ASSUME Next, ~vm_reset, ~RunInstruction
  PROVE  UNCHANGED blocks
  <1>1. CASE CreateFails \/ ParseEnds \/ ApplyFails \/ DirectoryFails
             \/ ValidateFails \/ LoadFails
    BY <1>1 DEF CreateFails, ParseEnds, ApplyFails, DirectoryFails,
                ValidateFails, LoadFails, Leave, machine
  <1>2. CASE Create \/ Parse \/ Apply \/ Directory \/ Validate \/ Load
             \/ vm_tables_init \/ StartRun \/ TearDown \/ Exited
    BY <1>2 DEF Create, Parse, Apply, Directory, Validate, Load, vm_tables_init,
                StartRun, TearDown, Exited, vars, machine
  <1>3. CASE StopRun \/ BeginScan \/ ModuleEnds \/ DecodeFails \/ Signal
    BY <1>3 DEF StopRun, BeginScan, ModuleEnds, DecodeFails, EndScan, Signal
  <1> QED
    BY <1>1, <1>2, <1>3 DEF Next

LEMMA ResetClears == ASSUME vm_reset PROVE Clear
  BY DEF vm_reset, vm_state_clear_iec_state, Clear, Cleared

(* The machine implements the specification of its blocks, with vm_reset   *)
(* as the clearing step (funcs.c, vm_lifecycle.c).                         *)
THEOREM ImplementsBlocks == Spec => BlocksSpec
  <1>1. Init => BlocksInit
    <2> SUFFICES ASSUME Init PROVE BlocksInit
      OBVIOUS
    <2>1. session \in Sessions /\ build = session.build /\ Cleared
      BY DEF Init
    <2> QED
      BY <2>1, SessionsAssumption DEF BlocksInit
  <1>2. [Next]_vars => [BlocksNext]_blocks
    <2> SUFFICES ASSUME [Next]_vars PROVE BlocksNext \/ UNCHANGED blocks
      OBVIOUS
    <2>1. CASE UNCHANGED vars
      BY <2>1 DEF vars, machine
    <2>2. CASE RunInstruction
      BY <2>2, ExecuteWorks DEF RunInstruction, BlocksNext
    <2>3. CASE vm_reset
      BY <2>3, ResetClears DEF BlocksNext
    <2> QED
      BY <2>1, <2>2, <2>3, MainKeepsBlocks
  <1> QED
    BY <1>1, <1>2, PTL DEF Spec, BlocksSpec

(* No program that the machine runs makes a CTD count.                     *)
THEOREM CtdNeverCountsDown == Spec => []CtdNeverCounts
  BY ImplementsBlocks, CtdNeverMoves, PTL

(* What the user brought stays.                                            *)
LEMMA SessionStays == ASSUME [Next]_vars PROVE session' = session
  <1>1. CASE UNCHANGED vars
    BY <1>1 DEF vars, setting
  <1>2. CASE CreateFails \/ ParseEnds \/ ApplyFails \/ DirectoryFails
             \/ ValidateFails \/ LoadFails
    BY <1>2 DEF CreateFails, ParseEnds, ApplyFails, DirectoryFails,
                ValidateFails, LoadFails, Leave
  <1>3. CASE Create \/ Parse \/ Apply \/ Directory \/ Validate \/ Load
             \/ vm_tables_init \/ StartRun \/ TearDown \/ Exited
    BY <1>3 DEF Create, Parse, Apply, Directory, Validate, Load, vm_tables_init,
                StartRun, TearDown, Exited, vars, setting
  <1>4. CASE StopRun \/ BeginScan \/ ModuleEnds \/ DecodeFails \/ RunInstruction
             \/ Signal \/ vm_reset
    BY <1>4 DEF StopRun, BeginScan, ModuleEnds, DecodeFails, EndScan,
                RunInstruction, Signal, vm_reset, setting
  <1> QED
    BY <1>1, <1>2, <1>3, <1>4 DEF Next

(* The counters of the machine agree in every run of the program that      *)
(* feeds them alike: resets, signals and whatever its other instructions   *)
(* do to blocks do not come between them.                                  *)
THEOREM CountersStayTogether == Spec /\ CtudFollowsCtu => []CountersAgree
  <1> DEFINE Together == session.name = "counters" => Behind(0)
  <1>0. 0 \in Ids
    BY BlocksAssumption DEF Ids
  <1>1. Init => Together
    <2>1. Cleared => Behind(0)
      BY <1>0 DEF Cleared, Behind, Counters, Signals
    <2> QED
      BY <2>1 DEF Init
  <1>2. ASSUME Together, BlocksTypeOK, [Next]_vars, [BlocksNext]_blocks,
               [session.name = "counters" /\ prev'["up"][0] # prev["up"][0] =>
                  prev'["up"][0] = prev'["ctu"][0]]_vars
        PROVE  Together'
    <2> SUFFICES ASSUME session'.name = "counters" PROVE Behind(0)'
      OBVIOUS
    <2>1. session' = session
      BY <1>2, SessionStays
    <2>2. prev'["up"][0] # prev["up"][0] => prev'["up"][0] = prev'["ctu"][0]
      BY <1>2, <2>1 DEF vars, machine, blocks
    <2> QED
      BY <1>0, <1>2, <2>1, <2>2, BehindStep
  <1>3. Together => CountersAgree
    BY DEF Behind, CountersAgree
  <1> HIDE DEF Together
  <1> QED
    BY <1>1, <1>2, <1>3, ImplementsBlocks, BlocksTypeCorrect, PTL
       DEF Spec, BlocksSpec, CtudFollowsCtu

-----------------------------------------------------------------------------
(* What the process holds.                                                 *)

BeforeTables == {"create", "parse", "apply", "directory", "validate", "load",
                 "tables"}

HeldInv ==
  /\ held \subseteq OfMachine \cup Tables \cup {"entries"}
  /\ phase \in BeforeTables => held \subseteq OfMachine
  /\ phase = "exited" => held \subseteq {"entries"}

LEMMA HeldStep == ASSUME HeldInv, [Next]_vars PROVE HeldInv'
  <1> USE DEF HeldInv, BeforeTables, OfMachine, Tables
  <1>1. CASE UNCHANGED vars
    BY <1>1 DEF vars
  <1>2. CASE CreateFails \/ ParseEnds \/ ApplyFails \/ DirectoryFails
             \/ ValidateFails \/ LoadFails
    BY <1>2 DEF CreateFails, ParseEnds, ApplyFails, DirectoryFails,
                ValidateFails, LoadFails, Leave, Freed
  <1>3. CASE Create \/ Parse \/ Validate
    BY <1>3 DEF Create, Parse, Validate
  <1>4. CASE Apply \/ Directory \/ Load
    BY <1>4 DEF Apply, Directory, Load
  <1>5. CASE vm_tables_init \/ StartRun \/ StopRun
    BY <1>5 DEF vm_tables_init, StartRun, StopRun
  <1>6. CASE BeginScan \/ ModuleEnds \/ DecodeFails \/ RunInstruction
    BY <1>6 DEF BeginScan, ModuleEnds, DecodeFails, EndScan, RunInstruction,
                HasInstruction, MayRun
  <1>7. CASE Signal \/ vm_reset
    BY <1>7 DEF Signal, vm_reset
  <1>8. CASE TearDown \/ Exited
    BY <1>8 DEF TearDown, Freed, Exited, vars
  <1> QED
    BY <1>1, <1>2, <1>3, <1>4, <1>5, <1>6, <1>7, <1>8 DEF Next

(* Whichever step of main fails, and however often the machine was reset   *)
(* and run, nothing but the decoded instructions is left (main.c).         *)
THEOREM AllIsReleased == Spec => []ReleasedAtExit
  <1>1. Init => HeldInv
    BY DEF Init, HeldInv, OfMachine
  <1>2. HeldInv /\ [Next]_vars => HeldInv'
    BY HeldStep
  <1>3. HeldInv => ReleasedAtExit
    BY DEF HeldInv, ReleasedAtExit
  <1> QED
    BY <1>1, <1>2, <1>3, PTL DEF Spec

-----------------------------------------------------------------------------
(* The command line.                                                       *)

(* The greatest of a bounded set is as far from the bound as the least of  *)
(* the distances.                                                          *)
LEMMA MaxFacts ==
  ASSUME NEW n \in Nat, NEW S, S \subseteq 1 .. n, S # {}
  PROVE  Max(S) \in S /\ \A y \in S : Max(S) >= y
  <1> DEFINE distances == {n - x : x \in S}
  <1>1. distances \subseteq Nat /\ distances # {}
    <2>1. PICK x : x \in S
      OBVIOUS
    <2>2. n - x \in distances
      BY <2>1
    <2>3. ASSUME NEW y \in S PROVE n - y \in Nat
      OBVIOUS
    <2> QED
      BY <2>2, <2>3
  <1>2. Min(distances) \in distances /\ \A d \in distances : Min(distances) <= d
    BY <1>1, MinFacts
  <1>3. PICK x \in S : Min(distances) = n - x
    BY <1>2
  <1>4. ASSUME NEW y \in S PROVE x >= y
    <2>1. n - y \in distances
      OBVIOUS
    <2>2. n - x <= n - y
      BY <1>2, <1>3, <2>1
    <2> QED
      BY <2>2
  <1> QED
    BY <1>4 DEF Max

(* Arguments that are parsed are in order, each of them.                   *)
LEMMA ParsedFacts ==
  ASSUME NEW S, NEW args \in Seq(S), vm_parse_cli(args) = 0
  PROVE  \A k \in DOMAIN args : ~Ends(args[k])
  <1> DEFINE wrong == {k \in 1 .. Len(args) : Ends(args[k])}
  <1>1. Len(args) \in Nat /\ DOMAIN args = 1 .. Len(args)
    OBVIOUS
  <1>2. SelectInSeq(args, Ends) = IF wrong # {} THEN Min(wrong) ELSE 0
    BY DEF SelectInSeq
  <1>3. SelectInSeq(args, Ends) = 0
    BY DEF vm_parse_cli
  <1>4. CASE wrong # {}
    <2>1. wrong \subseteq Nat
      BY <1>1
    <2>2. Min(wrong) \in wrong
      BY <1>4, <2>1, MinFacts
    <2> QED
      BY <1>2, <1>3, <1>4, <2>2, <1>1
  <1> QED
    BY <1>1, <1>4

(* An option that is given has the value it is given last.                 *)
LEMMA GivenFacts ==
  ASSUME NEW S, NEW args \in Seq(S), NEW name
  PROVE  IF name \in DOMAIN Given(args)
         THEN \E k \in DOMAIN args :
                /\ args[k].name = name /\ args[k].value = Given(args)[name]
                /\ \A j \in DOMAIN args : args[j].name = name => j <= k
         ELSE \A k \in DOMAIN args : args[k].name # name
  <1> DEFINE places == {k \in 1 .. Len(args) : args[k].name = name}
  <1>1. Len(args) \in Nat /\ DOMAIN args = 1 .. Len(args)
    OBVIOUS
  <1>2. DOMAIN Given(args) = {args[k].name : k \in DOMAIN args}
    BY DEF Given
  <1>3. CASE name \in DOMAIN Given(args)
    <2>1. places # {} /\ places \subseteq 1 .. Len(args)
      BY <1>1, <1>2, <1>3
    <2>2. SelectLastInSeq(args, LAMBDA arg : arg.name = name) = Max(places)
      BY <2>1 DEF SelectLastInSeq
    <2>3. Given(args)[name] = args[Max(places)].value
      BY <1>2, <1>3, <2>2 DEF Given
    <2>4. Max(places) \in places /\ \A y \in places : Max(places) >= y
      BY <1>1, <2>1, MaxFacts
    <2>5. \A j \in DOMAIN args : args[j].name = name => j <= Max(places)
      BY <1>1, <2>4
    <2> QED
      BY <1>1, <1>3, <2>3, <2>4, <2>5
  <1>4. CASE name \notin DOMAIN Given(args)
    BY <1>2, <1>4
  <1> QED
    BY <1>3, <1>4

(* The setting that a session asks for.                                    *)
Asked(name) == IF name \in DOMAIN Given(session.args)
               THEN Given(session.args)[name] ELSE Defaults[name]
AskedDir == IF DirGiven THEN Given(session.args).program_dir ELSE DefaultDir

AfterValidate == {"load", "tables", "start", "cycle", "module", "ran"}
AfterApply == {"directory", "validate"} \cup AfterValidate

SettingsInv ==
  /\ session.args \in Seq(ToSet(session.args))
  /\ phase \in {"create", "parse", "apply"} => config = Defaults /\ "dir" \notin held
  /\ phase \in {"apply"} \cup AfterApply => vm_parse_cli(session.args) = 0
  /\ phase \in AfterApply =>
       \A name \in Switches \cup Numbers :
         name \in DOMAIN config /\ config[name] = Asked(name)
  /\ phase = "directory" =>
       IF "dir" \in held THEN DirGiven /\ dir = AskedDir ELSE ~DirGiven
  /\ phase \in {"validate"} \cup AfterValidate => dir = AskedDir
  /\ phase \in AfterValidate =>
       dir \in Directories /\ \A name \in Numbers : config[name] # 0

LEMMA SettingsStep == ASSUME SettingsInv, [Next]_vars PROVE SettingsInv'
  <1> USE DEF SettingsInv, Asked, AskedDir, AfterValidate, AfterApply, DirGiven
  <1>1. CASE UNCHANGED vars
    BY <1>1 DEF vars, setting
  <1>2. CASE CreateFails \/ ParseEnds \/ ApplyFails \/ DirectoryFails
             \/ ValidateFails \/ LoadFails
    BY <1>2 DEF CreateFails, ParseEnds, ApplyFails, DirectoryFails,
                ValidateFails, LoadFails, Leave, Freed
  <1>3. CASE Create \/ Parse
    BY <1>3 DEF Create, Parse, setting
  <1>4. CASE Apply
    <2>1. config = Defaults /\ "dir" \notin held /\ vm_parse_cli(session.args) = 0
      BY <1>4 DEF Apply
    <2>2. config' = Applied(Defaults, Given(session.args))
      BY <1>4, <2>1 DEF Apply
    <2>3. \A name \in Switches \cup Numbers : name \in DOMAIN Defaults
      BY DEF Switches, Numbers, Defaults
    <2>4. \A name \in Switches \cup Numbers :
            name \in DOMAIN config' /\ config'[name] = Asked(name)
      BY <2>2, <2>3 DEF Applied
    <2>5. session' = session /\ phase' = "directory"
      BY <1>4 DEF Apply
    <2>6. IF "dir" \in held' THEN DirGiven /\ dir' = AskedDir ELSE ~DirGiven
      BY <1>4, <2>1 DEF Apply
    <2> QED
      BY <2>1, <2>4, <2>5, <2>6
  <1>5. CASE Directory
    BY <1>5 DEF Directory
  <1>6. CASE Validate
    BY <1>6 DEF Validate, setting, vm_validate_config
  <1>7. CASE Load \/ vm_tables_init
    BY <1>7 DEF Load, vm_tables_init, setting
  <1>8. CASE StartRun
    <2>1. \A name \in Switches \cup Numbers : name # "hash_algo"
      BY DEF Switches, Numbers
    <2>2. \A name \in Switches \cup Numbers :
            /\ config'[name] = config[name]
            /\ name \in DOMAIN config => name \in DOMAIN config'
      BY <1>8, <2>1 DEF StartRun
    <2>3. /\ UNCHANGED <<session, dir>>
          /\ phase = "start" /\ phase' = "cycle"
      BY <1>8 DEF StartRun
    <2> QED
      BY <2>2, <2>3
  <1>9. CASE StopRun \/ BeginScan \/ ModuleEnds \/ DecodeFails
    BY <1>9 DEF StopRun, BeginScan, ModuleEnds, DecodeFails, EndScan,
                HasInstruction, MayRun, setting
  <1>10. CASE RunInstruction \/ Signal
    BY <1>10 DEF RunInstruction, HasInstruction, MayRun, Signal, setting
  <1>11. CASE vm_reset \/ TearDown \/ Exited
    BY <1>11 DEF vm_reset, TearDown, Exited, setting, vars
  <1> QED
    BY <1>1, <1>2, <1>3, <1>4, <1>5, <1>6, <1>7, <1>8, <1>9, <1>10, <1>11
       DEF Next

LEMMA AskedIsLast ==
  ASSUME SettingsInv, NEW name, NEW v, NEW default,
         v = IF name \in DOMAIN Given(session.args)
             THEN Given(session.args)[name] ELSE default
  PROVE  AsAsked(name, v, default)
  BY GivenFacts DEF SettingsInv, AsAsked, GivenLast, NotGiven

(* A machine that runs has the settings that its command line gave last,   *)
(* whatever the number and the order of the arguments (vm_helpers.c).      *)
THEOREM RunsWithSettingsAsked == Spec => []RunsAsAsked
  <1>1. Init => SettingsInv
    BY SessionsAssumption DEF Init, SettingsInv, AfterValidate, AfterApply
  <1>2. SettingsInv /\ [Next]_vars => SettingsInv'
    BY SettingsStep
  <1>3. SettingsInv => RunsAsAsked
    <2> SUFFICES ASSUME SettingsInv, phase \in {"cycle", "module", "ran"}
                 PROVE  RunsAsAsked
      BY DEF RunsAsAsked
    <2>1. /\ session.args \in Seq(ToSet(session.args))
          /\ vm_parse_cli(session.args) = 0
          /\ \A name \in Switches \cup Numbers : config[name] = Asked(name)
          /\ dir = AskedDir /\ dir \in Directories
          /\ \A name \in Numbers : config[name] # 0
      BY DEF SettingsInv, AfterValidate, AfterApply
    <2>2. \A k \in DOMAIN session.args : ~Ends(session.args[k])
      BY <2>1, ParsedFacts
    <2>3. \A name \in Switches \cup Numbers :
            AsAsked(name, config[name], Defaults[name])
      BY <2>1, AskedIsLast DEF Asked
    <2>4. AsAsked("program_dir", dir, DefaultDir)
      BY <2>1, AskedIsLast DEF AskedDir, DirGiven
    <2>5. NotGiven("help")
      BY <2>2 DEF NotGiven, Ends
    <2>6. ASSUME NEW name \in Numbers PROVE config[name] \in Nat \ {0}
      <3>1. CASE NotGiven(name) /\ config[name] = Defaults[name]
        BY <3>1 DEF Numbers, Defaults
      <3>2. CASE GivenLast(name, config[name])
        <4>1. PICK k \in DOMAIN session.args :
                session.args[k].name = name /\ session.args[k].value = config[name]
          BY <3>2 DEF GivenLast
        <4>2. ~Malformed(session.args[k])
          BY <2>2 DEF Ends
        <4>3. session.args[k].value \in Nat
          BY <4>1, <4>2 DEF Malformed
        <4> QED
          BY <2>1, <4>1, <4>3
      <3> QED
        BY <2>3, <3>1, <3>2 DEF AsAsked
    <2> QED
      BY <2>1, <2>3, <2>4, <2>5, <2>6 DEF RunsAsAsked
  <1> QED
    BY <1>1, <1>2, <1>3, PTL DEF Spec

-----------------------------------------------------------------------------
(* The log.                                                                *)

(* The module in memory is what the assembler made of the source.          *)
ProgInv ==
  /\ session \in Sessions
  /\ prog = <<>> \/ prog = Output(session.source, session.rawHalt)

LEMMA ProgStep == ASSUME ProgInv, [Next]_vars PROVE ProgInv'
  <1>1. CASE Load
    BY <1>1 DEF Load, ProgInv
  <1>2. CASE UNCHANGED <<session, prog>>
    BY <1>2 DEF ProgInv
  <1>3. CASE UNCHANGED vars
    BY <1>2, <1>3 DEF vars, setting
  <1>4. CASE CreateFails \/ ParseEnds \/ ApplyFails \/ DirectoryFails
             \/ ValidateFails \/ LoadFails
    BY <1>2, <1>4 DEF CreateFails, ParseEnds, ApplyFails, DirectoryFails,
                      ValidateFails, LoadFails, Leave
  <1>5. CASE Create \/ Parse \/ Apply \/ Directory \/ Validate \/ vm_tables_init
             \/ StartRun \/ TearDown \/ Exited
    BY <1>2, <1>5 DEF Create, Parse, Apply, Directory, Validate, vm_tables_init,
                      StartRun, TearDown, Exited, vars, setting
  <1>6. CASE StopRun \/ BeginScan \/ ModuleEnds \/ DecodeFails \/ RunInstruction
             \/ Signal \/ vm_reset
    BY <1>2, <1>6 DEF StopRun, BeginScan, ModuleEnds, DecodeFails, EndScan,
                      RunInstruction, Signal, vm_reset, setting
  <1> QED
    BY <1>1, <1>3, <1>4, <1>5, <1>6 DEF Next

(* What runs is the word of an accepted line of the source.                *)
LEMMA RunsALine ==
  ASSUME ProgInv, HasInstruction
  PROVE  /\ SourceLine(Line) /\ Accepted(Line, session.rawHalt)
         /\ Current = Encode(Line, session.rawHalt)
  <1> DEFINE k == PC - PcStart + 1
             source == session.source
             rawHalt == session.rawHalt
  <1>1. /\ Len(source) \in Nat
        /\ \A j \in 1 .. Len(source) : SourceLine(source[j])
    BY SessionsAssumption DEF ProgInv
  <1>2. /\ Len(Output(source, rawHalt)) \in 0 .. Len(source)
        /\ \A j \in 1 .. Len(Output(source, rawHalt)) :
             /\ Accepted(source[j], rawHalt)
             /\ Output(source, rawHalt)[j] = Encode(source[j], rawHalt)
    BY <1>1, OutputFacts
  <1>3. /\ PC \in PcStart .. PcStart + Len(prog) - 1 /\ PcStart \in Nat
        /\ Current = prog[k]
    BY SessionsAssumption DEF HasInstruction, InModule, Current
  <1>4. prog # <<>>
    BY <1>3
  <1>5. prog = Output(source, rawHalt)
    BY <1>4 DEF ProgInv
  <1>6. Line = source[k]
    BY DEF Line
  <1> HIDE DEF source, rawHalt
  <1>7. k \in 1 .. Len(prog) /\ k \in 1 .. Len(source)
    BY <1>1, <1>2, <1>3, <1>5
  <1> HIDE DEF k
  <1>8. /\ SourceLine(source[k]) /\ Accepted(source[k], rawHalt)
        /\ Current = Encode(source[k], rawHalt)
    BY <1>1, <1>2, <1>3, <1>5, <1>7
  <1> QED
    BY <1>6, <1>8 DEF rawHalt

(* What the log prints of an instruction, and what the machine does for    *)
(* it, is what its line of the source says: for every source, whatever is  *)
(* wrong in it, and every width of a field (converter.c, debug.c, funcs.h, *)
(* vm_lifecycle.c).                                                        *)
THEOREM LogAgreesWithSource == Spec => []LogShowsSource
  <1>1. Init => ProgInv
    BY DEF Init, ProgInv
  <1>2. ProgInv /\ [Next]_vars => ProgInv'
    BY ProgStep
  <1>3. ProgInv => LogShowsSource
    <2> SUFFICES ASSUME ProgInv, HasInstruction PROVE LogShowsSource
      BY DEF LogShowsSource
    <2> DEFINE rawHalt == session.rawHalt
    <2>1. /\ SourceLine(Line) /\ Accepted(Line, rawHalt)
          /\ Current = Encode(Line, rawHalt)
      BY RunsALine
    <2> HIDE DEF rawHalt
    <2>2. LET name == Mnemonic(Line, rawHalt)
              c == Operand(Line, 3)
          IN  /\ fprintf_inst(Current) = <<name, Operand(Line, 1), Operand(Line, 2), c>>
              /\ Operation(Current) = name
              /\ c.kind = "imm" => SEXTIMM8(Current) = c.n % Words
      BY <2>1, RoundTrip
    <2> QED
      BY <2>2 DEF LogShowsSource, Wrap, rawHalt
  <1> QED
    BY <1>1, <1>2, <1>3, PTL DEF Spec

-----------------------------------------------------------------------------
(* Types.  Words stay words and bytes bytes, whatever the program computes,*)
(* counts, or does to its strings.                                         *)

TypeInv ==
  /\ reg \in Registers
  /\ mem \in Memories
  /\ "hash_algo" \in DOMAIN config /\ config.hash_algo \in {CRC32, FNV1A}

LEMMA FirstRegisters == vm_state_init_registers \in Registers
  <1>1. {0, 3, 5} \subseteq Word
    BY WordFacts DEF Word
  <1> HIDE DEF Word
  <1> QED
    BY <1>1 DEF vm_state_init_registers, LegacyRegisters, Registers

LEMMA TypeInit == ASSUME Init PROVE TypeInv
  <1>1. reg \in Registers
    BY FirstRegisters DEF Init
  <1>2. mem \in Memories
    <2>1. 0 \in 0 .. Cells - 1
      BY Widths
    <2> QED
      BY <2>1 DEF Init, Memories
  <1>3. "hash_algo" \in DOMAIN config /\ config.hash_algo \in {CRC32, FNV1A}
    BY DEF Init, Defaults
  <1> QED
    BY <1>1, <1>2, <1>3 DEF TypeInv

(* The algorithm that the command line asks for is one of the two.         *)
LEMMA AppliedAlgorithm ==
  ASSUME TypeInv, SettingsInv, Apply
  PROVE  "hash_algo" \in DOMAIN config' /\ config'.hash_algo \in {CRC32, FNV1A}
  <1> DEFINE args == session.args
  <1>1. /\ args \in Seq(ToSet(args)) /\ vm_parse_cli(args) = 0
        /\ config' = Applied(config, Given(args))
    BY DEF SettingsInv, Apply
  <1>2. CASE "hash_algo" \in DOMAIN Given(args)
    <2>1. PICK k \in DOMAIN args :
            args[k].name = "hash_algo" /\ args[k].value = Given(args)["hash_algo"]
      BY <1>1, <1>2, GivenFacts
    <2>2. ~Malformed(args[k])
      BY <1>1, ParsedFacts DEF Ends
    <2>3. Given(args)["hash_algo"] \in {CRC32, FNV1A}
      BY <2>1, <2>2 DEF Malformed
    <2> QED
      BY <1>1, <1>2, <2>3 DEF TypeInv, Applied
  <1>3. CASE "hash_algo" \notin DOMAIN Given(args)
    BY <1>1, <1>3 DEF TypeInv, Applied
  <1> QED
    BY <1>2, <1>3

LEMMA TypeStep ==
  ASSUME TypeInv, ProgInv, SettingsInv, BlocksTypeOK', [Next]_vars
  PROVE  TypeInv'
  <1>1. CASE UNCHANGED <<reg, mem, config>>
    BY <1>1 DEF TypeInv
  <1>2. CASE UNCHANGED vars
    BY <1>1, <1>2 DEF vars, machine, setting
  <1>3. CASE CreateFails \/ ParseEnds \/ ApplyFails \/ DirectoryFails
             \/ ValidateFails \/ LoadFails
    BY <1>1, <1>3 DEF CreateFails, ParseEnds, ApplyFails, DirectoryFails,
                      ValidateFails, LoadFails, Leave, machine
  <1>4. CASE Create \/ Parse \/ Directory \/ Validate \/ Load \/ vm_tables_init
             \/ TearDown \/ Exited
    BY <1>1, <1>4 DEF Create, Parse, Directory, Validate, Load, vm_tables_init,
                      TearDown, Exited, vars, machine, setting
  <1>5. CASE Apply
    BY <1>5, AppliedAlgorithm DEF TypeInv, Apply, machine
  <1>6. CASE StartRun
    BY <1>6 DEF TypeInv, StartRun, machine
  <1>7. CASE StopRun \/ BeginScan \/ ModuleEnds \/ DecodeFails \/ Signal
    BY <1>1, <1>7 DEF StopRun, BeginScan, ModuleEnds, DecodeFails, EndScan,
                      Signal, setting
  <1>8. CASE RunInstruction
    <2>1. HasInstruction /\ Execute(Current) /\ UNCHANGED config
      BY <1>8 DEF RunInstruction, setting
    <2>2. Current \in Nat
      BY <2>1, RunsALine, RoundTrip
    <2>3. reg' \in Registers /\ mem' \in Memories
      BY <2>1, <2>2, ExecuteFacts DEF TypeInv
    <2> QED
      BY <2>1, <2>3 DEF TypeInv
  <1>9. CASE vm_reset
    <2>1. reg' = vm_state_init_registers /\ UNCHANGED <<mem, config>>
      BY <1>9 DEF vm_reset, setting
    <2> QED
      BY <2>1, FirstRegisters DEF TypeInv
  <1> QED
    BY <1>2, <1>3, <1>4, <1>5, <1>6, <1>7, <1>8, <1>9 DEF Next

(* Registers hold words and cells bytes, counters stay in their range, the *)
(* hash algorithm is one of the two, whatever is run and for however long  *)
(* (funcs.c, main.h).                                                      *)
THEOREM TypeCorrect == Spec => []TypeOK
  <1>1. Init => TypeInv /\ ProgInv /\ SettingsInv /\ HeldInv
    <2> SUFFICES ASSUME Init PROVE TypeInv /\ ProgInv /\ SettingsInv /\ HeldInv
      OBVIOUS
    <2>1. TypeInv
      BY TypeInit
    <2>2. ProgInv
      BY DEF Init, ProgInv
    <2>3. SettingsInv
      BY SessionsAssumption DEF Init, SettingsInv, AfterValidate, AfterApply
    <2>4. HeldInv
      BY DEF Init, HeldInv, OfMachine
    <2> QED
      BY <2>1, <2>2, <2>3, <2>4
  <1>2. TypeInv /\ ProgInv /\ SettingsInv /\ HeldInv /\ BlocksTypeOK' /\ [Next]_vars
          => (TypeInv /\ ProgInv /\ SettingsInv /\ HeldInv)'
    BY TypeStep, ProgStep, SettingsStep, HeldStep
  <1>3. TypeInv /\ HeldInv /\ BlocksTypeOK => TypeOK
    BY DEF TypeInv, HeldInv, TypeOK, Registers, Memories
  <1>4. Spec => []BlocksTypeOK
    BY ImplementsBlocks, BlocksTypeCorrect, PTL
  <1> QED
    BY <1>1, <1>2, <1>3, <1>4, PTL DEF Spec

-----------------------------------------------------------------------------
(* Strings.                                                                *)

(* What String makes of memory is what the operation on texts asks for.    *)
LEMMA StringText ==
  ASSUME NEW i \in Nat, reg \in Registers, mem \in Memories,
         Operation(i) \in StringOps, String(i), WellFormed(i)
  PROVE  Result(mem, mem', Destination(i), Expected(i))
  <1>1. PICK a \in Nat, b \in Nat, c \in Nat, n \in Nat :
          a = reg[RA(i)] /\ b = Bv(i) /\ c = Cv(i) /\ n = Cv_or_imm(i)
    BY OperandValues
  <1>2. PICK op \in StringOps : op = Operation(i)
    OBVIOUS
  <1>3. mem' \in NewMemory(op, a, b, IF op = "concat" THEN c ELSE n)
    BY <1>1, <1>2 DEF String, ArgC
  <1>4. PICK dest : dest = Destination(i)
    OBVIOUS
  <1>5. PICK e : e = Expected(i)
    OBVIOUS
  <1>6. StrLen(mem, dest) < Remaining(dest)
    BY <1>4 DEF WellFormed
  <1>7. ReadsSource(i) => InMemory(Source(i)) /\ Apart(mem, dest, Source(i), e)
    BY <1>4, <1>5 DEF WellFormed, Affected, Extent, Apart
  <1>8. CASE op = "concat"
    <2>1. dest = b /\ Source(i) = c /\ ReadsSource(i)
      BY <1>1, <1>2, <1>4, <1>8 DEF Destination, Source, ReadsSource
    <2>2. e = Joined(TextAt(mem, b), TextAt(mem, c), Room(mem, b))
      BY <1>2, <1>4, <1>5, <1>8, <2>1 DEF Expected
    <2>3. mem' \in op_concat(mem, b, c)
      BY <1>3, <1>8 DEF NewMemory
    <2> QED
      BY <1>4, <1>5, <1>6, <1>7, <2>1, <2>2, <2>3, ConcatText
  <1>9. CASE op = "left"
    <2>1. dest = b /\ e = Take(TextAt(mem, b), n)
      BY <1>1, <1>2, <1>4, <1>5, <1>9 DEF Destination, Expected
    <2>2. mem' \in op_left(mem, b, n)
      BY <1>3, <1>9 DEF NewMemory
    <2> QED
      BY <1>4, <1>5, <1>6, <2>1, <2>2, LeftText
  <1>10. CASE op = "right"
    <2>1. PICK t : t = TextAt(mem, b)
      OBVIOUS
    <2>2. dest = b /\ e = Drop(t, Len(t) - Min({n, Len(t)}))
      BY <1>1, <1>2, <1>4, <1>5, <1>10, <2>1 DEF Destination, Expected
    <2>3. mem' \in op_right(mem, b, n)
      BY <1>3, <1>10 DEF NewMemory
    <2> QED
      BY <1>4, <1>5, <1>6, <2>1, <2>2, <2>3, RightText
  <1>11. CASE op = "mid"
    <2>1. dest = b /\ e = Drop(TextAt(mem, b), n)
      BY <1>1, <1>2, <1>4, <1>5, <1>11 DEF Destination, Expected
    <2>2. mem' \in op_mid(mem, b, n)
      BY <1>3, <1>11 DEF NewMemory
    <2> QED
      BY <1>4, <1>5, <1>6, <2>1, <2>2, MidText
  <1>12. CASE op = "insert"
    <2>1. dest = a /\ Source(i) = b /\ ReadsSource(i)
      BY <1>1, <1>2, <1>4, <1>12 DEF Destination, Source, ReadsSource
    <2>2. e = Inserted(TextAt(mem, a), TextAt(mem, b), n, Room(mem, a))
      BY <1>1, <1>2, <1>4, <1>5, <1>12, <2>1 DEF Expected
    <2>3. mem' \in op_insert(mem, a, b, n)
      BY <1>3, <1>12 DEF NewMemory
    <2> QED
      BY <1>4, <1>5, <1>6, <1>7, <2>1, <2>2, <2>3, InsertText
  <1>13. CASE op = "delete"
    <2>1. dest = a /\ e = Deleted(TextAt(mem, a), b, n)
      BY <1>1, <1>2, <1>4, <1>5, <1>13 DEF Destination, Expected
    <2>2. mem' \in op_delete(mem, a, b, n)
      BY <1>3, <1>13 DEF NewMemory
    <2> QED
      BY <1>4, <1>5, <1>6, <2>1, <2>2, DeleteText
  <1>14. CASE op = "replace"
    <2>1. dest = a /\ Source(i) = b /\ ReadsSource(i)
      BY <1>1, <1>2, <1>4, <1>14 DEF Destination, Source, ReadsSource
    <2>2. e = Overwritten(TextAt(mem, a), TextAt(mem, b), n)
      BY <1>1, <1>2, <1>4, <1>5, <1>14, <2>1 DEF Expected
    <2>3. mem' \in op_replace(mem, a, b, n)
      BY <1>3, <1>14 DEF NewMemory
    <2> QED
      BY <1>4, <1>5, <1>6, <1>7, <2>1, <2>2, <2>3, ReplaceText
  <1> QED
    BY <1>2, <1>8, <1>9, <1>10, <1>11, <1>12, <1>13, <1>14 DEF StringOps

(* Within a module only an instruction raises the count.                   *)
CountInv == count \in Nat

LEMMA CountStep ==
  ASSUME CountInv, [Next]_vars
  PROVE  CountInv' /\ (HasInstruction /\ count' = count + 1 => RunInstruction)
  <1>1. CASE UNCHANGED count
    <2>1. count # count + 1
      BY DEF CountInv
    <2> QED
      BY <1>1, <2>1 DEF CountInv
  <1>2. CASE UNCHANGED vars
    BY <1>1, <1>2 DEF vars
  <1>3. CASE CreateFails \/ ParseEnds \/ ApplyFails \/ DirectoryFails
             \/ ValidateFails \/ LoadFails
    BY <1>1, <1>3 DEF CreateFails, ParseEnds, ApplyFails, DirectoryFails,
                      ValidateFails, LoadFails, Leave
  <1>4. CASE Create \/ Parse \/ Apply \/ Directory \/ Validate \/ Load
             \/ vm_tables_init \/ StartRun \/ TearDown \/ Exited
    BY <1>1, <1>4 DEF Create, Parse, Apply, Directory, Validate, Load,
                      vm_tables_init, StartRun, TearDown, Exited, vars
  <1>5. CASE StopRun \/ ModuleEnds \/ DecodeFails \/ Signal \/ vm_reset
    BY <1>1, <1>5 DEF StopRun, ModuleEnds, DecodeFails, EndScan, Signal, vm_reset
  <1>6. CASE BeginScan
    BY <1>6 DEF BeginScan, CountInv, HasInstruction, MayRun
  <1>7. CASE RunInstruction
    BY <1>7 DEF RunInstruction, CountInv
  <1> QED
    BY <1>2, <1>3, <1>4, <1>5, <1>6, <1>7 DEF Next

(* On a string that ends within memory, with a source apart from it, each  *)
(* string instruction leaves the text that its operation on texts gives,   *)
(* cut off where memory ends, and touches no byte behind it, although the  *)
(* code moves bytes over each other and uses memcpy: for every text, every *)
(* position and length and every size of memory (funcs.c).                 *)
THEOREM StringsAgree == Spec => StringsMatchReference
  <1>1. Init => TypeInv /\ ProgInv /\ SettingsInv /\ CountInv
    <2> SUFFICES ASSUME Init PROVE TypeInv /\ ProgInv /\ SettingsInv /\ CountInv
      OBVIOUS
    <2>1. TypeInv
      BY TypeInit
    <2>2. ProgInv /\ CountInv
      BY DEF Init, ProgInv, CountInv
    <2>3. SettingsInv
      BY SessionsAssumption DEF Init, SettingsInv, AfterValidate, AfterApply
    <2> QED
      BY <2>1, <2>2, <2>3
  <1>2. TypeInv /\ ProgInv /\ SettingsInv /\ CountInv /\ BlocksTypeOK' /\ [Next]_vars
          => (TypeInv /\ ProgInv /\ SettingsInv /\ CountInv)'
    BY TypeStep, ProgStep, SettingsStep, CountStep
  <1>3. TypeInv /\ ProgInv /\ CountInv /\ [Next]_vars =>
          [\A i \in {prog[k] : k \in DOMAIN prog} :
             (/\ HasInstruction /\ i = Current
              /\ Operation(i) \in StringOps /\ WellFormed(i) /\ count' = count + 1) =>
             /\ TextAt(mem', Destination(i)) = Expected(i)
             /\ \A a \in DOMAIN mem \ Affected(i) : mem'[a] = mem[a]]_vars
    <2> SUFFICES ASSUME TypeInv, ProgInv, CountInv, [Next]_vars,
                        HasInstruction, NEW i, i = Current,
                        Operation(i) \in StringOps, WellFormed(i), count' = count + 1
                 PROVE  /\ TextAt(mem', Destination(i)) = Expected(i)
                        /\ \A a \in DOMAIN mem \ Affected(i) : mem'[a] = mem[a]
      OBVIOUS
    <2>1. Execute(i)
      BY CountStep DEF RunInstruction
    <2>2. String(i)
      BY <2>1, StringIsHandled
    <2>3. i \in Nat
      BY RunsALine, RoundTrip
    <2>4. Result(mem, mem', Destination(i), Expected(i))
      BY <2>2, <2>3, StringText DEF TypeInv
    <2> QED
      BY <2>4 DEF Result, Affected, Extent
  <1>4. Spec => []BlocksTypeOK
    BY ImplementsBlocks, BlocksTypeCorrect, PTL
  <1> QED
    BY <1>1, <1>2, <1>3, <1>4, PTL DEF Spec, StringsMatchReference
=============================================================================
