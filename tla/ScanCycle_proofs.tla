-------------------------- MODULE ScanCycle_proofs --------------------------
(***************************************************************************)
(* Proofs about ScanCycle for every memory, program and bound.  One        *)
(* inductive invariant, Inv, carries all of them: types, the place of the  *)
(* scan among the modules (Progress), the requests to stop (Requests), the *)
(* checksums (Hashes) and the cache (Cached).                              *)
(***************************************************************************)
EXTENDS ScanCycle, TLAPS

(* mod_idx stays in the table and control came to every module before it;  *)
(* the instructions executed so far are those of the modules passed plus   *)
(* those of the module that runs.                                          *)
Progress ==
  /\ pc = "modules" => /\ idx \in 1 .. Len(modules) + 1
                       /\ visited = 1 .. (idx - 1)
                       /\ total <= MaxInstructions * (idx - 1)
  /\ pc = "run" => /\ idx \in 1 .. Len(modules)
                   /\ visited \cup {idx} = 1 .. idx
                   /\ (~running \/ count > 0) => idx \in visited
                   /\ count <= MaxInstructions
                   /\ total <= MaxInstructions * (idx - 1) + count
  /\ pc = "end" => /\ visited = 1 .. Len(modules)
                   /\ total <= MaxInstructions * Len(modules)

(* A scan that begins late begins before the flags are read again.         *)
Requests ==
  /\ late <= 1
  /\ late > 0 => globalStop
  /\ pc = "check" /\ globalStop /\ ~vmStop => late = 0

(* Between two scans the registers are those of the last checksum.         *)
Hashes ==
  /\ pc \in {"top", "flag", "check"} /\ cycle # 0 => prevHash = reg
  /\ pc \in {"modules", "run", "end"} => prevHash = startHash

(* What the cache holds is in memory, but for the words written over.      *)
Cached == \A a \in Address : cache[a] = NotCached \/ a \in dirty
                                                  \/ cache[a] = mem[a]

Inv == TypeOK /\ Progress /\ Requests /\ Hashes /\ Cached

-----------------------------------------------------------------------------
LEMMA WordFacts == /\ Zero \in Word
                   /\ \A n \in Nat : WordOf(n) \in Word
                   /\ NotCached \notin Word
  BY ArgsAssumption DEF Zero, WordOf, Word, Ops, NotCached

LEMMA OverwriteType ==
  ASSUME mem \in [Address -> Word],
         NEW code \in Seq(Word), NEW n \in 0 .. Len(code)
  PROVE  Overwrite(code, n) \in [Address -> Word]
  <1> SUFFICES ASSUME NEW a \in Address, a < n
               PROVE  code[a + 1] \in Word
    BY DEF Overwrite
  <1>1. a + 1 \in 1 .. Len(code)
    BY SizeAssumption DEF Address
  <1> QED
    BY <1>1

(* The instruction that runs is in memory, and so is what the cache gives. *)
LEMMA FetchFacts ==
  ASSUME Inv, Fetch
  PROVE  /\ PC \in Address
         /\ Decoded \in Word
         /\ Arg \in Args /\ Arg \in Nat
         /\ Decode => cache' \in [Address -> Word \cup {NotCached}]
         /\ pc = "run" /\ running /\ count < MaxInstructions
         /\ visited' = visited \cup {idx}
  <1>1. /\ pc = "run" /\ running /\ count < MaxInstructions
        /\ visited' = visited \cup {idx}
    BY DEF Fetch, MayRun
  <1>2. modules[idx] \in Module
    BY <1>1 DEF Inv, TypeOK, Progress
  <1>3. PC \in Address
    BY <1>2, SizeAssumption DEF Fetch, InModule, Module, Address, Inv, TypeOK
  <1>4. Decoded \in Word
    BY <1>3 DEF Decoded, Inv, TypeOK
  <1>5. Arg \in Args /\ Arg \in Nat
    BY <1>4, ArgsAssumption DEF Arg, Word
  <1>6. Decode => cache' \in [Address -> Word \cup {NotCached}]
    BY <1>3, <1>4 DEF Decode, Inv, TypeOK
  <1> QED
    BY <1>1, <1>3, <1>4, <1>5, <1>6

(* A step that fills in the entry of PC, if any, and notes what it writes. *)
LEMMA CachedKeeps ==
  ASSUME Inv, PC \in Address,
         NoteWrites \/ (mem' = mem /\ dirty' = dirty),
         Decode
  PROVE  Cached'
  <1>1. cache \in [Address -> Word \cup {NotCached}]
    BY DEF Inv, TypeOK
  <1>2. ASSUME NEW a \in Address
        PROVE  cache'[a] = NotCached \/ a \in dirty' \/ cache'[a] = mem'[a]
    <2>1. dirty \subseteq dirty'
      BY DEF NoteWrites
    <2>2. mem'[a] = mem[a] \/ cache'[a] = NotCached \/ a \in dirty'
      BY DEF NoteWrites
    <2>3. cache[a] = NotCached \/ a \in dirty \/ cache[a] = mem[a]
      BY DEF Inv, Cached
    <2>4. CASE cache'[a] = cache[a]
      BY <2>1, <2>2, <2>3, <2>4
    <2>5. CASE cache'[a] # cache[a]
      <3>1. a = PC /\ cache'[a] = Decoded
        BY <1>1, <2>5 DEF Decode
      <3>2. cache'[a] = mem[a]
        BY <2>5, <3>1 DEF Decoded
      <3> QED
        BY <2>2, <3>2
    <2> QED
      BY <2>4, <2>5
  <1> QED
    BY <1>2 DEF Cached

(* A step that leaves the cache alone and notes what it writes.            *)
LEMMA CachedStays ==
  ASSUME Cached, cache' = cache,
         NoteWrites \/ (mem' = mem /\ dirty' = dirty)
  PROVE  Cached'
  <1> SUFFICES ASSUME NEW a \in Address
               PROVE  cache'[a] = NotCached \/ a \in dirty' \/ cache'[a] = mem'[a]
    BY DEF Cached
  <1>1. cache[a] = NotCached \/ a \in dirty \/ cache[a] = mem[a]
    BY DEF Cached
  <1>2. CASE NoteWrites
    BY <1>1, <1>2 DEF NoteWrites
  <1>3. CASE mem' = mem /\ dirty' = dirty
    BY <1>1, <1>3
  <1> QED
    BY <1>2, <1>3

LEMMA InitInv == Init => Inv
  <1> SUFFICES ASSUME Init PROVE Inv
    OBVIOUS
  <1>1. PICK directory \in Sites : \E image \in directory :
          /\ site = directory /\ dirty = {}
          /\ mem = [a \in Address |-> IF a < Len(image.code)
                                      THEN image.code[a + 1] ELSE Zero]
          /\ modules = image.modules
    BY DEF Init
  <1>11. PICK image \in directory :
          /\ site = directory /\ dirty = {}
          /\ mem = [a \in Address |-> IF a < Len(image.code)
                                      THEN image.code[a + 1] ELSE Zero]
          /\ modules = image.modules
    BY <1>1
  <1>2. image.code \in Seq(Word) /\ image.modules \in Seq(Module)
    BY <1>11, SitesAssumption, ImagesAssumption
  <1>3. mem \in [Address -> Word]
    <2> SUFFICES ASSUME NEW a \in Address, a < Len(image.code)
                 PROVE  image.code[a + 1] \in Word
      BY <1>11, WordFacts
    <2>1. a + 1 \in 1 .. Len(image.code)
      BY <1>2, SizeAssumption DEF Address
    <2> QED
      BY <2>1, <1>2
  <1>4. TypeOK
    <2>1. cache \in [Address -> Word \cup {NotCached}]
      BY DEF Init
    <2>2. 0 \in Registers /\ 0 \in Args /\ 0 \in 0 .. 2 /\ 0 \in Nat
      BY SizeAssumption, ArgsAssumption DEF Registers
    <2>3. reg \in Registers /\ exitCode \in Args /\ modules \in Seq(Module)
      BY <1>11, <1>2, <2>2 DEF Init
    <2>4. /\ PC \in Nat /\ idx \in Nat /\ count \in Nat /\ total \in Nat
          /\ visited \subseteq Nat /\ late \in Nat /\ cycle \in 0 .. 2
      BY <2>2 DEF Init
    <2>5. /\ prevHash \in Registers /\ startHash \in Registers /\ pc \in Where
          /\ running \in BOOLEAN /\ globalStop \in BOOLEAN
          /\ vmStop \in BOOLEAN /\ mismatch \in BOOLEAN
      BY <2>2 DEF Init, Where
    <2>6. site \subseteq Images /\ dirty \subseteq Address
      BY <1>11, SitesAssumption
    <2> QED
      BY <1>3, <2>1, <2>3, <2>4, <2>5, <2>6 DEF TypeOK
  <1>5. Cached
    BY DEF Init, Cached
  <1> QED
    BY <1>4, <1>5 DEF Init, Inv, Progress, Requests, Hashes

-----------------------------------------------------------------------------
(* What the steps that execute an instruction have in common.              *)
LEMMA ExecuteKeeps ==
  ASSUME Inv, Fetch, Decode,
         NEW next \in Nat, Completes(next),
         NoteWrites \/ (mem' = mem /\ dirty' = dirty),
         mem' \in [Address -> Word], reg' \in Registers, exitCode' \in Args,
         running' \in BOOLEAN, vmStop' \in BOOLEAN
  PROVE  Inv'
  <1>1. /\ PC \in Address
        /\ cache' \in [Address -> Word \cup {NotCached}]
        /\ pc = "run" /\ running /\ count < MaxInstructions
        /\ visited' = visited \cup {idx}
    BY FetchFacts
  <1>2. /\ count' = count + 1 /\ total' = total + 1
        /\ modules' = modules /\ globalStop' = globalStop
        /\ cycle' = cycle /\ prevHash' = prevHash /\ mismatch' = mismatch
        /\ startHash' = startHash /\ late' = late
        /\ pc' = pc /\ idx' = idx /\ site' = site
    BY DEF Completes, hashes
  <1>3. PC' \in Nat
    BY <1>1, SizeAssumption DEF Completes, Address
  <1>4. TypeOK'
    <2>1. dirty' \subseteq Address
      BY DEF NoteWrites, Inv, TypeOK
    <2> QED
      BY <1>1, <1>2, <1>3, <2>1 DEF Inv, TypeOK
  <1>5. Progress'
    BY <1>1, <1>2, SizeAssumption DEF Inv, TypeOK, Progress
  <1>6. Requests'
    BY <1>1, <1>2 DEF Inv, Requests
  <1>7. Hashes'
    BY <1>1, <1>2 DEF Inv, Hashes
  <1>8. Cached'
    BY <1>1, CachedKeeps
  <1> QED
    BY <1>4, <1>5, <1>6, <1>7, <1>8 DEF Inv

LEMMA ExecuteInv == Inv /\ Execute => Inv'
  <1> SUFFICES ASSUME Inv, Execute PROVE Inv'
    OBVIOUS
  <1>0. /\ mem \in [Address -> Word] /\ reg \in Registers
        /\ exitCode \in Args /\ vmStop \in BOOLEAN /\ running \in BOOLEAN
        /\ PC \in Nat
    BY DEF Inv, TypeOK
  <1>1. CASE Add
    <2>1. (reg + 1) % RegValues \in Registers
      BY <1>0, SizeAssumption DEF Registers
    <2> QED
      BY <1>0, <1>1, <2>1, ExecuteKeeps DEF Add, Dispatch
  <1>2. CASE Demux
    <2>1. Fetch /\ Decode
      BY <1>2 DEF Demux, Dispatch
    <2>2. WordOf(reg) \in Word
      BY <1>0, WordFacts, SizeAssumption DEF Registers
    <2>3. mem' \in [Address -> Word]
      BY <1>0, <1>2, <2>2 DEF Demux
    <2> QED
      BY <1>0, <1>2, <2>1, <2>3, ExecuteKeeps DEF Demux
  <1>3. CASE Jump
    <2>1. Fetch /\ Decode
      BY <1>3 DEF Jump, Dispatch
    <2>2. Arg \in Nat
      BY <2>1, FetchFacts
    <2> QED
      BY <1>0, <1>3, <2>1, <2>2, ExecuteKeeps DEF Jump
  <1>4. CASE JumpIf
    <2>1. Fetch /\ Decode
      BY <1>4 DEF JumpIf, Dispatch
    <2>2. Arg \in Nat
      BY <2>1, FetchFacts
    <2>3. (IF reg # 0 THEN Arg ELSE PC) \in Nat
      BY <1>0, <2>2
    <2> QED
      BY <1>0, <1>4, <2>1, <2>3, ExecuteKeeps DEF JumpIf
  <1>5. CASE Nop
    BY <1>0, <1>5, ExecuteKeeps DEF Nop, Dispatch
  <1>6. CASE Halt
    BY <1>0, <1>6, ExecuteKeeps DEF Halt, Dispatch
  <1>7. CASE Exit
    <2>1. Fetch /\ Decode
      BY <1>7 DEF Exit, Dispatch
    <2>2. Arg \in Args
      BY <2>1, FetchFacts
    <2> QED
      BY <1>0, <1>7, <2>1, <2>2, ExecuteKeeps DEF Exit
  <1> QED
    BY <1>1, <1>2, <1>3, <1>4, <1>5, <1>6, <1>7 DEF Execute

(* What the steps that leave a module have in common.                      *)
LEMMA LeaveKeeps ==
  ASSUME Inv, pc = "run", LeaveModule,
         mem' = mem, modules' = modules, reg' = reg, exitCode' = exitCode,
         site' = site, dirty' = dirty,
         cache' \in [Address -> Word \cup {NotCached}], Cached',
         running' \in BOOLEAN,
         visited' = visited \/ visited' = visited \cup {idx}, idx \in visited'
  PROVE  Inv'
  <1>1. /\ pc' = "modules" /\ idx' = idx + 1
        /\ PC' = PC /\ count' = count /\ total' = total
        /\ globalStop' = globalStop /\ vmStop' = vmStop
        /\ cycle' = cycle /\ prevHash' = prevHash /\ mismatch' = mismatch
        /\ startHash' = startHash /\ late' = late
    BY DEF LeaveModule, stops, hashes
  <1>2. idx \in 1 .. Len(modules) /\ Len(modules) \in Nat
    BY DEF Inv, TypeOK, Progress
  <1>3. visited' = 1 .. idx
    BY DEF Inv, Progress
  <1>4. TypeOK'
    BY <1>1, <1>2, <1>3 DEF Inv, TypeOK, Where
  <1>5. total <= MaxInstructions * idx
    <2>1. /\ count <= MaxInstructions
          /\ total <= MaxInstructions * (idx - 1) + count
          /\ count \in Nat /\ total \in Nat
      BY DEF Inv, TypeOK, Progress
    <2>2. MaxInstructions * (idx - 1) + MaxInstructions = MaxInstructions * idx
      BY <1>2, SizeAssumption
    <2>3. MaxInstructions * (idx - 1) \in Nat
      BY <1>2, SizeAssumption
    <2> QED
      BY <2>1, <2>2, <2>3, SizeAssumption
  <1>6. Progress'
    <2>1. idx' - 1 = idx /\ idx' \in 1 .. Len(modules') + 1
      BY <1>1, <1>2
    <2> QED
      BY <1>1, <1>3, <1>5, <2>1 DEF Progress
  <1>7. Requests'
    BY <1>1 DEF Inv, Requests
  <1>8. Hashes'
    BY <1>1 DEF Inv, Hashes
  <1> QED
    BY <1>4, <1>6, <1>7, <1>8 DEF Inv

LEMMA LeaveInv ==
  Inv /\ (RunEnds \/ ModuleCompleted \/ DecodeFails \/ InvalidOpcode) => Inv'
  <1> SUFFICES ASSUME Inv,
                      RunEnds \/ ModuleCompleted \/ DecodeFails \/ InvalidOpcode
               PROVE  Inv'
    OBVIOUS
  <1>0. /\ cache \in [Address -> Word \cup {NotCached}]
        /\ running \in BOOLEAN
        /\ UNCHANGED <<mem, cache, dirty>> => Cached'
    BY CachedStays DEF Inv, TypeOK
  <1>1. CASE RunEnds
    <2>1. pc = "run" /\ visited' = visited
      BY <1>1 DEF RunEnds
    <2>2. ~running \/ count > 0
      BY <1>1, SizeAssumption DEF RunEnds, MayRun, Inv, TypeOK
    <2>3. idx \in visited'
      BY <2>1, <2>2 DEF Inv, Progress
    <2> QED
      BY <1>0, <1>1, <2>1, <2>3, LeaveKeeps DEF RunEnds, data
  <1>2. CASE ModuleCompleted
    BY <1>0, <1>2, LeaveKeeps DEF ModuleCompleted, data
  <1>3. CASE DecodeFails
    BY <1>0, <1>3, LeaveKeeps DEF DecodeFails, Fetch, data
  <1>4. CASE InvalidOpcode
    <2>1. Fetch /\ Decode
      BY <1>4 DEF InvalidOpcode
    <2>2. cache' \in [Address -> Word \cup {NotCached}]
      BY <2>1, FetchFacts
    <2>3. pc = "run" /\ visited' = visited \cup {idx}
      BY <2>1 DEF Fetch
    <2>4. Cached'
      BY <1>4, <2>1, FetchFacts, CachedKeeps DEF InvalidOpcode
    <2> QED
      BY <1>4, <2>2, <2>3, <2>4, LeaveKeeps DEF InvalidOpcode
  <1> QED
    BY <1>1, <1>2, <1>3, <1>4

-----------------------------------------------------------------------------
(* The steps outside of the modules.                                       *)
LEMMA OuterInv ==
  ASSUME Inv,
         \/ NoReload \/ \E image \in site : Reload(image) \/ ReloadFails(image)
         \/ ReadGlobalStop \/ Stop \/ BeginScan \/ EnterModule \/ AllModulesRan
         \/ EndScan \/ RequestStop \/ Signal \/ VmReset \/ UNCHANGED vars
  PROVE  Inv'
  <1> USE DEF Inv, data, control, stops, hashes
  <1>0. UNCHANGED <<mem, cache, dirty>> => Cached'
    BY CachedStays
  <1>1. CASE NoReload
    BY <1>0, <1>1 DEF NoReload, TypeOK, Where, Progress, Requests, Hashes
  <1>2. ASSUME NEW image \in site, Reload(image) PROVE Inv'
    <2>1. image.code \in Seq(Word) /\ image.modules \in Seq(Module)
      BY ImagesAssumption DEF TypeOK
    <2>2. mem' \in [Address -> Word]
      <3>1. mem \in [Address -> Word]
        BY DEF TypeOK
      <3>2. Len(image.code) \in 0 .. Len(image.code)
        BY <2>1
      <3> QED
        BY <1>2, <2>1, <3>1, <3>2, OverwriteType DEF Reload
    <2>3. Cached'
      BY <1>2, CachedStays DEF Reload
    <2>4. dirty' \subseteq Address
      BY <1>2 DEF Reload, NoteWrites, TypeOK
    <2> QED
      BY <1>2, <2>1, <2>2, <2>3, <2>4
      DEF Reload, TypeOK, Where, Progress, Requests, Hashes
  <1>3. ASSUME NEW image \in site, ReloadFails(image) PROVE Inv'
    <2>1. image.code \in Seq(Word)
      BY ImagesAssumption DEF TypeOK
    <2>2. mem' \in [Address -> Word]
      <3>1. mem \in [Address -> Word]
        BY DEF TypeOK
      <3> QED
        BY <1>3, <2>1, <3>1, OverwriteType DEF ReloadFails
    <2>3. <<>> \in Seq(Module)
      OBVIOUS
    <2>4. Cached'
      BY <1>3, CachedStays DEF ReloadFails
    <2>5. dirty' \subseteq Address
      BY <1>3 DEF ReloadFails, NoteWrites, TypeOK
    <2> QED
      BY <1>3, <2>2, <2>3, <2>4, <2>5
      DEF ReloadFails, TypeOK, Where, Progress, Requests, Hashes
  <1>4. CASE ReadGlobalStop
    BY <1>0, <1>4 DEF ReadGlobalStop, TypeOK, Where, Progress, Requests, Hashes
  <1>5. CASE Stop
    BY <1>0, <1>5 DEF Stop, NextCycle, TypeOK, Where, Progress, Requests, Hashes
  <1>6. CASE BeginScan
    <2>1. TypeOK'
      BY <1>6 DEF BeginScan, NextCycle, TypeOK, Where
    <2>2. Progress'
      <3>1. MaxInstructions * (1 - 1) = 0
        BY SizeAssumption
      <3>2. Len(modules) \in Nat /\ modules' = modules
        BY <1>6 DEF BeginScan, TypeOK
      <3> QED
        BY <1>6, <3>1, <3>2 DEF BeginScan, Progress
    <2>3. Requests'
      BY <1>6 DEF BeginScan, Requests, TypeOK
    <2>4. Hashes'
      BY <1>6 DEF BeginScan, NextCycle, Hashes, TypeOK
    <2> QED
      BY <1>0, <1>6, <2>1, <2>2, <2>3, <2>4 DEF BeginScan
  <1>7. CASE EnterModule
    <2>1. idx \in 1 .. Len(modules) /\ modules[idx] \in Module
      BY <1>7 DEF EnterModule, TypeOK
    <2>2. PC' \in Nat
      BY <1>7, <2>1, SizeAssumption DEF EnterModule, Module, Address
    <2>3. TypeOK'
      BY <1>7, <2>2 DEF EnterModule, TypeOK, Where
    <2>4. Progress'
      <3>1. MaxInstructions * (idx - 1) \in Nat
        BY <2>1, SizeAssumption
      <3> QED
        BY <1>7, <2>1, <3>1, SizeAssumption DEF EnterModule, Progress, TypeOK
    <2> QED
      BY <1>0, <1>7, <2>3, <2>4 DEF EnterModule, Requests, Hashes
  <1>8. CASE AllModulesRan
    <2>1. idx - 1 = Len(modules)
      BY <1>8 DEF AllModulesRan, TypeOK, Progress
    <2>2. Progress'
      BY <1>8, <2>1 DEF AllModulesRan, Progress
    <2> QED
      BY <1>0, <1>8, <2>2 DEF AllModulesRan, TypeOK, Where, Requests, Hashes
  <1>9. CASE EndScan
    BY <1>0, <1>9 DEF EndScan, TypeOK, Where, Progress, Requests, Hashes
  <1>10. CASE RequestStop
    BY <1>0, <1>10 DEF RequestStop, TypeOK, Progress, Requests, Hashes
  <1>11. CASE Signal
    BY <1>0, <1>11 DEF Signal, TypeOK, Progress, Requests, Hashes
  <1>12. CASE VmReset
    <2>1. 0 \in Registers /\ 0 \in Args /\ 0 \in 0 .. 2 /\ 0 \in Nat
      BY SizeAssumption, ArgsAssumption DEF Registers
    <2>2. TypeOK'
      BY <1>12, <2>1 DEF VmReset, TypeOK, Where
    <2> QED
      BY <1>0, <1>12, <2>2 DEF VmReset, Progress, Requests, Hashes
  <1>13. CASE UNCHANGED vars
    BY <1>0, <1>13 DEF vars, TypeOK, Progress, Requests, Hashes
  <1> QED
    BY <1>1, <1>2, <1>3, <1>4, <1>5, <1>6, <1>7, <1>8, <1>9, <1>10, <1>11,
       <1>12, <1>13

LEMMA NextInv == Inv /\ [Next]_vars => Inv'
  BY ExecuteInv, LeaveInv, OuterInv DEF Next, HostStep

LEMMA Invariance == Spec => []Inv
  BY InitInv, NextInv, PTL DEF Spec

-----------------------------------------------------------------------------
(* Every value of the machine stays within its type.                       *)
THEOREM TypeCorrect == Spec => []TypeOK
  BY Invariance, PTL DEF Inv

(* vm_run_module: in every scan every module of the table gets control,    *)
(* whatever program they hold and whichever of them loop or stop.          *)
THEOREM ModulesDoNotStarve == Spec => []NoModuleStarves
  <1>1. Inv => NoModuleStarves
    BY DEF Inv, TypeOK, Progress, NoModuleStarves
  <1> QED
    BY <1>1, Invariance, PTL

(* MAX_INSTRUCTIONS: the work of a scan is bounded for every program.      *)
THEOREM ScansAreBounded == Spec => []ScanIsBounded
  <1>1. Inv => ScanIsBounded
    <2> SUFFICES ASSUME Inv, pc \in {"modules", "run", "end"}
                 PROVE  total <= MaxInstructions * Len(modules)
      BY DEF ScanIsBounded
    <2>1. Len(modules) \in Nat /\ total \in Nat /\ idx \in Nat /\ count \in Nat
      BY DEF Inv, TypeOK
    <2>2. \A i \in 0 .. Len(modules) :
            /\ MaxInstructions * i \in Nat
            /\ MaxInstructions * i <= MaxInstructions * Len(modules)
      BY <2>1, SizeAssumption
    <2>3. CASE pc = "modules"
      BY <2>1, <2>2, <2>3 DEF Inv, Progress
    <2>4. CASE pc = "run"
      <3>1. /\ idx \in 1 .. Len(modules)
            /\ total <= MaxInstructions * (idx - 1) + MaxInstructions
        <4>1. /\ idx \in 1 .. Len(modules) /\ count <= MaxInstructions
              /\ total <= MaxInstructions * (idx - 1) + count
          BY <2>4 DEF Inv, Progress
        <4>2. MaxInstructions * (idx - 1) \in Nat
          BY <2>1, <2>2, <4>1
        <4> QED
          BY <2>1, <4>1, <4>2, SizeAssumption
      <3>2. MaxInstructions * (idx - 1) + MaxInstructions = MaxInstructions * idx
        BY <3>1, SizeAssumption
      <3> QED
        BY <2>1, <2>2, <3>1, <3>2
    <2>5. CASE pc = "end"
      BY <2>5 DEF Inv, Progress
    <2> QED
      BY <2>3, <2>4, <2>5
  <1> QED
    BY <1>1, Invariance, PTL

(* What a module executes costs the others neither their turn nor their    *)
(* share of the scan.                                                      *)
THEOREM ScansAreShared == Spec => []ScanIsShared
  <1>1. NoModuleStarves /\ ScanIsBounded => ScanIsShared
    BY DEF ScanIsShared
  <1> QED
    BY <1>1, ModulesDoNotStarve, ScansAreBounded, PTL

(* The stop flags: at most one scan begins after a request to stop.        *)
THEOREM StopsWithinOneScan == Spec => []OneScanAfterStop
  <1>1. Inv => OneScanAfterStop
    BY DEF Inv, Requests, OneScanAfterStop
  <1> QED
    BY <1>1, Invariance, PTL

(* prev_cycle_hash: HASH MISMATCH tells that the scan changed registers.   *)
THEOREM MismatchIsChange == Spec => MismatchMeansChange
  <1>1. Inv /\ [Next]_vars =>
          [pc = "end" /\ pc' = "top" =>
             (mismatch' <=> cycle > 1 /\ reg # startHash)]_vars
    <2> SUFFICES ASSUME Inv, Next, pc = "end", pc' = "top"
                 PROVE  mismatch' <=> cycle > 1 /\ reg # startHash
      OBVIOUS
    <2>1. EndScan
      BY DEF Next, HostStep, NoReload, Reload, ReloadFails, ReadGlobalStop, Stop,
             BeginScan, EnterModule, AllModulesRan, RunEnds, ModuleCompleted,
             DecodeFails, InvalidOpcode, Fetch, Execute, Add, Demux, Jump,
             JumpIf, Nop, Halt, Exit, Dispatch, RequestStop, Signal, VmReset
    <2>2. prevHash = startHash
      BY DEF Inv, Hashes
    <2> QED
      BY <2>1, <2>2 DEF EndScan
  <1> QED
    BY <1>1, Invariance, PTL DEF Spec, MismatchMeansChange

(* vm_run_instruction and decode_instruction_cached: an instruction that   *)
(* was not written over executes with its own arguments.                   *)
THEOREM OperandsAreFetched == Spec => OperandsMatch
  <1>1. Inv /\ [Next]_vars => [Execute /\ PC \notin dirty => Arg = mem[PC].arg]_vars
    <2> SUFFICES ASSUME Inv, Execute, PC \notin dirty
                 PROVE  Arg = mem[PC].arg
      OBVIOUS
    <2>1. Fetch
      BY DEF Execute, Add, Demux, Jump, JumpIf, Nop, Halt, Exit, Dispatch
    <2>2. PC \in Address
      BY <2>1, FetchFacts
    <2>3. Decoded = mem[PC]
      BY <2>2 DEF Inv, Cached, Decoded
    <2> QED
      BY <2>3 DEF Arg
  <1> QED
    BY <1>1, Invariance, PTL DEF Spec, OperandsMatch
=============================================================================
