------------------------ MODULE SystemRuntime_proofs ------------------------
(***************************************************************************)
(* What holds of the system around the virtual machine for every           *)
(* composition of components and any number of calls of the host: the      *)
(* machine is gone after a stop, and the outputs of an IEC program stem    *)
(* from one reading of its input.                                          *)
(***************************************************************************)
EXTENDS SystemRuntime, SequenceTheorems, FiniteSetTheorems, TLAPS

(* While components are stopped one after the other, the one that owns the *)
(* machine is still to come as long as there is a machine.                 *)
Owner(k) == k \in DOMAIN order /\ order[k] = "vm"

VmOK == vm = NoVm \/ vm \in [exists : {TRUE}, stop : BOOLEAN, cycles : Nat,
                             loaded : BOOLEAN]

MachineInv ==
  /\ order \in Seq(Components)
  /\ VmOK
  /\ vm.exists => phase \notin {"stopped", "exited"}
  /\ vm.exists => \E k \in 1 .. Len(order) : Owner(k)
  /\ phase = "stop" => at \in Nat
  /\ (phase = "stop" /\ vm.exists) => \E k \in 1 .. Len(order) : Owner(k) /\ k <= at

(* What a program has computed at each step of its cycle, which only goes  *)
(* on while the scheduler is at its unit.                                  *)
Computed ==
  /\ program.step = "read" =>
       \A e \in Expressions : program.out[e] = program.image
  /\ program.step = "evaluate" => program.expr # 0
  /\ program.step = "evaluate" =>
       \A e \in Expressions : e < program.expr => program.var[e] = program.image
  /\ program.step = "write" =>
       \A e \in Expressions : program.var[e] = program.image
  /\ program.step # "read" => ticked # 0 /\ Reached("program")

ProgramOK ==
  program \in [exists : {TRUE}, step : {"read", "begin", "evaluate", "write"},
               image : Values, var : [Expressions -> Values],
               out : [Expressions -> Values], expr : Nat, cycleId : Nat,
               status : {"Idle", "Running"}]

ScanInv ==
  /\ field \in Values
  /\ ticked \in Nat
  /\ program = [exists |-> FALSE] \/ (ProgramOK /\ Computed)

-----------------------------------------------------------------------------
(* The machine.                                                            *)

LEMMA MachineInitially == ASSUME Init PROVE MachineInv
  BY SystemAssumption DEF Init, MachineInv, VmOK, NoVm

(* The steps of the host that leave the machine and the phase alone, or    *)
(* that end in a phase in which a machine may exist.                       *)
LEMMA MachineKept ==
  ASSUME MachineInv, UNCHANGED <<order, vm>>,
         phase' \notin {"stop", "stopped", "exited"}
  PROVE  MachineInv'
  BY DEF MachineInv, VmOK, NoVm, Owner

LEMMA MachineKeptInPhase ==
  ASSUME MachineInv, UNCHANGED <<order, phase, at, vm>>
  PROVE  MachineInv'
  BY DEF MachineInv, VmOK, NoVm, Owner

(* No machine is left over by a step that leaves none.                     *)
LEMMA MachineGone ==
  ASSUME MachineInv, vm' = NoVm, order' = order, phase' = "stop" => at' \in Nat
  PROVE  MachineInv'
  BY DEF MachineInv, VmOK, NoVm, Owner

LEMMA MachineStep == ASSUME MachineInv, [Next]_vars PROVE MachineInv'
  <1>1. CASE UNCHANGED vars
    BY <1>1, MachineKeptInPhase DEF vars, manager
  <1>2. CASE InputChanges
    BY <1>2, MachineKeptInPhase DEF InputChanges, manager
  <1>3. CASE Unit
    <2>1. CASE TickVm
      <3>1. /\ UNCHANGED <<order, phase, at>>
            /\ vm.exists' = vm.exists
            /\ VmOK'
        <4>1. UNCHANGED <<order, phase, at>>
          BY <2>1 DEF TickVm, manager
        <4>2. CASE UNCHANGED vm
          BY <4>1, <4>2 DEF MachineInv, VmOK
        <4>3. CASE ~UNCHANGED vm
          <5>1. vm \in [exists : {TRUE}, stop : BOOLEAN, cycles : Nat, loaded : BOOLEAN]
            <6>1. vm.exists
              BY <2>1, <4>3 DEF TickVm, vm32_execute_cycle, vm_execute_single_cycle
            <6>2. vm # NoVm
              BY <6>1 DEF NoVm
            <6>3. QED
              BY <6>2 DEF MachineInv, VmOK
          <5>2. PICK exits \in BOOLEAN :
                  vm' = [vm EXCEPT !.cycles = @ + 1, !.stop = exits]
            BY <2>1, <4>3 DEF TickVm, vm32_execute_cycle, vm_execute_single_cycle
          <5>3. QED
            <6>1. /\ vm.exists = TRUE /\ vm.cycles \in Nat /\ vm.loaded \in BOOLEAN
                  /\ vm = [exists |-> vm.exists, stop |-> vm.stop,
                           cycles |-> vm.cycles, loaded |-> vm.loaded]
              BY <5>1
            <6>2. PICK n \in Nat : n = vm.cycles + 1
              BY <6>1
            <6>3. vm' = [exists |-> TRUE, stop |-> exits, cycles |-> n,
                         loaded |-> vm.loaded]
              BY <5>2, <6>1, <6>2
            <6>4. vm' \in [exists : {TRUE}, stop : BOOLEAN, cycles : Nat,
                           loaded : BOOLEAN]
              BY <6>1, <6>3, Zenon
            <6>5. QED
              BY <4>1, <6>1, <6>3, <6>4 DEF VmOK
        <4>4. QED
          BY <4>1, <4>2, <4>3
      <3>2. QED
        BY <3>1 DEF MachineInv, Owner
    <2>2. CASE readInputs \/ beginCycle \/ evaluate \/ endCycle \/ writeOutputs
      BY <2>2, MachineKeptInPhase
      DEF readInputs, beginCycle, evaluate, endCycle, writeOutputs, Within, manager
    <2>3. CASE TickDone
      BY <2>3, MachineKeptInPhase DEF TickDone, manager
    <2>4. QED
      BY <1>3, <2>1, <2>2, <2>3 DEF Unit
  <1>4. CASE Host
    <2>1. CASE InitAll
      BY <2>1, MachineKept DEF InitAll
    <2>2. CASE InitVm
      <3>1. /\ order' = order /\ phase' = phase /\ phase = "init"
            /\ at \in DOMAIN order /\ order[at] = "vm"
        BY <2>2 DEF InitVm, Turn
      <3>2. VmOK'
        BY <2>2 DEF InitVm, MakeMachine, Machine, VmOK
      <3>3. \E k \in 1 .. Len(order') : Owner(k)'
        BY <3>1 DEF MachineInv, Owner
      <3>4. QED
        BY <3>1, <3>2, <3>3 DEF MachineInv
    <2>3. CASE InitFails \/ StartFails
      BY <2>3, MachineKept DEF InitFails, StartFails
    <2>4. CASE AllDone("init", "ready") \/ AllDone("start", "started")
      BY <2>4, MachineKept DEF AllDone
    <2>5. CASE \E c \in Components \ {"vm"} : InitComponent(c)
      BY <2>5, MachineKept DEF InitComponent, Turn
    <2>6. CASE StartAll
      BY <2>6, MachineKept DEF StartAll
    <2>7. CASE StartTaskManager
      BY <2>7, MachineKept DEF StartTaskManager, Turn
    <2>8. CASE StartVm
      BY <2>8, MachineKept DEF StartVm, Turn
    <2>9. CASE \E c \in Components \ {"tasks", "vm"} : StartComponent(c)
      BY <2>9, MachineKept DEF StartComponent, Turn
    <2>10. CASE StopAll
      <3>1. at' = Len(order) /\ phase' = "stop" /\ UNCHANGED <<order, vm>>
        BY <2>10 DEF StopAll
      <3>2. at' \in Nat /\ \A k \in 1 .. Len(order) : k <= at'
        BY <3>1, LenProperties DEF MachineInv
      <3>3. QED
        BY <3>1, <3>2 DEF MachineInv, VmOK, NoVm, Owner
    <2>11. CASE StopVm
      <3>1. at \in DOMAIN order
        BY <2>11 DEF StopVm, Turn
      <3>2. vm' = NoVm /\ order' = order /\ at' = at - 1
        BY <2>11 DEF StopVm, vm32_shutdown
      <3>3. at' \in Nat
        BY <3>1, <3>2 DEF MachineInv
      <3>4. QED
        BY <3>2, <3>3, MachineGone
    <2>12. CASE StopDone
      <3>1. phase = "stop" /\ at = 0 /\ UNCHANGED <<order, at, vm>> /\ phase' = "stopped"
        BY <2>12 DEF StopDone
      <3>2. ~vm.exists
        BY <3>1 DEF MachineInv
      <3>3. QED
        BY <3>1, <3>2 DEF MachineInv, VmOK, NoVm, Owner
    <2>13. CASE \E c \in Components \ {"vm"} : StopComponent(c)
      <3>1. PICK c \in Components \ {"vm"} : StopComponent(c)
        BY <2>13
      <3>2. /\ at \in DOMAIN order /\ order[at] # "vm" /\ at' = at - 1
            /\ phase = "stop" /\ UNCHANGED <<order, phase, vm>>
        BY <3>1 DEF StopComponent, Turn
      <3>3. at \in 1 .. Len(order) /\ at' \in Nat
        BY <3>2 DEF MachineInv
      <3>4. ASSUME vm.exists PROVE \E k \in 1 .. Len(order) : Owner(k) /\ k <= at'
        <4>1. PICK k \in 1 .. Len(order) : Owner(k) /\ k <= at
          BY <3>2, <3>4 DEF MachineInv
        <4>2. k # at
          BY <4>1, <3>2 DEF Owner
        <4>3. k <= at'
          BY <4>1, <4>2, <3>2, <3>3
        <4>4. QED
          BY <4>1, <4>3
      <3>5. QED
        BY <3>2, <3>3, <3>4 DEF MachineInv, VmOK, NoVm, Owner
    <2>14. CASE AddProgram
      BY <2>14, MachineKeptInPhase DEF AddProgram, manager
    <2>15. CASE Tick
      BY <2>15, MachineKeptInPhase DEF Tick, manager
    <2>16. CASE Exit
      BY <2>16, MachineGone DEF Exit, vm32_shutdown
    <2>17. CASE Exited
      BY <2>17, MachineKeptInPhase DEF Exited, vars, manager
    <2>18. QED
      BY <1>4, <2>1, <2>2, <2>3, <2>4, <2>5, <2>6, <2>7, <2>8, <2>9, <2>10,
         <2>11, <2>12, <2>13, <2>14, <2>15, <2>16, <2>17 DEF Host
  <1>5. QED
    BY <1>1, <1>2, <1>3, <1>4 DEF Next

(* However components are composed, and whatever the order in which the    *)
(* host initialises, starts, ticks and stops them, no machine is left      *)
(* behind vm_api.c after a stop or at the end of the process.              *)
THEOREM MachineIsGone == Spec => []NoMachineAfterStop
  <1>1. Init => MachineInv
    BY MachineInitially
  <1>2. MachineInv /\ [Next]_vars => MachineInv'
    BY MachineStep
  <1>3. MachineInv => NoMachineAfterStop
    BY DEF MachineInv, NoMachineAfterStop
  <1>4. QED
    BY <1>1, <1>2, <1>3, PTL DEF Spec

-----------------------------------------------------------------------------
(* The program.                                                            *)

LEMMA ScanInitially == ASSUME Init PROVE ScanInv
  BY DEF Init, ScanInv

(* Between two ticks no program is in the middle of its cycle.             *)
LEMMA NoneInTheMiddle ==
  ASSUME ScanInv, ticked = 0, UNCHANGED world, ticked' \in Nat
  PROVE  ScanInv'
  <1>1. CASE program = [exists |-> FALSE]
    BY <1>1 DEF ScanInv, world
  <1>2. CASE ProgramOK /\ Computed
    <2>1. ProgramOK'
      BY <1>2 DEF ProgramOK, world
    <2>2. program.step = "read"
      BY <1>2 DEF Computed
    <2>3. Computed'
      BY <1>2, <2>2 DEF Computed, world
    <2>4. QED
      BY <2>1, <2>3 DEF ScanInv, world
  <1>3. QED
    BY <1>1, <1>2 DEF ScanInv

(* A new program starts with what its input delivers.                      *)
LEMMA ScanAddProgram ==
  ASSUME ScanInv, AddProgram, ticked = 0
  PROVE  ScanInv'
  <1> DEFINE q == [exists |-> TRUE, step |-> "read", image |-> field,
                   var |-> [e \in Expressions |-> field],
                   out |-> [e \in Expressions |-> field],
                   expr |-> 1, cycleId |-> 0, status |-> "Idle"]
  <1>1. program' = q /\ ticked' = ticked /\ field' = field /\ field \in Values
    BY DEF AddProgram, ScanInv
  <1>2. [e \in Expressions |-> field] \in [Expressions -> Values]
    BY <1>1
  <1>3. ProgramOK'
    BY <1>1, <1>2 DEF ProgramOK
  <1>4. \A e \in Expressions : q.out[e] = q.image
    OBVIOUS
  <1>5. Computed'
    BY <1>1, <1>4 DEF Computed
  <1>6. QED
    BY <1>1, <1>3, <1>5 DEF ScanInv

(* The units do not change within a tick, so a program that is in the      *)
(* middle of its cycle is still the one that the scheduler is at.          *)
LEMMA UnitsStay ==
  ASSUME Within, UNCHANGED ticked
  PROVE  \A unit : Reached(unit)' <=> Reached(unit)
  BY DEF Within, Reached, Units, running

LEMMA ScanReadInputs ==
  ASSUME ScanInv, readInputs, ticked # 0
  PROVE  ScanInv'
  <1>1. ProgramOK /\ field \in Values
    BY DEF ScanInv, readInputs, At
  <1>2. /\ program' = [program EXCEPT !.image = field, !.step = "begin"]
        /\ UNCHANGED <<ticked, field>> /\ Reached("program")
    BY DEF readInputs, At, Within
  <1>3. ProgramOK'
    BY <1>1, <1>2 DEF ProgramOK
  <1>4. program'.step = "begin"
    BY <1>1, <1>2 DEF ProgramOK
  <1>5. Reached("program")'
    BY <1>2, UnitsStay DEF readInputs
  <1>6. Computed'
    BY <1>2, <1>4, <1>5 DEF Computed
  <1>7. QED
    BY <1>2, <1>3, <1>6 DEF ScanInv

LEMMA ScanBeginCycle ==
  ASSUME ScanInv, beginCycle, ticked # 0
  PROVE  ScanInv'
  <1>1. ProgramOK
    BY DEF ScanInv, beginCycle, At
  <1> DEFINE p == [program EXCEPT !.cycleId = program.cycleId + 1]
             q == [p EXCEPT !.status = "Running"]
  <1>2. /\ program' = [q EXCEPT !.expr = 1, !.step = "evaluate"]
        /\ UNCHANGED <<ticked, field>> /\ Reached("program")
    BY DEF beginCycle, newCycle, setStatus, At, Within
  <1>3. ProgramOK'
    <2>1. PICK n \in Nat : n = program.cycleId + 1
      BY <1>1 DEF ProgramOK
    <2>2. program' = [program EXCEPT !.cycleId = n, !.status = "Running",
                                     !.expr = 1, !.step = "evaluate"]
      BY <1>1, <1>2, <2>1 DEF ProgramOK
    <2>3. QED
      BY <1>1, <2>2 DEF ProgramOK
  <1>4. program'.step = "evaluate" /\ program'.expr = 1
    BY <1>1, <1>2 DEF ProgramOK
  <1>5. Reached("program")'
    BY <1>2, UnitsStay DEF beginCycle
  <1>6. \A e \in Expressions : ~(e < 1)
    BY DEF Expressions
  <1>7. Computed'
    BY <1>2, <1>4, <1>5, <1>6 DEF Computed
  <1>8. QED
    BY <1>2, <1>3, <1>7 DEF ScanInv

LEMMA ScanEvaluate ==
  ASSUME ScanInv, evaluate, ticked # 0
  PROVE  ScanInv'
  <1> DEFINE i == program.expr
  <1>1. /\ ProgramOK /\ Computed
        /\ program.step = "evaluate" /\ i \in Expressions
    BY DEF ScanInv, evaluate, At
  <1>2. /\ program' = [program EXCEPT !.var[i] = program.image, !.expr = @ + 1]
        /\ UNCHANGED <<ticked, field>> /\ Reached("program")
    BY DEF evaluate, At, Within
  <1>3. program.var \in [Expressions -> Values] /\ program.image \in Values
    BY <1>1 DEF ProgramOK
  <1>4. [program.var EXCEPT ![i] = program.image] \in [Expressions -> Values]
    BY <1>3
  <1>5. /\ program'.var = [program.var EXCEPT ![i] = program.image]
        /\ program'.expr = i + 1 /\ i \in Nat
        /\ program'.step = program.step /\ program'.image = program.image
    BY <1>1, <1>2 DEF ProgramOK
  <1>6. ProgramOK'
    <2>1. PICK n \in Nat : n = program.expr + 1
      BY <1>1 DEF ProgramOK
    <2>2. PICK f \in [Expressions -> Values] : f = [program.var EXCEPT ![i] = program.image]
      BY <1>4
    <2>3. program' = [program EXCEPT !.var = f, !.expr = n]
      BY <1>1, <1>2, <2>1, <2>2
    <2>4. QED
      BY <1>1, <2>3 DEF ProgramOK
  <1>7. ASSUME NEW e \in Expressions, e < program'.expr
        PROVE  program'.var[e] = program'.image
    <2>1. e \in Nat /\ e <= i
      BY <1>5, <1>7 DEF Expressions
    <2>2. CASE e = i
      BY <1>3, <1>5, <2>2
    <2>3. CASE e < i
      BY <1>1, <1>3, <1>5, <2>3 DEF Computed
    <2>4. QED
      BY <1>5, <2>1, <2>2, <2>3
  <1>8. Reached("program")'
    BY <1>2, UnitsStay DEF evaluate
  <1>9. Computed'
    BY <1>1, <1>2, <1>5, <1>7, <1>8 DEF Computed
  <1>10. QED
    BY <1>2, <1>6, <1>9 DEF ScanInv

LEMMA ScanEndCycle ==
  ASSUME ScanInv, endCycle, ticked # 0
  PROVE  ScanInv'
  <1>1. /\ ProgramOK /\ Computed /\ program.step = "evaluate"
        /\ program.expr \notin Expressions
    BY DEF ScanInv, endCycle, At
  <1>2. /\ program' = [[program EXCEPT !.status = "Idle"] EXCEPT !.step = "write"]
        /\ UNCHANGED <<ticked, field>> /\ Reached("program")
    BY DEF endCycle, setStatus, At, Within
  <1>3. ProgramOK'
    BY <1>1, <1>2 DEF ProgramOK
  <1>4. /\ program'.step = "write"
        /\ program'.var = program.var /\ program'.image = program.image
    BY <1>1, <1>2 DEF ProgramOK
  <1>5. ASSUME NEW e \in Expressions PROVE program.var[e] = program.image
    <2>1. e < program.expr
      <3>1. program.expr \in Nat /\ program.expr \notin 1 .. 2 /\ program.expr # 0
        BY <1>1 DEF Expressions, ProgramOK, Computed
      <3>2. e \in 1 .. 2
        BY DEF Expressions
      <3>3. QED
        BY <3>1, <3>2
    <2>2. QED
      BY <1>1, <2>1 DEF Computed
  <1>6. Reached("program")'
    BY <1>2, UnitsStay DEF endCycle
  <1>7. Computed'
    BY <1>2, <1>4, <1>5, <1>6 DEF Computed
  <1>8. QED
    BY <1>2, <1>3, <1>7 DEF ScanInv

LEMMA ScanWriteOutputs ==
  ASSUME ScanInv, writeOutputs, ticked # 0
  PROVE  ScanInv'
  <1>1. ProgramOK /\ Computed /\ program.step = "write" /\ ticked \in Nat
    BY DEF ScanInv, writeOutputs, At
  <1>2. /\ program' = [program EXCEPT !.out = program.var, !.step = "read"]
        /\ ticked' = ticked + 1 /\ UNCHANGED field
    BY DEF writeOutputs, Within, NextUnit
  <1>3. ProgramOK'
    BY <1>1, <1>2 DEF ProgramOK
  <1>4. /\ program'.step = "read"
        /\ program'.out = program.var /\ program'.image = program.image
    BY <1>1, <1>2 DEF ProgramOK
  <1>5. Computed'
    BY <1>1, <1>4 DEF Computed
  <1>6. ticked' \in Nat
    BY <1>1, <1>2
  <1>7. QED
    BY <1>2, <1>3, <1>5, <1>6 DEF ScanInv

(* A step of the scheduler that is not one of the program finds it between *)
(* two of its cycles.                                                      *)
LEMMA ScanElsewhere ==
  ASSUME ScanInv, ~Reached("program"), UNCHANGED world, ticked' \in Nat
  PROVE  ScanInv'
  <1>1. CASE program = [exists |-> FALSE]
    BY <1>1 DEF ScanInv, world
  <1>2. CASE ProgramOK /\ Computed
    <2>1. ProgramOK'
      BY <1>2 DEF ProgramOK, world
    <2>2. program.step = "read"
      BY <1>2 DEF Computed
    <2>3. Computed'
      BY <1>2, <2>2 DEF Computed, world
    <2>4. QED
      BY <2>1, <2>3 DEF ScanInv, world
  <1>3. QED
    BY <1>1, <1>2 DEF ScanInv

(* The input and nothing else changes.                                     *)
LEMMA ScanInputChanges == ASSUME ScanInv, InputChanges PROVE ScanInv'
  <1>1. /\ UNCHANGED <<ticked, program>> /\ field' \in Values
        /\ UNCHANGED <<scheduled, tasks>>
    BY DEF InputChanges, running
  <1>2. ProgramOK' <=> ProgramOK
    BY <1>1 DEF ProgramOK
  <1>3. Computed' <=> Computed
    BY <1>1 DEF Computed, Reached, Units
  <1>4. QED
    BY <1>1, <1>2, <1>3 DEF ScanInv

LEMMA ScanStep == ASSUME ScanInv, [Next]_vars PROVE ScanInv'
  <1>1. CASE UNCHANGED vars
    <2>1. UNCHANGED <<ticked, program, field, scheduled, tasks>>
      BY <1>1 DEF vars, running, world
    <2>2. (ProgramOK' <=> ProgramOK) /\ (Computed' <=> Computed)
      BY <2>1 DEF ProgramOK, Computed, Reached, Units
    <2>3. QED
      BY <2>1, <2>2 DEF ScanInv
  <1>2. CASE InputChanges
    BY <1>2, ScanInputChanges
  <1>3. CASE Unit
    <2>1. CASE TickVm
      <3>1. ticked' = ticked + 1 /\ UNCHANGED world /\ ~Reached("program")
        BY <2>1 DEF TickVm, NextUnit, Reached
      <3>2. QED
        BY <3>1, ScanElsewhere DEF ScanInv
    <2>2. CASE TickDone
      <3>1. ticked' = 0 /\ UNCHANGED world /\ ~Reached("program")
        BY <2>2 DEF TickDone, Reached
      <3>2. QED
        BY <3>1, ScanElsewhere
    <2>3. QED
      BY <1>3, <2>1, <2>2, ScanReadInputs, ScanBeginCycle, ScanEvaluate,
         ScanEndCycle, ScanWriteOutputs DEF Unit
  <1>4. CASE Host
    <2>1. ticked = 0
      BY <1>4 DEF Host
    <2>2. CASE AddProgram
      BY <2>1, <2>2, ScanAddProgram
    <2>3. CASE ~AddProgram
      <3>1. UNCHANGED world /\ ticked' \in {0, 1}
        BY <1>4, <2>1, <2>3
        DEF Host, InitAll, InitVm, InitFails, AllDone, InitComponent, StartAll,
            StartTaskManager, StartVm, StartFails, StartComponent, StopAll, StopVm,
            StopDone, StopComponent, Tick, Exit, Exited, vars
      <3>2. QED
        BY <2>1, <3>1, NoneInTheMiddle
    <2>4. QED
      BY <2>2, <2>3
  <1>5. QED
    BY <1>1, <1>2, <1>3, <1>4 DEF Next

(* Whatever the input does while a program runs, and however often and in  *)
(* whichever order its task is scheduled, the outputs of an IEC program    *)
(* stem from one reading of its input (IecIoBinding, IecExecutionEngine).  *)
THEOREM OutputsStemFromOneScan == Spec => []OutputsOfOneScan
  <1>1. Init => ScanInv
    BY ScanInitially
  <1>2. ScanInv /\ [Next]_vars => ScanInv'
    BY ScanStep
  <1>3. ScanInv => OutputsOfOneScan
    <2>1. ASSUME ScanInv, program.exists, ticked = 0 PROVE Computed
      BY <2>1 DEF ScanInv
    <2>2. QED
      BY <2>1 DEF OutputsOfOneScan, Computed
  <1>4. QED
    BY <1>1, <1>2, <1>3, PTL DEF Spec
-----------------------------------------------------------------------------
(* The tasks in the scheduler.                                             *)

(* There are tasks only where there is a task manager to create them.  A   *)
(* start in progress has not counted for them until its turn has come.     *)
Counted ==
  \A t \in DOMAIN tasks : Occurrences(t) = Registrations - born[t]

ScheduleInv ==
  /\ order \in Seq(Components) /\ IsInjective(order)
  /\ calls \in [init : Nat, start : Nat, tick : Nat]
  /\ phase \in {"init", "start"} => at \in Nat
  /\ "tasks" \in services => "tasks" \in ToSet(order)
  /\ tasks # <<>> => "tasks" \in services
  /\ tasks \in Seq({<<"vm">>, <<"program">>}) /\ born \in Seq(Int)
  /\ Len(born) = Len(tasks)
  /\ scheduled \in Seq(DOMAIN tasks)
  /\ Counted

(* The turn of the task manager is over in this start, or was never due.   *)
Due == phase = "start" /\ \A k \in DOMAIN order : k < at => order[k] # "tasks"

LEMMA RegistrationsDue == Registrations = IF Due THEN calls.start - 1 ELSE calls.start
  BY DEF Registrations, Due

(* How often a value occurs in a sequence.                                 *)
Times(s, t) == Cardinality({k \in DOMAIN s : s[k] = t})

LEMMA Positions ==
  ASSUME NEW S, NEW s \in Seq(S), NEW t
  PROVE  /\ IsFiniteSet({k \in DOMAIN s : s[k] = t})
         /\ Cardinality({k \in DOMAIN s : s[k] = t}) \in Nat
  <1>1. DOMAIN s = 1 .. Len(s) /\ Len(s) \in Nat
    BY LenProperties
  <1>2. IsFiniteSet(1 .. Len(s))
    BY <1>1, FS_Interval
  <1>3. IsFiniteSet({k \in DOMAIN s : s[k] = t})
    <2>1. {k \in DOMAIN s : s[k] = t} \in SUBSET (1 .. Len(s))
      BY <1>1
    <2>2. QED
      BY <1>2, <2>1, FS_Subset
  <1>4. QED
    BY <1>3, FS_CardinalityType

(* All tasks are added once more, each of them at one new place.           *)
LEMMA OneMoreOfEach ==
  ASSUME NEW n \in Nat, NEW s \in Seq(1 .. n), NEW t \in 1 .. n,
         NEW all, all = [k \in 1 .. n |-> k]
  PROVE  Times(s \o all, t) = Times(s, t) + 1
  <1>1. all \in Seq(1 .. n) /\ Len(all) = n /\ \A k \in 1 .. n : all[k] = k
    BY SMT
  <1>2. /\ s \o all \in Seq(1 .. n)
        /\ Len(s \o all) = Len(s) + n
        /\ \A i \in 1 .. Len(s) + n : (s \o all)[i] =
             IF i <= Len(s) THEN s[i] ELSE all[i - Len(s)]
    BY <1>1, ConcatProperties
  <1>3. /\ DOMAIN s = 1 .. Len(s) /\ Len(s) \in Nat
        /\ DOMAIN (s \o all) = 1 .. Len(s) + n
    BY <1>2, LenProperties
  <1> DEFINE old == {k \in DOMAIN s : s[k] = t}
             new == {k \in DOMAIN (s \o all) : (s \o all)[k] = t}
  <1>4. ASSUME NEW k \in 1 .. Len(s) + n
        PROVE  (s \o all)[k] = t <=> k \in old \/ k = Len(s) + t
    <2>1. CASE k <= Len(s)
      BY <1>2, <1>3, <2>1
    <2>2. CASE k > Len(s)
      <3>1. (s \o all)[k] = k - Len(s)
        BY <1>1, <1>2, <1>3, <2>2
      <3>2. QED
        BY <1>3, <2>2, <3>1
    <2>3. QED
      BY <1>3, <2>1, <2>2
  <1>5. new = old \cup {Len(s) + t}
    <2>1. \A k \in new : k \in old \cup {Len(s) + t}
      BY <1>3, <1>4
    <2>2. Len(s) + t \in 1 .. Len(s) + n
      BY <1>3
    <2>3. \A k \in old : k \in 1 .. Len(s) + n
      BY <1>3
    <2>4. \A k \in old \cup {Len(s) + t} : k \in new
      BY <1>3, <1>4, <2>2, <2>3
    <2> HIDE DEF old, new
    <2> QED
      BY <2>1, <2>4
  <1>6. Len(s) + t \notin old
    BY <1>3
  <1>7. IsFiniteSet(old)
    BY Positions
  <1>8. Cardinality(new) = Cardinality(old) + 1
    BY <1>5, <1>6, <1>7, FS_AddElement
  <1>9. QED
    BY <1>8 DEF Times

LEMMA ScheduleInitially == ASSUME Init PROVE ScheduleInv
  <1>1. order \in Seq(Components) /\ IsInjective(order)
    BY SystemAssumption, ComposedOnce DEF Init
  <1>2. /\ calls \in [init : Nat, start : Nat, tick : Nat]
        /\ phase = "created" /\ at = 0 /\ services = {}
        /\ tasks = <<>> /\ born = <<>> /\ scheduled = <<>>
    BY DEF Init
  <1>3. Counted
    BY <1>2 DEF Counted
  <1>4. QED
    BY <1>1, <1>2, <1>3 DEF ScheduleInv

(* The steps that leave the tasks and what has been counted for them.      *)
LEMMA ScheduleKept ==
  ASSUME ScheduleInv, UNCHANGED <<order, tasks, scheduled, born>>,
         calls' \in [init : Nat, start : Nat, tick : Nat],
         phase' \in {"init", "start"} => at' \in Nat,
         "tasks" \in services' => "tasks" \in ToSet(order),
         "tasks" \in services => "tasks" \in services',
         tasks # <<>> => Registrations' = Registrations
  PROVE  ScheduleInv'
  <1>1. Counted'
    <2>1. CASE tasks = <<>>
      BY <2>1 DEF Counted
    <2>2. CASE tasks # <<>>
      BY <2>2 DEF Counted, ScheduleInv, Occurrences
    <2>3. QED
      BY <2>1, <2>2
  <1>2. QED
    BY <1>1 DEF ScheduleInv

(* A new task is not in the scheduler yet.                                 *)
LEMMA ScheduleCreate ==
  ASSUME ScheduleInv, "tasks" \in services,
         NEW units \in {<<"vm">>, <<"program">>}, createTask(units),
         UNCHANGED <<order, phase, services, scheduled, calls>>,
         phase' \in {"init", "start"} => at' \in Nat,
         Registrations' = Registrations
  PROVE  ScheduleInv'
  <1>1. tasks' = Append(tasks, units) /\ born' = Append(born, Registrations)
    BY DEF createTask
  <1>2. /\ tasks \in Seq({<<"vm">>, <<"program">>}) /\ born \in Seq(Int)
        /\ Len(born) = Len(tasks) /\ scheduled \in Seq(DOMAIN tasks)
        /\ calls.start \in Nat
    BY DEF ScheduleInv
  <1>3. Registrations \in Int
    BY <1>2, RegistrationsDue
  <1> DEFINE n == Len(tasks)
  <1>4. DOMAIN tasks = 1 .. n /\ n \in Nat
    BY <1>2
  <1>5. /\ tasks' \in Seq({<<"vm">>, <<"program">>}) /\ Len(tasks') = n + 1
        /\ DOMAIN tasks' = 1 .. n + 1
    BY <1>1, <1>2
  <1>6. /\ born' \in Seq(Int) /\ Len(born') = n + 1 /\ born'[n + 1] = Registrations
        /\ \A t \in 1 .. n : born'[t] = born[t]
    BY <1>1, <1>2, <1>3
  <1>7. scheduled' \in Seq(DOMAIN tasks')
    <2>1. DOMAIN tasks \subseteq DOMAIN tasks'
      BY <1>4, <1>5
    <2>2. QED
      BY <1>2, <2>1, SeqMonotonic
  <1>8. ASSUME NEW t \in DOMAIN tasks'
        PROVE  Occurrences(t)' = Registrations' - born'[t]
    <2>1. CASE t \in 1 .. n
      BY <1>4, <1>6, <2>1 DEF ScheduleInv, Counted, Occurrences
    <2>2. CASE t = n + 1
      <3>1. {k \in DOMAIN scheduled : scheduled[k] = t} = {}
        <4>1. \A k \in DOMAIN scheduled : scheduled[k] \in 1 .. n
          BY <1>2, <1>4
        <4>2. QED
          BY <1>4, <2>2, <4>1
      <3>2. Occurrences(t)' = 0
        BY <3>1, FS_EmptySet DEF Occurrences
      <3>3. QED
        BY <1>3, <1>6, <2>2, <3>2
    <2>3. QED
      BY <1>4, <1>5, <2>1, <2>2
  <1>9. QED
    BY <1>5, <1>6, <1>7, <1>8 DEF ScheduleInv, Counted

(* The task manager registers its tasks, and from then on this start has   *)
(* counted.                                                                *)
LEMMA ScheduleStartTasks == ASSUME ScheduleInv, StartTaskManager PROVE ScheduleInv'
  <1>1. /\ phase = "start" /\ at \in DOMAIN order /\ order[at] = "tasks"
        /\ scheduled' = scheduled \o [t \in DOMAIN tasks |-> t] /\ at' = at + 1
        /\ UNCHANGED <<order, phase, services, tasks, born, calls>>
    BY DEF StartTaskManager, Turn
  <1>2. at \in Nat /\ DOMAIN order = 1 .. Len(order) /\ IsInjective(order)
    BY <1>1 DEF ScheduleInv
  <1>3. Due
    <2>1. ASSUME NEW k \in DOMAIN order, k < at PROVE order[k] # "tasks"
      <3>1. k # at
        BY <1>2, <2>1
      <3>2. QED
        BY <1>1, <1>2, <3>1 DEF IsInjective
    <2>2. QED
      BY <1>1, <2>1 DEF Due
  <1>4. ~Due'
    <2>1. at < at'
      BY <1>1, <1>2
    <2>2. QED
      BY <1>1, <2>1 DEF Due
  <1>5. Registrations' = Registrations + 1
    <2>1. calls.start \in Nat
      BY DEF ScheduleInv
    <2>2. Registrations = calls.start - 1
      BY <1>3, RegistrationsDue
    <2>3. Registrations' = calls.start
      BY <1>1, <1>4 DEF Registrations, Due
    <2>4. QED
      BY <2>1, <2>2, <2>3
  <1> DEFINE n == Len(tasks)
  <1>6. DOMAIN tasks = 1 .. n /\ n \in Nat /\ scheduled \in Seq(1 .. n)
    BY DEF ScheduleInv
  <1>7. ASSUME NEW t \in DOMAIN tasks
        PROVE  Occurrences(t)' = Occurrences(t) + 1
    <2>1. [k \in DOMAIN tasks |-> k] = [k \in 1 .. n |-> k]
      BY <1>6
    <2>2. PICK all : all = [k \in 1 .. n |-> k]
      OBVIOUS
    <2>3. t \in 1 .. n /\ scheduled' = scheduled \o all
      BY <1>1, <1>6, <2>1, <2>2
    <2>4. Times(scheduled \o all, t) = Times(scheduled, t) + 1
      BY <1>6, <2>2, <2>3, OneMoreOfEach
    <2>5. QED
      BY <2>3, <2>4 DEF Occurrences, Times
  <1>8. scheduled' \in Seq(1 .. n)
    <2>1. [t \in 1 .. n |-> t] \in Seq(1 .. n)
      BY <1>6
    <2>2. QED
      BY <1>1, <1>6, <2>1, ConcatProperties
  <1>9. Counted'
    <2>1. ASSUME NEW t \in DOMAIN tasks
          PROVE  Occurrences(t)' = Registrations' - born[t]
      <3>1. Occurrences(t) = Registrations - born[t]
        BY DEF ScheduleInv, Counted
      <3>2. Registrations \in Int /\ born[t] \in Int
        BY <1>6, RegistrationsDue DEF ScheduleInv
      <3>3. QED
        BY <1>5, <1>7, <3>1, <3>2
    <2>2. QED
      BY <1>1, <2>1 DEF Counted
  <1>10. QED
    BY <1>1, <1>2, <1>6, <1>8, <1>9 DEF ScheduleInv

(* A start that is under way goes on to a component other than the task    *)
(* manager.                                                                *)
LEMMA RegistrationsKept ==
  ASSUME ScheduleInv, Turn("start", order[at]), order[at] # "tasks",
         at' = at + 1, UNCHANGED <<order, phase, calls>>
  PROVE  Registrations' = Registrations
  <1>1. phase = "start" /\ at \in DOMAIN order /\ at \in Nat
    BY DEF Turn, ScheduleInv
  <1>2. ASSUME NEW k \in DOMAIN order PROVE k < at + 1 <=> k < at \/ k = at
    BY <1>1 DEF ScheduleInv
  <1>3. Due' <=> Due
    BY <1>1, <1>2 DEF Due
  <1>4. QED
    BY <1>3 DEF Registrations, Due

LEMMA ScheduleStep == ASSUME ScheduleInv, [Next]_vars PROVE ScheduleInv'
  <1>0. /\ calls \in [init : Nat, start : Nat, tick : Nat]
        /\ phase \in {"init", "start"} => at \in Nat
        /\ "tasks" \in services => "tasks" \in ToSet(order)
    BY DEF ScheduleInv
  <1>1. CASE UNCHANGED <<manager, running, calls>>
    <2>1. UNCHANGED <<order, phase, at, services, tasks, scheduled, born, calls>>
      BY <1>1 DEF manager, running
    <2>2. Registrations' = Registrations
      BY <2>1 DEF Registrations
    <2>3. QED
      BY <1>0, <2>1, <2>2, ScheduleKept
  <1>2. CASE Unit
    <2>1. UNCHANGED <<manager, running, calls>>
      BY <1>2 DEF Unit, TickVm, readInputs, beginCycle, evaluate, endCycle,
                  writeOutputs, Within, TickDone
    <2>2. QED
      BY <1>1, <2>1
  <1>3. CASE Host
    <2>1. CASE InitAll
      <3>1. /\ phase \in Idle /\ phase' = "init" /\ at' = 1
            /\ calls' = [calls EXCEPT !.init = @ + 1]
            /\ UNCHANGED <<order, services, tasks, scheduled, born>>
        BY <2>1 DEF InitAll, running
      <3>2. /\ calls' \in [init : Nat, start : Nat, tick : Nat]
            /\ calls'.start = calls.start
        BY <1>0, <3>1
      <3>3. Registrations' = Registrations
        BY <3>1, <3>2 DEF Registrations, Idle
      <3>4. QED
        BY <1>0, <3>1, <3>2, <3>3, ScheduleKept
    <2>2. CASE \/ InitVm \/ \E c \in Components \ {"vm"} : InitComponent(c)
      <3>1. /\ phase = "init" /\ at \in DOMAIN order /\ at' = at + 1
            /\ UNCHANGED <<order, phase, tasks, scheduled, born, calls>>
            /\ services' \in {services, services \cup {order[at]}}
        BY <2>2 DEF InitVm, InitComponent, Turn, running, registerService
      <3>2. Registrations' = Registrations
        BY <3>1 DEF Registrations
      <3>3. "tasks" \in services' => "tasks" \in ToSet(order)
        BY <1>0, <3>1 DEF ToSet
      <3>4. QED
        BY <1>0, <3>1, <3>2, <3>3, ScheduleKept
    <2>3. CASE \/ InitFails \/ AllDone("init", "ready") \/ StopAll \/ StopVm \/ StopDone
               \/ Exit \/ \E c \in Components \ {"vm"} : StopComponent(c)
      <3>1. /\ phase # "start" /\ phase' \notin {"start", "init"}
            /\ UNCHANGED <<order, services, tasks, scheduled, born, calls>>
        BY <2>3 DEF InitFails, AllDone, StopAll, StopVm, StopDone, Exit, StopComponent,
                    Turn, running, Idle
      <3>2. Registrations' = Registrations
        BY <3>1 DEF Registrations
      <3>3. QED
        BY <1>0, <3>1, <3>2, ScheduleKept
    <2>4. CASE StartAll
      <3>1. /\ phase \in Idle /\ phase' = "start" /\ at' = 1
            /\ calls' = [calls EXCEPT !.start = @ + 1]
            /\ UNCHANGED <<order, services, tasks, scheduled, born>>
        BY <2>4 DEF StartAll, running
      <3>2. /\ calls' \in [init : Nat, start : Nat, tick : Nat]
            /\ calls'.start = calls.start + 1
        BY <1>0, <3>1
      <3>3. \A k \in DOMAIN order : ~(k < 1)
        BY DEF ScheduleInv
      <3>4. Registrations' = Registrations
        BY <1>0, <3>1, <3>2, <3>3 DEF Registrations, Idle
      <3>5. QED
        BY <1>0, <3>1, <3>2, <3>4, ScheduleKept
    <2>5. CASE StartTaskManager
      BY <2>5, ScheduleStartTasks
    <2>6. CASE StartVm
      <3>1. /\ Turn("start", "vm") /\ "tasks" \in services /\ createTask(<<"vm">>)
            /\ at' = at + 1 /\ UNCHANGED <<order, phase, services, scheduled, calls>>
        BY <2>6 DEF StartVm, getService
      <3>2. order[at] = "vm" /\ Turn("start", order[at])
        BY <3>1 DEF Turn
      <3>3. Registrations' = Registrations
        BY <3>1, <3>2, RegistrationsKept
      <3>4. phase' \in {"init", "start"} => at' \in Nat
        BY <1>0, <3>1
      <3>5. QED
        BY <3>1, <3>3, <3>4, ScheduleCreate
    <2>7. CASE StartFails
      <3>1. /\ "tasks" \notin services /\ phase' = "failed"
            /\ UNCHANGED <<order, services, tasks, scheduled, born, calls>>
        BY <2>7 DEF StartFails, getService, running
      <3>2. tasks = <<>>
        BY <3>1 DEF ScheduleInv
      <3>3. QED
        BY <1>0, <3>1, <3>2, ScheduleKept
    <2>8. CASE AllDone("start", "started")
      <3>1. /\ phase = "start" /\ at > Len(order) /\ phase' = "started"
            /\ UNCHANGED <<order, services, tasks, scheduled, born, calls>>
        BY <2>8 DEF AllDone, running
      <3>2. ASSUME tasks # <<>> PROVE ~Due
        <4>1. "tasks" \in ToSet(order)
          BY <3>2 DEF ScheduleInv
        <4>2. PICK k \in DOMAIN order : order[k] = "tasks"
          BY <4>1 DEF ToSet
        <4>3. k < at
          <5>1. DOMAIN order = 1 .. Len(order) /\ Len(order) \in Nat /\ at \in Nat
            BY <3>1 DEF ScheduleInv
          <5>2. QED
            BY <3>1, <5>1
        <4>4. QED
          BY <4>2, <4>3 DEF Due
      <3>3. tasks # <<>> => Registrations' = Registrations
        BY <3>1, <3>2 DEF Registrations, Due
      <3>4. QED
        BY <1>0, <3>1, <3>3, ScheduleKept
    <2>9. CASE \E c \in Components \ {"tasks", "vm"} : StartComponent(c)
      <3>1. /\ Turn("start", order[at]) /\ order[at] # "tasks" /\ at' = at + 1
            /\ UNCHANGED <<order, phase, services, tasks, scheduled, born, calls>>
        BY <2>9 DEF StartComponent, Turn, running
      <3>2. Registrations' = Registrations
        BY <3>1, RegistrationsKept
      <3>3. at' \in Nat
        BY <1>0, <3>1 DEF Turn
      <3>4. QED
        BY <1>0, <3>1, <3>2, <3>3, ScheduleKept
    <2>10. CASE AddProgram
      <3>1. /\ "tasks" \in services /\ createTask(<<"program">>)
            /\ UNCHANGED <<order, phase, at, services, scheduled, calls>>
        BY <2>10 DEF AddProgram, getService, manager
      <3>2. Registrations' = Registrations
        BY <3>1 DEF Registrations
      <3>3. QED
        BY <1>0, <3>1, <3>2, ScheduleCreate
    <2>11. CASE Tick
      <3>1. /\ UNCHANGED <<order, phase, at, services, tasks, scheduled, born>>
            /\ calls' = [calls EXCEPT !.tick = @ + 1]
        BY <2>11 DEF Tick, manager, running
      <3>2. /\ calls' \in [init : Nat, start : Nat, tick : Nat]
            /\ calls'.start = calls.start
        BY <1>0, <3>1
      <3>3. Registrations' = Registrations
        BY <3>1, <3>2 DEF Registrations
      <3>4. QED
        BY <1>0, <3>1, <3>2, <3>3, ScheduleKept
    <2>12. CASE Exited
      BY <1>1, <2>12 DEF Exited, vars
    <2>13. QED
      BY <1>3, <2>1, <2>2, <2>3, <2>4, <2>5, <2>6, <2>7, <2>8, <2>9, <2>10,
         <2>11, <2>12 DEF Host
  <1>4. QED
    BY <1>1, <1>2, <1>3 DEF Next, InputChanges, vars

(* However the host mixes its calls, and wherever in the composition the   *)
(* task manager is, the scheduler holds a task once for every startAll     *)
(* that reached the task manager after the task was made: every restart    *)
(* multiplies the cycles of a tick, and a task made after the start is not *)
(* run at all (TaskManager::registerToScheduler).                          *)
THEOREM TasksAreScheduledPerStart == Spec => []ScheduledPerStart
  <1>1. Init => ScheduleInv
    BY ScheduleInitially
  <1>2. ScheduleInv /\ [Next]_vars => ScheduleInv'
    BY ScheduleStep
  <1>3. ScheduleInv => ScheduledPerStart
    <2>1. ASSUME ScheduleInv, NEW t \in DOMAIN tasks PROVE "tasks" \in ToSet(order)
      <3>1. tasks # <<>>
        OBVIOUS
      <3>2. QED
        BY <2>1, <3>1 DEF ScheduleInv
    <2>2. QED
      BY <2>1 DEF ScheduledPerStart, ScheduleInv, Counted
  <1>4. QED
    BY <1>1, <1>2, <1>3, PTL DEF Spec
=============================================================================
