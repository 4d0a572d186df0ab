--------------------------- MODULE SystemRuntime ---------------------------
(***************************************************************************)
(* The system around the virtual machine (system-master): the component    *)
(* manager, the bus, the scheduler, the task manager, the component of the *)
(* machine with its engine and the C interface below it, and an IEC        *)
(* program as a second thing to tick.                                      *)
(*                                                                         *)
(* A host composes components in some order, as main.cpp does, and then    *)
(* calls initAll, startAll, stopAll and the tick of the scheduler; it ends *)
(* when one of the first two fails.  Nothing but the host's good manners   *)
(* keeps these calls in the order of main.cpp, so it may repeat them.      *)
(*                                                                         *)
(* A component of the code is a name here, which also stands for the       *)
(* service that its init registers on the bus.  What the cycle of the      *)
(* machine computes is the subject of ScanCycle and Controller.            *)
(*                                                                         *)
(* Definitions named F_... are faulty variants of the definition after     *)
(* them; they serve to show which property detects them.                   *)
(***************************************************************************)
EXTENDS Integers, Sequences, FiniteSets, SequencesExt

CONSTANTS
  Orders,     (* the ways to compose a system                              *)
  Values,     (* what an input of the IEC program may be                   *)
  MaxInits,   (* bounds on the calls of the host                           *)
  MaxStarts,
  MaxTicks

Components == {"events", "logger", "scheduler", "tasks", "vm"}

ASSUME SystemAssumption ==
  /\ \A order \in Orders : order \in Seq(Components)
  /\ Values # {}
  /\ {MaxInits, MaxStarts, MaxTicks} \subseteq Nat

(* Nobody composes a component twice.                                      *)
ASSUME ComposedOnce == \A order \in Orders : IsInjective(order)

VARIABLES
  order,      (* ComponentManager::components_                             *)
  phase,      (* where the host is                                         *)
  at,         (* the component whose turn it is                            *)
  services,   (* SystemBus::services_                                      *)
  tasks,      (* TaskManager::tasks_, with the units of each               *)
  scheduled,  (* Scheduler::tasks_                                         *)
  vm,         (* g_vm                                                      *)
  ticked,     (* the unit that the scheduler calls next                    *)
  field,      (* what the endpoint of the input delivers                   *)
  program,    (* the IEC program                                           *)
  calls,      (* how often the host made each call                         *)
  born        (* of each task, the number of startAll before it            *)

manager == <<order, phase, at>>
running == <<services, tasks, scheduled, born>>
world == <<field, program>>
vars == <<manager, running, vm, ticked, world, calls>>

NoVm == [exists |-> FALSE]
Machine(loaded) == [exists |-> TRUE, stop |-> FALSE, cycles |-> 0, loaded |-> loaded]

Idle == {"created", "ready", "started", "stopped"}
Expressions == 1 .. 2

Init ==
  /\ order \in Orders
  /\ phase = "created" /\ at = 0
  /\ services = {}
  /\ tasks = <<>> /\ scheduled = <<>> /\ born = <<>>
  /\ vm = NoVm
  /\ ticked = 0
  /\ field \in Values
  /\ program = [exists |-> FALSE]
  /\ calls = [init |-> 0, start |-> 0, tick |-> 0]

-----------------------------------------------------------------------------
(* ComponentManager::initAll.                                              *)

InitAll ==
  /\ phase \in Idle /\ calls.init < MaxInits
  /\ calls' = [calls EXCEPT !.init = @ + 1]
  /\ phase' = "init" /\ at' = 1
  /\ UNCHANGED <<order, running, vm, ticked, world>>

Turn(p, c) == phase = p /\ at \in DOMAIN order /\ order[at] = c

(* The bus.                                                                *)
registerService(service) == services' = services \cup {service}
getService(service) == service \in services

(* The first three register themselves; the task manager asks for the      *)
(* scheduler before.                                                       *)
InitComponent(c) ==
  /\ Turn("init", c)
  /\ c = "tasks" => getService("scheduler")
  /\ registerService(c)
  /\ at' = at + 1
  /\ UNCHANGED <<order, phase, tasks, scheduled, born, vm, ticked, world, calls>>

(* The engine makes the machine; that its programs were not loaded is      *)
(* ignored.                                                                *)
MakeMachine ==
  /\ ~vm.exists
  /\ \E loaded \in BOOLEAN : vm' = Machine(loaded)

InitVm ==
  /\ Turn("init", "vm")
  /\ MakeMachine
  /\ at' = at + 1
  /\ UNCHANGED <<order, phase, running, ticked, world, calls>>

(* There is a machine already, or no memory for one.                       *)
InitFails ==
  /\ \/ Turn("init", "tasks") /\ ~getService("scheduler")
     \/ Turn("init", "vm")
  /\ phase' = "failed"
  /\ UNCHANGED <<order, at, running, vm, ticked, world, calls>>

AllDone(p, q) ==
  /\ phase = p /\ at > Len(order)
  /\ phase' = q
  /\ UNCHANGED <<order, at, running, vm, ticked, world, calls>>

-----------------------------------------------------------------------------
(* ComponentManager::startAll.                                             *)

StartAll ==
  /\ phase \in Idle \ {"created"} /\ calls.start < MaxStarts
  /\ calls' = [calls EXCEPT !.start = @ + 1]
  /\ phase' = "start" /\ at' = 1
  /\ UNCHANGED <<order, running, vm, ticked, world>>

StartComponent(c) ==
  /\ Turn("start", c)
  /\ at' = at + 1
  /\ UNCHANGED <<order, phase, running, vm, ticked, world, calls>>

(* Tasks that are scheduled already are not added again.                   *)
F_StartTaskManager_only_new ==
  /\ Turn("start", "tasks")
  /\ scheduled' = scheduled \o
       SelectSeq([t \in DOMAIN tasks |-> t], LAMBDA t : t \notin ToSet(scheduled))
  /\ at' = at + 1
  /\ UNCHANGED <<order, phase, services, tasks, born, vm, ticked, world, calls>>

(* registerToScheduler adds all tasks, also those added before.  The init  *)
(* of this component has bound the scheduler.                              *)
StartTaskManager ==
  /\ Turn("start", "tasks")
  /\ scheduled' = scheduled \o [t \in DOMAIN tasks |-> t]
  /\ at' = at + 1
  /\ UNCHANGED <<order, phase, services, tasks, born, vm, ticked, world, calls>>

(* How often the task manager was started up to now.                       *)
Registrations ==
  IF phase = "start" /\ \A k \in DOMAIN order : k < at => order[k] # "tasks"
  THEN calls.start - 1 ELSE calls.start

createTask(units) ==
  /\ tasks' = Append(tasks, units)
  /\ born' = Append(born, Registrations)

StartVm ==
  /\ Turn("start", "vm")
  /\ getService("tasks")
  /\ createTask(<<"vm">>)
  /\ at' = at + 1
  /\ UNCHANGED <<order, phase, services, scheduled, vm, ticked, world, calls>>

StartFails ==
  /\ Turn("start", "vm") /\ ~getService("tasks")
  /\ phase' = "failed"
  /\ UNCHANGED <<order, at, running, vm, ticked, world, calls>>

-----------------------------------------------------------------------------
(* ComponentManager::stopAll, from the last component to the first.        *)

StopAll ==
  /\ phase \in Idle \ {"created"}
  /\ phase' = "stop" /\ at' = Len(order)
  /\ UNCHANGED <<order, running, vm, ticked, world, calls>>

StopComponent(c) ==
  /\ Turn("stop", c)
  /\ at' = at - 1
  /\ UNCHANGED <<order, phase, running, vm, ticked, world, calls>>

(* Stopped, but not shut down.                                             *)
F_vm32_shutdown_keeps == vm' = IF vm.exists THEN [vm EXCEPT !.stop = TRUE] ELSE vm

(* vm32_request_stop and vm32_shutdown.                                    *)
vm32_shutdown == vm' = NoVm

StopVm ==
  /\ Turn("stop", "vm")
  /\ vm32_shutdown
  /\ at' = at - 1
  /\ UNCHANGED <<order, phase, running, ticked, world, calls>>

StopDone ==
  /\ phase = "stop" /\ at = 0
  /\ phase' = "stopped"
  /\ UNCHANGED <<order, at, running, vm, ticked, world, calls>>

(* The end of main: the destructor of the VM component stops it once more. *)
Exit ==
  /\ phase \in Idle \cup {"failed"}
  /\ phase' = "exited"
  /\ vm32_shutdown
  /\ UNCHANGED <<order, at, running, ticked, world, calls>>

Exited == phase = "exited" /\ UNCHANGED vars

-----------------------------------------------------------------------------
(* The tick of the scheduler.                                              *)

(* An IEC program, added to a task of its own by the host.                 *)
AddProgram ==
  /\ phase \in Idle /\ getService("tasks") /\ ~program.exists
  /\ createTask(<<"program">>)
  /\ program' = [exists |-> TRUE, step |-> "read", image |-> field,
                 var |-> [e \in Expressions |-> field],
                 out |-> [e \in Expressions |-> field],
                 expr |-> 1, cycleId |-> 0, status |-> "Idle"]
  /\ UNCHANGED <<manager, services, scheduled, vm, ticked, field, calls>>

(* The units in the order in which the scheduler reaches them.             *)
Units == FlattenSeq([k \in DOMAIN scheduled |-> tasks[scheduled[k]]])

Tick ==
  /\ phase \in Idle /\ getService("scheduler") /\ ticked = 0
  /\ calls.tick < MaxTicks
  /\ calls' = [calls EXCEPT !.tick = @ + 1]
  /\ ticked' = 1
  /\ UNCHANGED <<manager, running, vm, world>>

NextUnit == ticked' = ticked + 1
Reached(unit) == ticked \in DOMAIN Units /\ Units[ticked] = unit

(* The cycle of a program may end with EXIT; one without modules counts.   *)
vm_execute_single_cycle ==
  IF vm.stop THEN UNCHANGED vm
  ELSE \E exits \in BOOLEAN :
         /\ exits => vm.loaded
         /\ vm' = [vm EXCEPT !.cycles = @ + 1, !.stop = exits]

vm32_execute_cycle == IF vm.exists THEN vm_execute_single_cycle ELSE UNCHANGED vm

TickVm ==
  /\ Reached("vm")
  /\ vm32_execute_cycle
  /\ NextUnit
  /\ UNCHANGED <<manager, running, world, calls>>

(* IecProgram::tick, step by step, while the inputs may change.            *)
At(step) == Reached("program") /\ program.exists /\ program.step = step
Within == UNCHANGED <<manager, running, vm, field, calls>>

readInputs ==
  /\ At("read")
  /\ program' = [program EXCEPT !.image = field, !.step = "begin"]
  /\ Within /\ UNCHANGED ticked

newCycle(p) == [p EXCEPT !.cycleId = @ + 1]
setStatus(p, status) == [p EXCEPT !.status = status]

beginCycle ==
  /\ At("begin")
  /\ program' = [setStatus(newCycle(program), "Running")
                   EXCEPT !.expr = 1, !.step = "evaluate"]
  /\ Within /\ UNCHANGED ticked

(* An expression of the host; those of the repository do nothing yet.      *)
evaluate ==
  /\ At("evaluate") /\ program.expr \in Expressions
  /\ program' = [program EXCEPT !.var[program.expr] = program.image,
                                !.expr = @ + 1]
  /\ Within /\ UNCHANGED ticked

endCycle ==
  /\ At("evaluate") /\ program.expr \notin Expressions
  /\ program' = [setStatus(program, "Idle") EXCEPT !.step = "write"]
  /\ Within /\ UNCHANGED ticked

(* Each output takes what the input delivers now.                          *)
F_writeOutputs_unlatched ==
  /\ At("write")
  /\ program' = [program EXCEPT !.out = [e \in Expressions |-> field], !.step = "read"]
  /\ Within /\ NextUnit

writeOutputs ==
  /\ At("write")
  /\ program' = [program EXCEPT !.out = program.var, !.step = "read"]
  /\ Within /\ NextUnit

TickDone ==
  /\ ticked \notin DOMAIN Units
  /\ ticked' = 0
  /\ UNCHANGED <<manager, running, vm, world, calls>>

InputChanges ==
  /\ phase # "exited"
  /\ field' \in Values \ {field}
  /\ UNCHANGED <<manager, running, vm, ticked, program, calls>>

-----------------------------------------------------------------------------
(* The host waits for the tick to return.                                  *)
Host ==
  /\ ticked = 0
  /\ \/ InitAll \/ InitVm \/ InitFails \/ AllDone("init", "ready")
     \/ \E c \in Components \ {"vm"} : InitComponent(c)
     \/ StartAll \/ StartTaskManager \/ StartVm \/ StartFails
     \/ AllDone("start", "started")
     \/ \E c \in Components \ {"tasks", "vm"} : StartComponent(c)
     \/ StopAll \/ StopVm \/ StopDone
     \/ \E c \in Components \ {"vm"} : StopComponent(c)
     \/ AddProgram \/ Tick \/ Exit \/ Exited

Unit ==
  /\ ticked # 0
  /\ \/ TickVm \/ readInputs \/ beginCycle \/ evaluate \/ endCycle \/ writeOutputs
     \/ TickDone

Next == Host \/ Unit \/ InputChanges

Spec == Init /\ [][Next]_vars

-----------------------------------------------------------------------------
(* A task is in the scheduler once for every startAll of the task manager  *)
(* that came after its creation: not at all when the system was started    *)
(* before, and n times, with n cycles in a tick, after n starts.           *)
Occurrences(t) == Cardinality({k \in DOMAIN scheduled : scheduled[k] = t})

ScheduledPerStart ==
  \A t \in DOMAIN tasks :
    Occurrences(t) = IF "tasks" \in ToSet(order) THEN Registrations - born[t] ELSE 0

(* What the documentation says: a started system has all its tasks in the  *)
(* scheduler.                                                              *)
AllTasksScheduled ==
  phase = "started" => DOMAIN tasks = ToSet(scheduled)

(* No machine outlives the system: after stopAll, and on every way out of  *)
(* the process, the one behind the C interface is gone, and the tasks that *)
(* the scheduler still holds find none.                                    *)
NoMachineAfterStop == phase \in {"stopped", "exited"} => ~vm.exists

(* Between two ticks the outputs of a program all stem from one reading of *)
(* its input, in the last of its cycles, however the input has changed     *)
(* since, also when the program is scheduled more than once.               *)
OutputsOfOneScan ==
  (program.exists /\ ticked = 0) =>
    \A e \in Expressions : program.out[e] = program.image
=============================================================================
