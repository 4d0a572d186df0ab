-------------------------- MODULE MCSystemRuntime --------------------------
(***************************************************************************)
(* Instances of SystemRuntime for TLC: the composition of main.cpp, the    *)
(* one with the machine before the task manager, and two that fail, one    *)
(* with no task manager to start with and one with the task manager before *)
(* the scheduler.                                                          *)
(***************************************************************************)
EXTENDS SystemRuntime

MainOrder == <<"events", "logger", "scheduler", "tasks", "vm">>
MachineFirst == <<"events", "logger", "scheduler", "vm", "tasks">>
NoTaskManager == <<"logger", "scheduler", "vm">>
TasksBeforeScheduler == <<"vm", "tasks", "scheduler">>

AllOrders == {MainOrder, MachineFirst, NoTaskManager, TasksBeforeScheduler}
MainOnly == {MainOrder}
=============================================================================
