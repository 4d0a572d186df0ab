--------------------------- MODULE FunctionBlocks ---------------------------
(***************************************************************************)
(* Counters, edge detectors and latches (prototype-integrator:             *)
(* src/funcs.c; system-master: iec/runtime/legacy/src/funcs.c, an earlier  *)
(* copy).  There are MaxTimers blocks of each kind; a program works any of *)
(* them with any inputs in any order.                                      *)
(*                                                                         *)
(* The builds differ: the earlier one keeps a single previous input per id *)
(* for the three edge detectors, the later one keeps one for each.         *)
(*                                                                         *)
(* Definitions named F_... are faulty variants of the definition after     *)
(* them; they serve to show which property detects them.                   *)
(***************************************************************************)
EXTENDS Naturals

CONSTANTS
  MaxTimers,  (* MAX_TIMERS, 16                                            *)
  MaxCount,   (* UINT32_MAX                                                *)
  Builds      (* the builds to consider                                    *)

AllBuilds == {"prototype", "legacy"}
ASSUME BlocksAssumption == /\ MaxTimers \in Nat \ {0}
                           /\ MaxCount \in Nat \ {0}
                           /\ Builds \subseteq AllBuilds

Ids == 0 .. MaxTimers - 1
Counters == {"ctu", "ctd", "ctud"}
Latches == {"rs", "sr"}
EdgeKinds == {"rising", "falling", "both"}

(* The inputs whose previous value is kept.                                *)
Signals == {"ctu", "ctd", "up", "down", "input"} \cup EdgeKinds

VARIABLES
  build,    (* which of the two copies of funcs.c is compiled              *)
  counter,  (* vm->ctu_counters .. vm->ctud_counters, their values         *)
  prev,     (* vm->ctu_prev_input .. vm->edge_prev_both                    *)
  latch     (* vm->rs_latches, vm->sr_latches                              *)

blocks == <<build, counter, prev, latch>>

BlocksTypeOK ==
  /\ build \in Builds
  /\ counter \in [Counters -> [Ids -> 0 .. MaxCount]]
  /\ prev \in [Signals -> [Ids -> BOOLEAN]]
  /\ latch \in [Latches -> [Ids -> BOOLEAN]]

-----------------------------------------------------------------------------
Cleared ==
  /\ counter = [k \in Counters |-> [id \in Ids |-> 0]]
  /\ prev = [s \in Signals |-> [id \in Ids |-> FALSE]]
  /\ latch = [k \in Latches |-> [id \in Ids |-> FALSE]]

BlocksInit == build \in Builds /\ Cleared

Rising(signal, id, in) == in /\ ~prev[signal][id]
Sample(signal, id, in) == prev' = [prev EXCEPT ![signal][id] = in]

Up(n) == IF n < MaxCount THEN n + 1 ELSE n
Down(n) == IF n > 0 THEN n - 1 ELSE n

(* The previous input of another block is set.                             *)
F_Ctu_samples_ctd(id, in) ==
  /\ counter' = [counter EXCEPT !["ctu"][id] =
                   IF Rising("ctu", id, in) THEN Up(@) ELSE @]
  /\ Sample("ctd", id, in)
  /\ UNCHANGED <<build, latch>>

Ctu(id, in) ==
  /\ counter' = [counter EXCEPT !["ctu"][id] =
                   IF Rising("ctu", id, in) THEN Up(@) ELSE @]
  /\ Sample("ctu", id, in)
  /\ UNCHANGED <<build, latch>>

(* The counter is loaded as IEC 61131-3 has it.                            *)
F_Ctd_loads(id, in) ==
  /\ counter' = [counter EXCEPT !["ctd"][id] = IF in THEN Down(@) ELSE MaxCount]
  /\ Sample("ctd", id, in)
  /\ UNCHANGED <<build, latch>>

Ctd(id, in) ==
  /\ counter' = [counter EXCEPT !["ctd"][id] =
                   IF Rising("ctd", id, in) THEN Down(@) ELSE @]
  /\ Sample("ctd", id, in)
  /\ UNCHANGED <<build, latch>>

(* The edge is not looked for: a level counts.                             *)
F_Ctud_counts_level(id, up, down) ==
  /\ LET n == IF up THEN Up(counter["ctud"][id]) ELSE counter["ctud"][id]
     IN  counter' = [counter EXCEPT !["ctud"][id] = IF down THEN Down(n) ELSE n]
  /\ prev' = [prev EXCEPT !["up"][id] = up, !["down"][id] = down]
  /\ UNCHANGED <<build, latch>>

(* Up is counted before down.                                              *)
Ctud(id, up, down) ==
  /\ LET n == IF Rising("up", id, up) THEN Up(counter["ctud"][id])
                                      ELSE counter["ctud"][id]
     IN  counter' = [counter EXCEPT !["ctud"][id] =
                       IF Rising("down", id, down) THEN Down(n) ELSE n]
  /\ prev' = [prev EXCEPT !["up"][id] = up, !["down"][id] = down]
  /\ UNCHANGED <<build, latch>>

(* vm->edge_prev_rising and friends, or the one vm->edge_prev_input.       *)
F_Memory_shared(kind) == "input"
Memory(kind) == IF build = "legacy" THEN "input" ELSE kind

Edge(kind, id, in) ==
  /\ Sample(Memory(kind), id, in)
  /\ UNCHANGED <<build, counter, latch>>

RsLatch(id, s, r) ==
  /\ latch' = [latch EXCEPT !["rs"][id] = ~r /\ (s \/ @)]
  /\ UNCHANGED <<build, counter, prev>>

SrLatch(id, s, r) ==
  /\ latch' = [latch EXCEPT !["sr"][id] = s \/ (~r /\ @)]
  /\ UNCHANGED <<build, counter, prev>>

(* vm_state_clear_iec_state, when the machine is reset.                    *)
Clear == Cleared' /\ UNCHANGED build

-----------------------------------------------------------------------------
Work(id) ==
  \E x, y \in BOOLEAN :
    \/ Ctu(id, x) \/ Ctd(id, x) \/ Ctud(id, x, y)
    \/ \E kind \in EdgeKinds : Edge(kind, id, x)
    \/ RsLatch(id, x, y) \/ SrLatch(id, x, y)

BlocksNext == Clear \/ \E id \in Ids : Work(id)

BlocksSpec == BlocksInit /\ [][BlocksNext]_blocks

(* Nothing ever loads a count-down counter, so it never leaves 0 and its   *)
(* output, value <= preset, is on from the first scan.                     *)
CtdNeverCounts == \A id \in Ids : counter["ctd"][id] = 0
=============================================================================
