----------------------------- MODULE IecTimers -----------------------------
(***************************************************************************)
(* The IEC 61131-3 timer blocks of the VM (prototype-integrator,           *)
(* src/timers.c): on-delay TON, off-delay TOF, pulse TP, and the retentive *)
(* TONR and TOFR.  The program of the PLC sets a block's input and preset  *)
(* (op_ton and friends, or the tonr/tofr API); every scan ends by updating *)
(* all blocks.  Time is the virtual clock vm->time_ms; a block remembers   *)
(* the start of its interval as a struct timespec and ms_diff measures     *)
(* from it in C integer arithmetic, whose widths are kept as constants.    *)
(*                                                                         *)
(* Definitions named F_... are faulty variants of the definition after     *)
(* them, each a plausible mistake in that piece of code; they are not part *)
(* of the specification and serve to show which property detects them.     *)
(***************************************************************************)
EXTENDS Integers

CONSTANTS
  Programs,   (* the sets of kinds of block that a program may use         *)
  MaxTimers,  (* MAX_TIMERS: blocks of each kind (16)                      *)
  Presets,    (* preset_ms values the program passes; 0 is a legal one     *)
  MsPerSec,   (* 1000                                                      *)
  NsPerMs,    (* 1000000                                                   *)
  Width32,    (* 2^32: uint32_t                                            *)
  Width64,    (* 2^64: unsigned long long                                  *)
  MaxTime     (* bound on the virtual clock in the model                   *)

AllKinds == {"ton", "tof", "tp", "tonr", "tofr"}

ASSUME ProgramsAssumption == Programs \subseteq SUBSET AllKinds
ASSUME TimersAssumption == MaxTimers \in Nat \ {0}
ASSUME PresetsAssumption == Presets \subseteq 0 .. (Width32 - 1)
ASSUME UnitsAssumption == /\ MsPerSec \in Nat \ {0}
                          /\ NsPerMs \in Nat \ {0}
(* The widths are so related that a time difference below MaxTime fits in  *)
(* 32 bits, and a second's worth of nanoseconds in 64.                     *)
ASSUME WidthAssumption == /\ MaxTime \in Nat
                          /\ Width32 \in Nat /\ Width64 \in Nat
                          /\ MaxTime < Width32
                          /\ Width32 <= Width64
                          /\ MsPerSec * NsPerMs <= Width64

VARIABLES
  kinds,    (* the kinds of block the program uses; all others stay zero   *)
  time_ms,  (* vm->time_ms                                                 *)
  timers,   (* vm->ton_timers .. vm->tofr_timers, by <<kind, id>>          *)
  history   (* history: when the program last changed each block's input,  *)
            (* how long TONR's input was on before that, and whether the   *)
            (* interval under way has been measured without a disturbance  *)

vars == <<kinds, time_ms, timers, history>>

Blocks == kinds \X (0 .. MaxTimers - 1)

Timespec == [sec : Nat, nsec : Nat]

Timer == [enabled : BOOLEAN, input : BOOLEAN, output : BOOLEAN,
          prev_input : BOOLEAN, timing : BOOLEAN, start : Timespec,
          preset_ms : 0 .. (Width32 - 1), ET : 0 .. (Width32 - 1)]

ZeroTimer == [enabled |-> FALSE, input |-> FALSE, output |-> FALSE,
              prev_input |-> FALSE, timing |-> FALSE,
              start |-> [sec |-> 0, nsec |-> 0], preset_ms |-> 0, ET |-> 0]

-----------------------------------------------------------------------------
(* Measuring time.                                                         *)

ToTimespec(ms) == [sec  |-> ms \div MsPerSec,
                   nsec |-> (ms % MsPerSec) * NsPerMs]

(* Conversion of a signed difference to unsigned long long.                *)
AsU64(x) == x % Width64

(* The operands of both differences exchanged.                             *)
F_ms_diff_swapped(a, b) ==
  ((AsU64(a.sec - b.sec) * MsPerSec + AsU64(a.nsec - b.nsec) \div NsPerMs)
     % Width64) % Width32

(* The C expression: both differences are converted to 64-bit unsigned     *)
(* before the multiplication and the division, so a negative difference of *)
(* nanoseconds is divided as a number close to 2^64.                       *)
ms_diff(a, b) ==
  ((AsU64(b.sec - a.sec) * MsPerSec + AsU64(b.nsec - a.nsec) \div NsPerMs)
     % Width64) % Width32

-----------------------------------------------------------------------------
(* One update of a block t at time now.                                    *)

Expire(t, on) == [t EXCEPT !.output = on, !.timing = FALSE]

Bypassed(t) == ~t.enabled \/ t.preset_ms = 0

(* The early return of TON, TOF and TP: prev_input, timing and start stay. *)
Bypass(t) == [t EXCEPT !.output = FALSE, !.ET = 0]

(* The edge that starts the block's interval: rising for TON, TP and TONR, *)
(* falling for TOF and TOFR.                                               *)
Started(kind, t) ==
  IF kind \in {"ton", "tp", "tonr"} THEN t.input /\ ~t.prev_input
                                    ELSE ~t.input /\ t.prev_input

(* The start is kept when the edge comes while an interval is under way.   *)
F_Begin_keeps_start(kind, t, now) ==
  [t EXCEPT !.start = IF Started(kind, t) /\ ~t.timing
                        THEN ToTimespec(now) ELSE @,
            !.timing = @ \/ Started(kind, t),
            !.prev_input = t.input]

(* An update first notes the edge, then samples the input.                 *)
Begin(kind, t, now) ==
  [t EXCEPT !.start = IF Started(kind, t) THEN ToTimespec(now) ELSE @,
            !.timing = @ \/ Started(kind, t),
            !.prev_input = t.input]

Elapsed(t, now) == ms_diff(t.start, ToTimespec(now))

(* The sum is not reduced to 32 bits.                                      *)
F_Accumulate_wide(t, now) ==
  [t EXCEPT !.ET = @ + Elapsed(t, now), !.start = ToTimespec(now)]

(* The start is not moved on to now.                                       *)
F_Accumulate_from_start(t, now) ==
  [t EXCEPT !.ET = (@ + Elapsed(t, now)) % Width32]

(* ET += add; start = now  (TONR and TOFR accumulate).                     *)
Accumulate(t, now) ==
  [t EXCEPT !.ET = (@ + Elapsed(t, now)) % Width32, !.start = ToTimespec(now)]

(* The preset is compared with > instead of >=.                            *)
F_update_ton_off_by_one(t, now) ==
  LET b == Begin("ton", t, now)
      m == IF b.timing THEN [b EXCEPT !.ET = Elapsed(b, now)] ELSE b
  IN IF Bypassed(t) THEN Bypass(t)
     ELSE IF ~t.input THEN [Expire(b, FALSE) EXCEPT !.ET = 0]
     ELSE IF m.timing /\ m.ET > m.preset_ms THEN Expire(m, TRUE)
     ELSE m

update_ton(t, now) ==
  LET b == Begin("ton", t, now)
      m == IF b.timing THEN [b EXCEPT !.ET = Elapsed(b, now)] ELSE b
  IN IF Bypassed(t) THEN Bypass(t)
     ELSE IF ~t.input THEN [Expire(b, FALSE) EXCEPT !.ET = 0]
     ELSE IF m.timing /\ m.ET >= m.preset_ms THEN Expire(m, TRUE)
     ELSE m

(* The branch of an input that is on returns without sampling it.          *)
F_update_tof_unsampled(t, now) ==
  LET b == Begin("tof", t, now)
      m == [b EXCEPT !.ET = Elapsed(b, now)]
  IN IF Bypassed(t) THEN Bypass(t)
     ELSE IF t.input THEN [Expire(t, TRUE) EXCEPT !.ET = 0]
     ELSE IF ~b.timing THEN b
     ELSE IF m.ET >= m.preset_ms THEN Expire(m, FALSE)
     ELSE [m EXCEPT !.output = TRUE]

update_tof(t, now) ==
  LET b == Begin("tof", t, now)
      m == [b EXCEPT !.ET = Elapsed(b, now)]
  IN IF Bypassed(t) THEN Bypass(t)
     ELSE IF t.input THEN [Expire(b, TRUE) EXCEPT !.ET = 0]
     ELSE IF ~b.timing THEN b
     ELSE IF m.ET >= m.preset_ms THEN Expire(m, FALSE)
     ELSE [m EXCEPT !.output = TRUE]

(* The pulse ends only once the input has fallen as well.                  *)
F_update_tp_needs_input(t, now) ==
  LET b == [Begin("tp", t, now) EXCEPT !.output = @ \/ Started("tp", t)]
      m == [b EXCEPT !.ET = Elapsed(b, now)]
  IN IF Bypassed(t) THEN Bypass(t)
     ELSE IF ~b.timing THEN b
     ELSE IF ~t.input /\ m.ET >= m.preset_ms THEN Expire(m, FALSE)
     ELSE m

update_tp(t, now) ==
  LET b == [Begin("tp", t, now) EXCEPT !.output = @ \/ Started("tp", t)]
      m == [b EXCEPT !.ET = Elapsed(b, now)]
  IN IF Bypassed(t) THEN Bypass(t)
     ELSE IF ~b.timing THEN b
     ELSE IF m.ET >= m.preset_ms THEN Expire(m, FALSE)
     ELSE m

update_tonr(t, now) ==
  LET b == Begin("tonr", t, now)
      m == IF b.timing THEN Accumulate(b, now) ELSE b
  IN IF ~t.enabled THEN t
     ELSE IF ~t.input THEN b
     ELSE IF m.ET >= m.preset_ms THEN Expire(m, TRUE)
     ELSE m

(* The branch of an input that is on leaves the sum of the last interval.  *)
F_update_tofr_keeps_sum(t, now) ==
  LET b == Begin("tofr", t, now)
      m == Accumulate(b, now)
  IN IF ~t.enabled THEN t
     ELSE IF t.input THEN Expire(IF b.timing THEN m ELSE b, TRUE)
     ELSE IF ~b.timing THEN b
     ELSE IF m.ET >= m.preset_ms THEN Expire(m, FALSE)
     ELSE [m EXCEPT !.output = TRUE]

update_tofr(t, now) ==
  LET b == Begin("tofr", t, now)
      m == Accumulate(b, now)
  IN IF ~t.enabled THEN t
     ELSE IF t.input THEN
       [Expire(IF b.timing THEN m ELSE b, TRUE) EXCEPT !.ET = 0]
     ELSE IF ~b.timing THEN b
     ELSE IF m.ET >= m.preset_ms THEN Expire(m, FALSE)
     ELSE [m EXCEPT !.output = TRUE]

Update(kind, t, now) == CASE kind = "ton"  -> update_ton(t, now)
                          [] kind = "tof"  -> update_tof(t, now)
                          [] kind = "tp"   -> update_tp(t, now)
                          [] kind = "tonr" -> update_tonr(t, now)
                          [] kind = "tofr" -> update_tofr(t, now)

-----------------------------------------------------------------------------
(* History.  h.edge is the time the program last switched the input to the *)
(* level that starts the block's interval, h.on the time TONR's input was  *)
(* on before that, and h.exact whether the block has measured the interval *)
(* since then faithfully: it saw the edge when it happened, was not        *)
(* bypassed, and never subtracted a start whose milliseconds within the    *)
(* second exceed the present ones.                                         *)

ZeroHistory == [edge |-> 0, on |-> 0, exact |-> TRUE]

MsPart(ts) == ts.nsec \div NsPerMs

Borrows(t, now) == MsPart(ToTimespec(now)) < MsPart(t.start)

Starts(kind, in) == in = (kind \in {"ton", "tp", "tonr"})

Faithful(kind, t, now, changed, exact) ==
  /\ kind \in {"ton", "tof", "tp"} => ~Bypassed(t)
  /\ IF Started(kind, t) THEN changed /\ (kind = "tonr" => exact)
     ELSE exact /\ (t.timing /\ t.enabled /\ (kind = "tonr" => t.input)
                      => ~Borrows(t, now))

(* t is the block as the update finds it; changed: its input is new.       *)
Observe(kind, h, t, now, changed) ==
  [edge  |-> IF changed /\ Starts(kind, t.input) THEN now ELSE h.edge,
   on    |-> IF kind = "tonr" /\ h.exact /\ changed /\ ~t.input
               THEN h.on + (now - h.edge) ELSE h.on,
   exact |-> Faithful(kind, t, now, changed, h.exact)]

-----------------------------------------------------------------------------
(* Actions.                                                                *)

(* timers_init, then run_program reads the clock.                          *)
Init == /\ kinds \in Programs
        /\ time_ms \in 0 .. (MsPerSec - 1)
        /\ time_ms <= MaxTime
        /\ timers = [b \in Blocks |-> ZeroTimer]
        /\ history = [b \in Blocks |-> ZeroHistory]

(* op_ton, op_tof, op_tp, tonr_set, tofr_set: an id of MAX_TIMERS or more  *)
(* changes nothing.                                                        *)
SetTimer(kind, id, in, pt) ==
  LET b == <<kind, id>>
      t == [timers[b] EXCEPT !.input = in, !.preset_ms = pt, !.enabled = TRUE]
  IN /\ id < MaxTimers
     /\ timers' = [timers EXCEPT ![b] = Update(kind, t, time_ms)]
     /\ history' = [history EXCEPT ![b] =
                      Observe(kind, @, t, time_ms, in # timers[b].input)]
     /\ UNCHANGED <<kinds, time_ms>>

(* vm_update_time_after_instruction moves the clock within a scan.         *)
ExecuteInstruction(d) ==
  /\ time_ms + d <= MaxTime
  /\ time_ms' = time_ms + d
  /\ UNCHANGED <<kinds, timers, history>>

(* The end of a scan: the clock moves on to the end of the cycle, then     *)
(* update_all_timers.                                                      *)
EndOfScan(d) ==
  /\ time_ms + d <= MaxTime
  /\ time_ms' = time_ms + d
  /\ timers' = [b \in Blocks |-> Update(b[1], timers[b], time_ms + d)]
  /\ history' = [b \in Blocks |->
                   Observe(b[1], history[b], timers[b], time_ms + d, FALSE)]
  /\ UNCHANGED kinds

(* The reset forgets prev_input and timing.                                *)
F_ClearedTimer_keeps_edge(kind, t) ==
  IF kind \in {"tonr", "tofr"} THEN [t EXCEPT !.enabled = FALSE]
  ELSE [t EXCEPT !.enabled = FALSE, !.input = FALSE, !.output = FALSE,
                 !.preset_ms = 0, !.ET = 0]

(* vm_state_clear_iec_state: TONR and TOFR lose only their enabled flag,   *)
(* and no block loses its start.                                           *)
ClearedTimer(kind, t) ==
  IF kind \in {"tonr", "tofr"} THEN [t EXCEPT !.enabled = FALSE]
                               ELSE [ZeroTimer EXCEPT !.start = t.start]

(* vm_reset, then run_program reads the clock again, which may be behind   *)
(* the virtual time reached before.                                        *)
ResetAndRun(now) ==
  /\ time_ms' = now
  /\ timers' = [b \in Blocks |-> ClearedTimer(b[1], timers[b])]
  /\ history' = [b \in Blocks |->
                   [edge |-> now, on |-> 0,
                    exact |-> b[1] \notin {"tonr", "tofr"}]]
  /\ UNCHANGED kinds

Next == \/ \E kind \in kinds, id \in 0 .. MaxTimers, in \in BOOLEAN,
              pt \in Presets : SetTimer(kind, id, in, pt)
        \/ \E d \in 1 .. MsPerSec : ExecuteInstruction(d)
        \/ \E d \in 0 .. MsPerSec : EndOfScan(d)
        \/ \E now \in 0 .. MsPerSec - 1 : now <= MaxTime /\ ResetAndRun(now)

Spec == Init /\ [][Next]_vars

-----------------------------------------------------------------------------
(* Properties.                                                             *)

(* Every block is a legal IEC_Timer and the clock stays in its bound.      *)
TypeOK ==
  /\ kinds \in Programs
  /\ time_ms \in 0 .. MaxTime
  /\ timers \in [Blocks -> Timer]
  /\ history \in [Blocks -> [edge : 0 .. MaxTime, on : Nat, exact : BOOLEAN]]

BlocksOf(kind) == {b \in Blocks : b[1] = kind}

Rises(b) == ~timers[b].output /\ timers'[b].output
Falls(b) == timers[b].output /\ ~timers'[b].output

(* After a step: the time since the edge that starts b's interval, and     *)
(* whether it has reached the preset.                                      *)
SinceEdge(b) == time_ms' - history'[b].edge
PresetReached(b) == SinceEdge(b) >= timers'[b].preset_ms

Active(b) == timers'[b].enabled /\ timers'[b].preset_ms # 0

AScanEnds == \E d \in 0 .. MsPerSec : EndOfScan(d)

(* update_ton: the output of an on-delay rises only while its input is on  *)
(* and, when the interval was measured faithfully, not before the input    *)
(* has been on for the preset time.                                        *)
TonNeverEarly ==
  [][\A b \in BlocksOf("ton") : Rises(b) =>
       timers'[b].input /\ (history'[b].exact => PresetReached(b))]_vars

(* update_ton: a scan that ends with the input on for the preset time or   *)
(* longer leaves the output on, whatever presets were passed in between.   *)
TonNeverLate ==
  [][AScanEnds => \A b \in BlocksOf("ton") :
       timers'[b].input /\ history'[b].exact /\ PresetReached(b)
       => timers'[b].output]_vars

(* update_tof: the output of an off-delay falls only after its input has   *)
(* been off for the preset time, unless a zero preset or vm_reset drops it.*)
TofHoldsOutput ==
  [][\A b \in BlocksOf("tof") :
       Falls(b) /\ Active(b) /\ history'[b].exact => PresetReached(b)]_vars

(* update_tof: a scan that ends with the input off for the preset time or  *)
(* longer leaves the output off.                                           *)
TofReleases ==
  [][AScanEnds => \A b \in BlocksOf("tof") :
       ~timers'[b].input /\ history'[b].exact /\ PresetReached(b)
       => ~timers'[b].output]_vars

(* update_tp: a pulse lasts at least the preset from its last rising edge, *)
(* whatever the input does meanwhile.                                      *)
TpPulseIsWhole ==
  [][\A b \in BlocksOf("tp") :
       Falls(b) /\ Active(b) /\ history'[b].exact => PresetReached(b)]_vars

(* update_tp: a scan that ends when the preset has passed since the last   *)
(* rising edge ends the pulse.                                             *)
TpPulseEnds ==
  [][AScanEnds => \A b \in BlocksOf("tp") :
       history'[b].exact /\ PresetReached(b) => ~timers'[b].output]_vars

(* The time TONR's input has been on, over all intervals.                  *)
OnTime(b) == history[b].on +
             (IF timers[b].input THEN time_ms - history[b].edge ELSE 0)

(* update_tonr: ET never counts more than the time the input has been on   *)
(* over all the intervals it retained, so the output cannot come early.    *)
TonrNeverOvercounts ==
  \A b \in BlocksOf("tonr") :
     history[b].exact => timers[b].ET <= OnTime(b)

(* update_tofr: like TofHoldsOutput, for the block that sums up the time   *)
(* its input has been off update by update.                                *)
TofrHoldsOutput ==
  [][\A b \in BlocksOf("tofr") :
       Falls(b) /\ history'[b].exact => PresetReached(b)]_vars

(* What the documentation says of TON: its output is on when the time the  *)
(* input has been on reaches the preset ("OUT=1 when elapsed >=            *)
(* preset_ms", "IN=0: the output is reset"), with no exception.            *)
TonDelay ==
  [][\A b \in BlocksOf("ton") : Rises(b) => PresetReached(b)]_vars
=============================================================================
