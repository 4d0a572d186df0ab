---------------------------- MODULE MCIecTimers ----------------------------
(***************************************************************************)
(* Instances of IecTimers for TLC.  A second has 4 ms and a millisecond 11 *)
(* ns, so that a clock of two seconds and a half meets every alignment of  *)
(* an interval with the second boundary; uint32_t has 32 values and        *)
(* unsigned long long 1024, so that 2^64 \div NsPerMs, reduced to 32 bits, *)
(* is a large number (29 of 32) as it is in C (4154504685 of 2^32).        *)
(***************************************************************************)
EXTENDS IecTimers
=============================================================================
