---------------------------- MODULE MCHotReload ----------------------------
(***************************************************************************)
(* Instances of HotReload for TLC: two files, so that one may change while *)
(* a pass reads the other.  Five edits are enough to change a file before, *)
(* between and after the two passes of a cycle and again in the next one;  *)
(* with the other environments a shorter history shows every failure.      *)
(***************************************************************************)
EXTENDS HotReload

MCFiles == {1, 2}

Calm == [maxEdits |-> 5, maxOpenFailures |-> 0,
         bootEdits |-> FALSE, deletions |-> FALSE]
Rough == [maxEdits |-> 4, maxOpenFailures |-> 2,
          bootEdits |-> TRUE, deletions |-> TRUE]
Early == [maxEdits |-> 3, maxOpenFailures |-> 0,
          bootEdits |-> TRUE, deletions |-> FALSE]

CalmAndRough == {Calm, Rough}
OnlyEarly == {Early}
OnlyCalm == {[Calm EXCEPT !.maxEdits = 3]}
=============================================================================
