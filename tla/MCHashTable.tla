---------------------------- MODULE MCHashTable ----------------------------
(***************************************************************************)
(* Instances of HashTable for TLC: four keys in a table that begins with   *)
(* two bins.  The keys all collide, follow one another at the end of the   *)
(* table, or form two chains that meet.  One key takes two values.         *)
(***************************************************************************)
EXTENDS HashTable

MCKeys == 1 .. 4

MCVals == {"v", "w"}
MCBindings == (MCKeys \X {"v"}) \cup {<<1, "w">>}

MCHashes == {[k \in MCKeys |-> 3], [k \in MCKeys |-> k + 1],
             [k \in MCKeys |-> IF k <= 2 THEN 1 ELSE 7]}
=============================================================================
