----------------------------- MODULE Dictionary -----------------------------
(***************************************************************************)
(* What the hash table of the virtual machine promises to those who call   *)
(* it (the API of hashing.h): a dictionary.  HashTable implements it.      *)
(***************************************************************************)
CONSTANTS
  Keys,
  Vals,
  NoVal   (* the NULL that hash_table_lookup returns, no value itself      *)

VARIABLES
  dict,   (* what is stored under each key                                 *)
  answer  (* what the last hash_table_lookup returned                      *)

vars == <<dict, answer>>

Empty == [k \in Keys |-> NoVal]

Init == dict = Empty /\ answer = NoVal

Insert(k, v) == dict' = [dict EXCEPT ![k] = v] /\ UNCHANGED answer

Delete(k) == dict' = [dict EXCEPT ![k] = NoVal] /\ UNCHANGED answer

Lookup(k) == answer' = dict[k] /\ UNCHANGED dict

DestroyAndCreate == dict' = Empty /\ UNCHANGED answer

Next == \/ \E k \in Keys : (\E v \in Vals : Insert(k, v)) \/ Delete(k) \/ Lookup(k)
        \/ DestroyAndCreate

Spec == Init /\ [][Next]_vars
=============================================================================
