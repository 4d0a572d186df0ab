----------------------------- MODULE HashTable -----------------------------
(***************************************************************************)
(* The hash table of the virtual machine (prototype-integrator,            *)
(* src/hashing.c), which holds labels, breakpoints and the decode cache:   *)
(* open addressing with linear probing, tombstones, growth when more than  *)
(* half of the bins are in a probe chain and shrinking when less than an   *)
(* eighth of them is counted as active.                                    *)
(*                                                                         *)
(* hash_table_insert, hash_table_lookup and hash_table_delete are one      *)
(* action each, up to the point where a resize begins.  A resize moves the *)
(* old bins one by one, and a move may itself begin a resize: the          *)
(* activations of init_table that are under way form a stack, and no other *)
(* operation comes in between (the table is used by one thread).           *)
(*                                                                         *)
(* Keys and values are copied when they are inserted.  They are told apart *)
(* here by what they say, and owned counts the copies that exist.          *)
(***************************************************************************)
EXTENDS Naturals, Sequences, FiniteSets

CONSTANTS
  Keys, Vals,
  NoVal,     (* NULL                                                       *)
  NoKey,     (* the key of a bin that never held one                       *)
  Bindings,  (* what is inserted under which key                           *)
  Hashes,    (* the hash functions considered, of keys                     *)
  MinSize,   (* MIN_TABLE_SIZE                                             *)
  Width      (* the counter active is an unsigned number modulo Width      *)

ASSUME NamesAssumption == NoVal \notin Vals /\ NoKey \notin Keys
ASSUME BindingsAssumption == Bindings \subseteq Keys \X Vals
ASSUME HashesAssumption == Hashes \subseteq [Keys -> Nat]
ASSUME SizesAssumption == MinSize \in Nat \ {0} /\ Width \in Nat \ {0}

VARIABLES
  hash,      (* table->key_type->hash                                      *)
  bins,      (* table->bins                                                *)
  size,      (* table->size                                                *)
  used,      (* table->used                                                *)
  active,    (* table->active                                              *)
  moving,    (* stack of resizes: old bins and the next one to move        *)
  answer,    (* what the last hash_table_lookup returned                   *)
  owned      (* copies of keys, each with a value, that were not freed     *)

vars == <<hash, bins, size, used, active, moving, answer, owned>>

Bin == [in_probe : BOOLEAN, is_empty : BOOLEAN,
        key : Keys \cup {NoKey}, val : Vals \cup {NoVal}]

FreshBin == [in_probe |-> FALSE, is_empty |-> TRUE, key |-> NoKey, val |-> NoVal]
FreshBins(n) == [p \in 0 .. n - 1 |-> FreshBin]

Idle == moving = <<>>

-----------------------------------------------------------------------------
(* Where to look.                                                          *)

(* (hash_key + i) & (m - 1), for i < m.                                    *)
Probe(h, i, m) == LET home == h % m
                  IN  IF home + i < m THEN home + i ELSE home + i - m

IsActive(bin) == bin.in_probe /\ ~bin.is_empty

KeyInBin(bin, k) == IsActive(bin) /\ bin.key = k

(* The bins with data in a table b of n bins.                              *)
StoredIn(b, n) == {p \in 0 .. n - 1 : IsActive(b[p])}

(* Steps along the probe chain of k that end the search of find_key.       *)
KeySteps(k) ==
  {i \in 0 .. size - 1 : LET bin == bins[Probe(hash[k], i, size)]
                         IN  ~bin.in_probe \/ KeyInBin(bin, k)}

EmptySteps(k) ==
  {i \in 0 .. size - 1 : bins[Probe(hash[k], i, size)].is_empty}

Least(S) == CHOOSE i \in S : \A j \in S : i <= j

FindKey(k) == Probe(hash[k], Least(KeySteps(k)), size)
FindEmpty(k) == Probe(hash[k], Least(EmptySteps(k)), size)

(* The bin that insert takes: that of the key, or the first empty one.     *)
Target(k) == IF bins[FindKey(k)].in_probe THEN FindKey(k) ELSE FindEmpty(k)

(* Neither search runs round the whole table.                              *)
Searchable(k) == /\ KeySteps(k) # {}
                 /\ ~bins[FindKey(k)].in_probe => EmptySteps(k) # {}

-----------------------------------------------------------------------------
(* resize: from now on bins are moved.  A table b of n bins is left.       *)
Resize(b, n, stack, newSize) ==
  /\ bins' = FreshBins(newSize)
  /\ size' = newSize /\ used' = 0 /\ active' = 0
  /\ moving' = Append(stack, [old |-> b, size |-> n, next |-> 0])

One(condition) == IF condition THEN 1 ELSE 0

(* The old data of the bin stay.                                           *)
F_Freed_nothing(p) == 0

(* Copies that store_in_bin frees.                                         *)
Freed(p) == One(IsActive(bins[p]))

(* Reused tombstones are counted once more.                                *)
F_Joining_again(p) == One(bins[p].is_empty)

(* Bins that store_in_bin adds to a probe chain.                           *)
Joining(p) == One(~bins[p].in_probe)

(* The table is allowed to fill up.                                        *)
F_TooFull_when_full(n) == n > size

(* used / size > LOAD_FACTOR_MAX                                           *)
TooFull(n) == 2 * n > size

(* The new table is no larger.                                             *)
F_Grown_not == size

Grown == 2 * size

(* hash_table_insert_internal, with the stack of the resize it is part of. *)
Place(k, v, stack) ==
  LET p    == Target(k)
      b    == [bins EXCEPT ![p] = [in_probe |-> TRUE, is_empty |-> FALSE,
                                   key |-> k, val |-> v]]
      u    == used + Joining(p)
  IN  IF TooFull(u)
      THEN Resize(b, size, stack, Grown)
      ELSE /\ bins' = b /\ used' = u
           /\ active' = (active + One(bins[p].is_empty)
                           + Width - One(IsActive(bins[p]))) % Width
           /\ moving' = stack
           /\ UNCHANGED size

Insert(k, v) ==
  /\ Idle /\ Searchable(k)
  /\ Place(k, v, moving)
  /\ owned' = owned + 1 - Freed(Target(k))
  /\ UNCHANGED <<hash, answer>>

Lookup(k) ==
  /\ Idle /\ KeySteps(k) # {}
  /\ answer' = IF bins[FindKey(k)].in_probe THEN bins[FindKey(k)].val ELSE NoVal
  /\ UNCHANGED <<hash, bins, size, used, active, moving, owned>>

(* A deleted bin leaves its probe chain.                                   *)
F_Tombstone_leaves_chain == FreshBin

(* free_bin: the bin stays part of its probe chain.  What its pointers,    *)
(* which dangle, said is never read again.                                 *)
Tombstone == [FreshBin EXCEPT !.in_probe = TRUE]

(* Down to nothing.                                                        *)
F_TooEmpty_at_any_size(n) == 8 * n < size

(* active / size < LOAD_FACTOR_MIN                                         *)
TooEmpty(n) == size > MinSize /\ 8 * n < size

Delete(k) ==
  /\ Idle /\ KeySteps(k) # {}
  /\ LET p     == FindKey(k)
         found == IsActive(bins[p])
         b     == IF found THEN [bins EXCEPT ![p] = Tombstone] ELSE bins
         a     == (active + Width - One(found)) % Width
     IN  /\ owned' = owned - One(found)
         /\ IF TooEmpty(a)
            THEN Resize(b, size, moving, size \div 2)
            ELSE /\ bins' = b /\ active' = a
                 /\ UNCHANGED <<size, used, moving>>
  /\ UNCHANGED <<hash, answer>>

(* hash_table_destroy frees the active bins; vm_tables_init makes a new    *)
(* table.                                                                  *)
DestroyAndCreate ==
  /\ Idle
  /\ owned' = owned - Cardinality(StoredIn(bins, size))
  /\ bins' = FreshBins(MinSize) /\ size' = MinSize /\ used' = 0 /\ active' = 0
  /\ UNCHANGED <<hash, moving, answer>>

-----------------------------------------------------------------------------
(* The loop of init_table.                                                 *)

Top == moving[Len(moving)]
Advanced == [moving EXCEPT ![Len(moving)].next = @ + 1]
NextBin == Top.old[Top.next]
Moving == moving # <<>> /\ Top.next < Top.size

(* The place in the array stays.                                           *)
F_SkipBin_stays ==
  /\ Moving /\ NextBin.is_empty
  /\ UNCHANGED vars

SkipBin ==
  /\ Moving /\ NextBin.is_empty
  /\ moving' = Advanced
  /\ UNCHANGED <<hash, bins, size, used, active, answer, owned>>

MoveBin ==
  /\ Moving /\ ~NextBin.is_empty /\ Searchable(NextBin.key)
  /\ Place(NextBin.key, NextBin.val, Advanced)
  /\ owned' = owned - Freed(Target(NextBin.key))
  /\ UNCHANGED <<hash, answer>>

(* The old array is freed, its data have moved.                            *)
ResizeDone ==
  /\ moving # <<>> /\ Top.next = Top.size
  /\ moving' = SubSeq(moving, 1, Len(moving) - 1)
  /\ UNCHANGED <<hash, bins, size, used, active, answer, owned>>

-----------------------------------------------------------------------------
Init ==
  /\ hash \in Hashes
  /\ bins = FreshBins(MinSize) /\ size = MinSize /\ used = 0 /\ active = 0
  /\ moving = <<>> /\ answer = NoVal /\ owned = 0

ResizeStep == SkipBin \/ MoveBin \/ ResizeDone

Next ==
  \/ \E binding \in Bindings : Insert(binding[1], binding[2])
  \/ \E k \in Keys : Delete(k) \/ Lookup(k)
  \/ DestroyAndCreate \/ ResizeStep

Spec == Init /\ [][Next]_vars

(* A resize is a loop that waits for nobody.                               *)
FairSpec == Spec /\ WF_vars(ResizeStep)

-----------------------------------------------------------------------------
(* Properties.                                                             *)

TypeOK ==
  /\ hash \in Hashes
  /\ size \in Nat /\ size >= MinSize
  /\ bins \in [0 .. size - 1 -> Bin]
  /\ used \in Nat /\ active \in 0 .. Width - 1 /\ owned \in Nat
  /\ answer \in Vals \cup {NoVal}
  /\ \A f \in DOMAIN moving :
       /\ moving[f].size \in Nat /\ moving[f].next \in 0 .. moving[f].size
       /\ moving[f].old \in [0 .. moving[f].size - 1 -> Bin]

(* find_key and find_empty: the assert(false) at their ends is never       *)
(* reached, neither by a caller nor in the middle of a resize.             *)
SearchesEnd ==
  /\ Idle => \A k \in Keys : Searchable(k)
  /\ Moving /\ ~NextBin.is_empty => Searchable(NextBin.key)

(* The bins that hold data: those of a table b of n bins and, in the old   *)
(* arrays of a stack of resizes, those that were not moved yet.            *)
WaitingIn(frame) ==
  {i \in frame.next .. frame.size - 1 : ~frame.old[i].is_empty}
HeldIn(b, n, stack) ==
  {b[p] : p \in StoredIn(b, n)} \cup
  UNION {{stack[f].old[i] : i \in WaitingIn(stack[f])} : f \in DOMAIN stack}

(* store_in_bin, free_bin, resize: every copy that was made is in exactly  *)
(* one bin, so that none is lost and none is freed twice.                  *)
OwnsWhatItHolds ==
  owned = Cardinality({bin.key : bin \in HeldIn(bins, size, moving)})

(* used counts the bins of probe chains, and there are at most half of     *)
(* them, in the middle of a resize as well.                                *)
UsedIsBounded ==
  /\ used = Cardinality({p \in 0 .. size - 1 : bins[p].in_probe})
  /\ 2 * used <= size

(* resize, init_table and hash_table_insert_internal call each other: the  *)
(* growth that a shrink may cause is the deepest.                          *)
RecursionIsShallow == Len(moving) <= 2

(* Every resize comes to its end.                                          *)
ResizeEnds == moving # <<>> ~> moving = <<>>

(* The table is a dictionary, whatever the hash function, with deleted     *)
(* bins in the chains, and while it is moved.                              *)
ContentOf(held) ==
  [k \in Keys |-> IF \E bin \in held : bin.key = k
                  THEN (CHOOSE bin \in held : bin.key = k).val
                  ELSE NoVal]
Content == LET held == HeldIn(bins, size, moving) IN ContentOf(held)
Abstract == INSTANCE Dictionary WITH dict <- Content
IsDictionary == Abstract!Spec

(* "Number of bins with data" says hashing.h of the counter that           *)
(* hash_table_size returns.                                                *)
ActiveCounts == Idle => active = Cardinality(StoredIn(bins, size))
=============================================================================
