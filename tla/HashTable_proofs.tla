-------------------------- MODULE HashTable_proofs --------------------------
(***************************************************************************)
(* Proofs about HashTable for every set of keys, every hash function and   *)
(* every first size: searches end, the counter used is exact, copies are   *)
(* owned once, resizes nest at most twice, and the table is a Dictionary.  *)
(*                                                                         *)
(* What a table and a stack of resizes hold is said with parameters, for   *)
(* arrays b of n bins and stacks s, so that it can be said of the state    *)
(* before and after a step.                                                *)
(***************************************************************************)
EXTENDS HashTable, FiniteSetTheorems, SequenceTheorems, WellFoundedInduction,
        TLAPS

(* The sizes that doubling reaches from MinSize: the least such set.       *)
ClosedUnderDoubling(S) == MinSize \in S /\ \A m \in S : 2 * m \in S
Sizes == {n \in Nat : \A S \in SUBSET Nat : ClosedUnderDoubling(S) => n \in S}

Array == UNION {[0 .. n - 1 -> Bin] : n \in Nat}
Frame == [old : Array, size : Nat, next : Nat]

(* Bins outside of the chains are empty, the others hold a key and a value.*)
Tidy(b, n) ==
  \A p \in 0 .. n - 1 :
    /\ ~b[p].in_probe => b[p].is_empty
    /\ ~b[p].is_empty => b[p].key \in Keys /\ b[p].val \in Vals

FrameOK(frame) == /\ frame.next \in 0 .. frame.size
                  /\ frame.old \in [0 .. frame.size - 1 -> Bin]
                  /\ Tidy(frame.old, frame.size)

StackOK(s) == s \in Seq(Frame) /\ \A f \in 1 .. Len(s) : FrameOK(s[f])

(* From where its chain begins to where a key is, every bin is part of a   *)
(* chain.                                                                  *)
Reaches(h, b, n, k, p) ==
  \E i \in 0 .. n - 1 :
    p = Probe(h[k], i, n) /\ \A j \in 0 .. i - 1 : b[Probe(h[k], j, n)].in_probe
Chained(h, b, n) == \A p \in StoredIn(b, n) : Reaches(h, b, n, b[p].key, p)

(* Key k is in bin p of the table, in bin i of frame f of the stack.       *)
Here(b, n, k, p) == p \in StoredIn(b, n) /\ b[p].key = k
There(s, k, f, i) ==
  f \in 1 .. Len(s) /\ i \in WaitingIn(s[f]) /\ s[f].old[i].key = k

(* No key is in two places.                                                *)
Unique(b, n, s) ==
  \A k \in Keys :
    /\ \A p, q : Here(b, n, k, p) /\ Here(b, n, k, q) => p = q
    /\ \A p, f, i : ~(Here(b, n, k, p) /\ There(s, k, f, i))
    /\ \A f, g, i, j : There(s, k, f, i) /\ There(s, k, g, j) => f = g /\ i = j

(* Value v is in the place of key k.                                       *)
Says(b, n, s, k, v) == \/ \E p : Here(b, n, k, p) /\ b[p].val = v
                       \/ \E f, i : There(s, k, f, i) /\ s[f].old[i].val = v

InProbe(b, n) == {p \in 0 .. n - 1 : b[p].in_probe}

Shape(h, b, n, u, a, s) ==
  /\ n \in Sizes /\ b \in [0 .. n - 1 -> Bin] /\ a \in 0 .. Width - 1
  /\ u = Cardinality(InProbe(b, n)) /\ 2 * u <= n
  /\ Tidy(b, n) /\ Chained(h, b, n) /\ StackOK(s) /\ Unique(b, n, s)

Filled(content) == {k \in Keys : content[k] # NoVal}

Inv == /\ hash \in Hashes /\ answer \in Vals \cup {NoVal}
       /\ Shape(hash, bins, size, used, active, moving)
       /\ IsFiniteSet(Filled(Content)) /\ owned = Cardinality(Filled(Content))

-----------------------------------------------------------------------------
(* Arithmetic.                                                             *)

LEMMA SizesFacts ==
  /\ MinSize \in Sizes
  /\ \A n \in Sizes : /\ n \in Nat /\ n >= MinSize /\ 2 * n \in Sizes
                      /\ n > MinSize => n \div 2 \in Sizes
  <1>1. MinSize \in Sizes
    BY SizesAssumption DEF Sizes, ClosedUnderDoubling
  <1>2. ASSUME NEW n \in Sizes PROVE 2 * n \in Sizes
    BY SizesAssumption DEF Sizes, ClosedUnderDoubling
  <1>3. ASSUME NEW n \in Sizes PROVE n \in Nat /\ n >= MinSize
    <2> DEFINE S == {m \in Nat : m >= MinSize}
    <2>1. ClosedUnderDoubling(S)
      BY SizesAssumption DEF ClosedUnderDoubling
    <2>2. S \in SUBSET Nat
      OBVIOUS
    <2>3. n \in S
      BY <2>1, <2>2 DEF Sizes
    <2> QED
      BY <2>3
  <1>4. ASSUME NEW n \in Sizes, n > MinSize PROVE n \div 2 \in Sizes
    <2> DEFINE S == {m \in Sizes : m = MinSize \/ \E l \in Sizes : m = 2 * l}
    <2>1. ClosedUnderDoubling(S)
      BY <1>1, <1>2 DEF ClosedUnderDoubling
    <2>2. S \in SUBSET Nat
      BY <1>3
    <2>3. n \in S
      BY <2>1, <2>2 DEF Sizes
    <2>4. PICK l \in Sizes : n = 2 * l
      BY <1>4, <2>3, <1>3, SizesAssumption
    <2>5. n \div 2 = l
      BY <1>3, <2>4
    <2> QED
      BY <2>5
  <1> QED
    BY <1>1, <1>2, <1>3, <1>4

LEMMA LeastFacts ==
  ASSUME NEW S, S \subseteq Nat, S # {}
  PROVE  Least(S) \in S /\ \A j \in S : Least(S) <= j
  <1>1. PICK i \in S : \A j \in S : ~(<<j, i>> \in OpToRel(<, Nat))
    BY NatLessThanWellFounded, WFMin
  <1>2. \A j \in S : i <= j
    <2> SUFFICES ASSUME NEW j \in S, ~(i <= j) PROVE FALSE
      OBVIOUS
    <2>1. i \in Nat /\ j \in Nat /\ j < i
      OBVIOUS
    <2>2. <<j, i>> \in OpToRel(<, Nat)
      BY <2>1 DEF OpToRel
    <2> QED
      BY <1>1, <2>2
  <1> QED
    BY <1>2 DEF Least

(* A probe chain stays within the table and comes by every bin.            *)
LEMMA ProbeFacts ==
  ASSUME NEW h \in Nat, NEW m \in Nat \ {0}
  PROVE  /\ \A i \in 0 .. m - 1 : Probe(h, i, m) \in 0 .. m - 1
         /\ \A p \in 0 .. m - 1 : \E i \in 0 .. m - 1 : Probe(h, i, m) = p
  <1>1. (h % m) \in 0 .. m - 1
    OBVIOUS
  <1>2. ASSUME NEW i \in 0 .. m - 1 PROVE Probe(h, i, m) \in 0 .. m - 1
    BY <1>1 DEF Probe
  <1>3. ASSUME NEW p \in 0 .. m - 1
        PROVE  \E i \in 0 .. m - 1 : Probe(h, i, m) = p
    <2>1. CASE (h % m) <= p
      <3>1. p - (h % m) \in 0 .. m - 1 /\ Probe(h, p - (h % m), m) = p
        BY <1>1, <2>1 DEF Probe
      <3> QED
        BY <3>1
    <2>2. CASE (h % m) > p
      <3>1. p + m - (h % m) \in 0 .. m - 1 /\ Probe(h, p + m - (h % m), m) = p
        BY <1>1, <2>2 DEF Probe
      <3> QED
        BY <3>1
    <2> QED
      BY <1>1, <2>1, <2>2
  <1> QED
    BY <1>2, <1>3

-----------------------------------------------------------------------------
(* Searching.                                                              *)

(* Half of the bins are outside of the chains.                             *)
LEMMA SomeBinIsFree ==
  ASSUME Inv
  PROVE  \E p \in 0 .. size - 1 : ~bins[p].in_probe
  <1>1. size \in Nat \ {0}
    BY SizesFacts, SizesAssumption DEF Inv, Shape
  <1>2. CASE InProbe(bins, size) = 0 .. size - 1
    <2>1. Cardinality(0 .. size - 1) = size
      BY <1>1, FS_Interval
    <2> QED
      BY <1>1, <1>2, <2>1 DEF Inv, Shape
  <1> QED
    BY <1>2 DEF InProbe

LEMMA SearchFacts ==
  ASSUME Inv, NEW k \in Keys
  PROVE  /\ hash[k] \in Nat /\ size \in Nat \ {0}
         /\ KeySteps(k) # {} /\ EmptySteps(k) # {}
         /\ KeySteps(k) \subseteq 0 .. size - 1
         /\ EmptySteps(k) \subseteq 0 .. size - 1
         /\ FindKey(k) \in 0 .. size - 1 /\ FindEmpty(k) \in 0 .. size - 1
         /\ ~bins[FindKey(k)].in_probe \/ KeyInBin(bins[FindKey(k)], k)
         /\ bins[FindEmpty(k)].is_empty
  <1>1. hash[k] \in Nat /\ size \in Nat \ {0}
    BY SizesFacts, SizesAssumption, HashesAssumption DEF Inv, Shape
  <1>2. PICK i \in 0 .. size - 1 : ~bins[Probe(hash[k], i, size)].in_probe
    <2>1. PICK p \in 0 .. size - 1 : ~bins[p].in_probe
      BY SomeBinIsFree
    <2>2. PICK j \in 0 .. size - 1 : Probe(hash[k], j, size) = p
      BY <1>1, ProbeFacts
    <2> QED
      BY <2>1, <2>2, Zenon
  <1>3. i \in KeySteps(k)
    BY <1>2 DEF KeySteps
  <1>4. i \in EmptySteps(k)
    BY <1>1, <1>2, ProbeFacts DEF EmptySteps, Inv, Shape, Tidy
  <1>5. KeySteps(k) \subseteq Nat /\ EmptySteps(k) \subseteq Nat
    BY <1>1 DEF KeySteps, EmptySteps
  <1>6. Least(KeySteps(k)) \in KeySteps(k) /\ Least(EmptySteps(k)) \in EmptySteps(k)
    BY <1>3, <1>4, <1>5, LeastFacts
  <1>7. FindKey(k) \in 0 .. size - 1 /\ FindEmpty(k) \in 0 .. size - 1
    BY <1>1, <1>6, ProbeFacts DEF FindKey, FindEmpty, KeySteps, EmptySteps
  <1>8. ~bins[FindKey(k)].in_probe \/ KeyInBin(bins[FindKey(k)], k)
    BY <1>6 DEF FindKey, KeySteps
  <1>9. bins[FindEmpty(k)].is_empty
    BY <1>6 DEF FindEmpty, EmptySteps
  <1>10. KeySteps(k) \subseteq 0 .. size - 1 /\ EmptySteps(k) \subseteq 0 .. size - 1
    BY DEF KeySteps, EmptySteps
  <1> QED
    BY <1>1, <1>3, <1>4, <1>7, <1>8, <1>9, <1>10

(* A key that find_key does not find is nowhere in the table.              *)
LEMMA NotFound ==
  ASSUME Inv, NEW k \in Keys, ~bins[FindKey(k)].in_probe
  PROVE  \A q : ~Here(bins, size, k, q)
  <1> SUFFICES ASSUME NEW q, Here(bins, size, k, q) PROVE FALSE
    OBVIOUS
  <1>1. /\ q \in 0 .. size - 1 /\ KeyInBin(bins[q], k)
        /\ Reaches(hash, bins, size, k, q)
    BY DEF Here, StoredIn, KeyInBin, Inv, Shape, Chained
  <1>2. PICK i \in 0 .. size - 1 :
          /\ q = Probe(hash[k], i, size)
          /\ \A j \in 0 .. i - 1 : bins[Probe(hash[k], j, size)].in_probe
    BY <1>1 DEF Reaches
  <1>3. i \in KeySteps(k)
    BY <1>1, <1>2 DEF KeySteps
  <1> DEFINE least == Least(KeySteps(k))
  <1>4. least \in KeySteps(k) /\ least <= i /\ least \in Nat /\ i \in Nat
    <2>1. KeySteps(k) \subseteq Nat
      BY SearchFacts
    <2> QED
      BY <1>3, <2>1, LeastFacts
  <1>5. CASE least = i
    BY <1>1, <1>2, <1>5 DEF FindKey, KeyInBin, IsActive
  <1>6. CASE least < i
    <2>1. least \in 0 .. i - 1
      BY <1>4, <1>6
    <2> QED
      BY <1>2, <2>1 DEF FindKey
  <1> QED
    BY <1>4, <1>5, <1>6

(* The bin that an insert takes: that of the key, if the key is somewhere, *)
(* or an empty one that its chain reaches.                                 *)
LEMMA TargetFacts ==
  ASSUME Inv, NEW k \in Keys
  PROVE  /\ Target(k) \in 0 .. size - 1
         /\ Reaches(hash, bins, size, k, Target(k))
         /\ \/ Here(bins, size, k, Target(k))
            \/ bins[Target(k)].is_empty /\ \A q : ~Here(bins, size, k, q)
  <1>1. CASE bins[FindKey(k)].in_probe
    <2>1. Target(k) = FindKey(k) /\ Here(bins, size, k, FindKey(k))
      BY <1>1, SearchFacts DEF Target, Here, StoredIn, KeyInBin
    <2>2. Reaches(hash, bins, size, k, FindKey(k))
      BY <2>1 DEF Inv, Shape, Chained, Here
    <2> QED
      BY <2>1, <2>2, SearchFacts
  <1>2. CASE ~bins[FindKey(k)].in_probe
    <2> DEFINE i == Least(KeySteps(k))
               e == Least(EmptySteps(k))
    <2>1. Target(k) = FindEmpty(k)
      BY <1>2 DEF Target
    <2>2. /\ i \in KeySteps(k) /\ \A j \in KeySteps(k) : i <= j
          /\ e \in EmptySteps(k) /\ \A j \in EmptySteps(k) : e <= j
      <3>1. KeySteps(k) \subseteq Nat /\ EmptySteps(k) \subseteq Nat
        BY SearchFacts
      <3> QED
        BY <3>1, SearchFacts, LeastFacts
    <2>3. i \in 0 .. size - 1 /\ e \in 0 .. size - 1 /\ size \in Nat
      BY <2>2, SearchFacts
    <2>4. i \in EmptySteps(k)
      <3>1. bins[FindKey(k)].is_empty
        BY <1>2, SearchFacts DEF Inv, Shape, Tidy
      <3> QED
        BY <2>3, <3>1 DEF FindKey, EmptySteps
    <2>5. \A j \in 0 .. e - 1 : bins[Probe(hash[k], j, size)].in_probe
      <3> SUFFICES ASSUME NEW j \in 0 .. e - 1,
                          ~bins[Probe(hash[k], j, size)].in_probe
                   PROVE  FALSE
        OBVIOUS
      <3>1. j \in KeySteps(k)
        BY <2>3 DEF KeySteps
      <3> QED
        BY <2>2, <2>3, <2>4, <3>1
    <2>6. Reaches(hash, bins, size, k, FindEmpty(k))
      BY <2>3, <2>5 DEF Reaches, FindEmpty
    <2> QED
      BY <1>2, <2>1, <2>6, SearchFacts, NotFound
  <1> QED
    BY <1>1, <1>2

-----------------------------------------------------------------------------
(* What is held, place by place.                                           *)

(* A table and a stack of resizes that fit together.                       *)
Holding(b, n, s) == /\ n \in Nat /\ b \in [0 .. n - 1 -> Bin]
                    /\ Tidy(b, n) /\ StackOK(s) /\ Unique(b, n, s)

LEMMA FrameFacts ==
  ASSUME NEW s, StackOK(s), NEW f \in 1 .. Len(s)
  PROVE  /\ Len(s) \in Nat /\ DOMAIN s = 1 .. Len(s)
         /\ s[f] \in Frame /\ s[f].size \in Nat /\ s[f].next \in 0 .. s[f].size
         /\ WaitingIn(s[f]) \subseteq 0 .. s[f].size - 1
         /\ \A i \in WaitingIn(s[f]) : s[f].old[i].key \in Keys /\ s[f].old[i].val \in Vals
  <1>1. s \in Seq(Frame) /\ FrameOK(s[f])
    BY DEF StackOK
  <1>2. Len(s) \in Nat /\ DOMAIN s = 1 .. Len(s) /\ s[f] \in Frame
    BY <1>1, LenProperties, ElementOfSeq
  <1>3. s[f].size \in Nat /\ s[f].next \in 0 .. s[f].size
    BY <1>1, <1>2 DEF Frame, FrameOK
  <1>4. WaitingIn(s[f]) \subseteq 0 .. s[f].size - 1
    BY <1>3 DEF WaitingIn
  <1>5. \A i \in WaitingIn(s[f]) : s[f].old[i].key \in Keys /\ s[f].old[i].val \in Vals
    BY <1>1, <1>4 DEF FrameOK, Tidy, WaitingIn
  <1> QED
    BY <1>2, <1>3, <1>4, <1>5

LEMMA HeldFacts ==
  ASSUME NEW b, NEW n, NEW s, Holding(b, n, s), NEW k
  PROVE  \A bin : (bin \in HeldIn(b, n, s) /\ bin.key = k) <=>
                  \/ \E p : Here(b, n, k, p) /\ bin = b[p]
                  \/ \E f, i : There(s, k, f, i) /\ bin = s[f].old[i]
  <1> TAKE bin
  <1>1. DOMAIN s = 1 .. Len(s)
    BY LenProperties DEF Holding, StackOK
  <1>2. bin \in HeldIn(b, n, s) <=>
          \/ \E p \in StoredIn(b, n) : bin = b[p]
          \/ \E f \in 1 .. Len(s) : \E i \in WaitingIn(s[f]) : bin = s[f].old[i]
    <2>1. bin \in {b[p] : p \in StoredIn(b, n)} <=> \E p \in StoredIn(b, n) : bin = b[p]
      OBVIOUS
    <2> DEFINE Old(f) == {s[f].old[i] : i \in WaitingIn(s[f])}
    <2>2. \A f : bin \in Old(f) <=> \E i \in WaitingIn(s[f]) : bin = s[f].old[i]
      OBVIOUS
    <2> HIDE DEF Old
    <2>3. bin \in UNION {Old(f) : f \in DOMAIN s} <=> \E f \in DOMAIN s : bin \in Old(f)
      BY Zenon
    <2>4. HeldIn(b, n, s) = {b[p] : p \in StoredIn(b, n)} \cup UNION {Old(f) : f \in DOMAIN s}
      BY DEF HeldIn, Old
    <2>5. bin \in UNION {Old(f) : f \in DOMAIN s} <=>
            \E f \in 1 .. Len(s) : \E i \in WaitingIn(s[f]) : bin = s[f].old[i]
      BY <1>1, <2>2, <2>3
    <2> HIDE DEF Old
    <2>6. bin \in HeldIn(b, n, s) <=> \/ bin \in {b[p] : p \in StoredIn(b, n)}
                                     \/ bin \in UNION {Old(f) : f \in DOMAIN s}
      BY <2>4, Zenon
    <2>7. bin \in HeldIn(b, n, s) =>
            \/ \E p \in StoredIn(b, n) : bin = b[p]
            \/ \E f \in 1 .. Len(s) : \E i \in WaitingIn(s[f]) : bin = s[f].old[i]
      BY <2>1, <2>5, <2>6
    <2> QED
      BY <2>1, <2>5, <2>6, <2>7
  <1> QED
    BY <1>2 DEF Here, There

(* The place of a key is the only one, and what is in it is the content.   *)
LEMMA ContentFacts ==
  ASSUME NEW b, NEW n, NEW s, Holding(b, n, s)
  PROVE  LET C == ContentOf(HeldIn(b, n, s))
         IN  /\ C \in [Keys -> Vals \cup {NoVal}]
             /\ \A k \in Keys, v \in Vals : C[k] = v <=> Says(b, n, s, k, v)
  <1> DEFINE held == HeldIn(b, n, s)
             C == ContentOf(held)
  <1>1. ASSUME NEW k \in Keys
        PROVE  /\ C[k] \in Vals \cup {NoVal}
               /\ \A v \in Vals : C[k] = v <=> Says(b, n, s, k, v)
    <2>1. \A bin : (bin \in held /\ bin.key = k) <=>
                   \/ \E p : Here(b, n, k, p) /\ bin = b[p]
                   \/ \E f, i : There(s, k, f, i) /\ bin = s[f].old[i]
      BY HeldFacts
    <2>2. \A bin1, bin2 \in held : bin1.key = k /\ bin2.key = k => bin1 = bin2
      <3> SUFFICES ASSUME NEW bin1 \in held, NEW bin2 \in held,
                          bin1.key = k, bin2.key = k
                   PROVE  bin1 = bin2
        OBVIOUS
      <3>1. /\ \A p, q : Here(b, n, k, p) /\ Here(b, n, k, q) => p = q
            /\ \A p, f, i : ~(Here(b, n, k, p) /\ There(s, k, f, i))
            /\ \A f, g, i, j :
                 There(s, k, f, i) /\ There(s, k, g, j) => f = g /\ i = j
        BY DEF Holding, Unique
      <3>2. CASE \E p : Here(b, n, k, p) /\ bin1 = b[p]
        BY <2>1, <3>1, <3>2, Zenon
      <3>3. CASE \E f, i : There(s, k, f, i) /\ bin1 = s[f].old[i]
        <4>1. PICK f, i : There(s, k, f, i) /\ bin1 = s[f].old[i]
          BY <3>3
        <4>2. PICK g, j : There(s, k, g, j) /\ bin2 = s[g].old[j]
          <5>1. ~\E p : Here(b, n, k, p)
            BY <3>1, <4>1, Zenon
          <5>2. bin2 \in held /\ bin2.key = k
            OBVIOUS
          <5> HIDE DEF held
          <5> QED
            BY <2>1, <5>1, <5>2, Zenon
        <4> QED
          BY <3>1, <4>1, <4>2
      <3> QED
        BY <2>1, <3>2, <3>3
    <2>3. \A bin \in held : bin.key = k => bin.val \in Vals
      <3> SUFFICES ASSUME NEW bin \in held, bin.key = k PROVE bin.val \in Vals
        OBVIOUS
      <3>1. CASE \E p : Here(b, n, k, p) /\ bin = b[p]
        BY <3>1 DEF Here, StoredIn, IsActive, Holding, Tidy
      <3>2. CASE \E f, i : There(s, k, f, i) /\ bin = s[f].old[i]
        BY <3>2, FrameFacts DEF There, Holding
      <3> QED
        BY <2>1, <3>1, <3>2
    <2>4. CASE \E bin \in held : bin.key = k
      <3>1. PICK bin \in held : bin.key = k
        BY <2>4
      <3>2. C[k] = bin.val
        BY <2>2, <3>1 DEF ContentOf
      <3>3. \A v \in Vals : Says(b, n, s, k, v) <=> bin.val = v
        <4>1. \A other \in held : other.key = k => other = bin
          BY <2>2, <3>1
        <4>2. \A v : Says(b, n, s, k, v) <=> \E o : o \in held /\ o.key = k /\ o.val = v
          <5> TAKE v
          <5> HIDE DEF held
          <5>1. ASSUME NEW o, o \in held, o.key = k, o.val = v PROVE Says(b, n, s, k, v)
            BY <2>1, <5>1 DEF Says
          <5>2. ASSUME Says(b, n, s, k, v) PROVE \E o : o \in held /\ o.key = k /\ o.val = v
            <6>1. CASE \E p : Here(b, n, k, p) /\ b[p].val = v
              BY <2>1, <6>1
            <6>2. CASE \E f, i : There(s, k, f, i) /\ s[f].old[i].val = v
              <7>1. PICK f, i : There(s, k, f, i) /\ s[f].old[i].val = v
                BY <6>2
              <7>2. s[f].old[i] \in held /\ s[f].old[i].key = k
                BY <2>1, <7>1, Zenon
              <7> QED
                BY <7>1, <7>2
            <6> QED
              BY <5>2, <6>1, <6>2 DEF Says
          <5> QED
            BY <5>1, <5>2
        <4> QED
          BY <3>1, <4>1, <4>2
      <3> QED
        BY <2>3, <3>1, <3>2, <3>3
    <2>5. CASE ~\E bin \in held : bin.key = k
      <3>1. C[k] = NoVal
        BY <2>5 DEF ContentOf
      <3>2. ASSUME NEW v, Says(b, n, s, k, v) PROVE FALSE
        <4>1. CASE \E p : Here(b, n, k, p) /\ b[p].val = v
          BY <2>1, <2>5, <4>1, Zenon
        <4>2. CASE \E f, i : There(s, k, f, i) /\ s[f].old[i].val = v
          <5>1. PICK f, i : There(s, k, f, i) /\ s[f].old[i].val = v
            BY <4>2
          <5>2. s[f].old[i].key = k
            BY <5>1 DEF There
          <5>3. s[f].old[i] \in held
            BY <2>1, <5>1, Zenon
          <5> QED
            BY <2>5, <5>2, <5>3, Zenon
        <4>3. \/ \E p : Here(b, n, k, p) /\ b[p].val = v
              \/ \E f, i : There(s, k, f, i) /\ s[f].old[i].val = v
          BY <3>2, Zenon DEF Says
        <4> QED
          BY <4>1, <4>2, <4>3, Zenon
      <3> QED
        BY <3>1, <3>2, NamesAssumption
    <2> QED
      BY <2>4, <2>5
  <1>2. C \in [Keys -> Vals \cup {NoVal}]
    <2>1. C = [k \in Keys |-> C[k]]
      BY DEF ContentOf
    <2> QED
      BY <1>1, <2>1
  <1> QED
    BY <1>1, <1>2

-----------------------------------------------------------------------------
(* What the steps of the code do to it.                                    *)

Full(k, v) == [in_probe |-> TRUE, is_empty |-> FALSE, key |-> k, val |-> v]

(* A bin for key k: that of the key or, if the table has none, an empty one.*)
FitsIn(b, n, k, p) ==
  /\ p \in 0 .. n - 1
  /\ Here(b, n, k, p) \/ (b[p].is_empty /\ \A q : ~Here(b, n, k, q))

LEMMA StoreFacts ==
  ASSUME NEW b, NEW n, NEW s, Holding(b, n, s),
         NEW k \in Keys, NEW v \in Vals, NEW p, FitsIn(b, n, k, p),
         \A f, i : ~There(s, k, f, i)
  PROVE  LET c == [b EXCEPT ![p] = Full(k, v)]
         IN  /\ Holding(c, n, s)
             /\ \A x \in Keys, w \in Vals :
                  Says(c, n, s, x, w) <=> IF x = k THEN w = v ELSE Says(b, n, s, x, w)
  <1> DEFINE c == [b EXCEPT ![p] = Full(k, v)]
  <1>1. n \in Nat /\ b \in [0 .. n - 1 -> Bin] /\ p \in 0 .. n - 1 /\ Full(k, v) \in Bin
    BY DEF Holding, FitsIn, Full, Bin
  <1>2. c \in [0 .. n - 1 -> Bin]
    BY <1>1
  <1>3. c[p] = Full(k, v) /\ \A q \in (0 .. n - 1) \ {p} : c[q] = b[q]
    BY <1>1
  <1> HIDE DEF c
  <1>4. Tidy(c, n)
    BY <1>1, <1>3 DEF Holding, Tidy, Full
  <1>5. \A x, q : Here(c, n, x, q) <=> IF x = k THEN q = p ELSE Here(b, n, x, q)
    <2> TAKE x, q
    <2>1. CASE q = p
      <3>1. Here(c, n, x, q) <=> x = k
        BY <1>1, <1>3, <2>1 DEF Here, StoredIn, IsActive, Full
      <3>2. x # k => ~Here(b, n, x, p)
        BY DEF FitsIn, Here, StoredIn, IsActive
      <3> QED
        BY <2>1, <3>1, <3>2
    <2>2. CASE q # p
      <3>1. Here(c, n, x, q) <=> Here(b, n, x, q)
        BY <1>3, <2>2 DEF Here, StoredIn, IsActive
      <3>2. x = k => ~Here(b, n, x, q)
        BY <2>2 DEF FitsIn, Holding, Unique
      <3> QED
        BY <2>2, <3>1, <3>2
    <2> QED
      BY <2>1, <2>2
  <1>6. Unique(c, n, s)
    BY <1>5 DEF Holding, Unique
  <1>7. ASSUME NEW x \in Keys, NEW w \in Vals
        PROVE  Says(c, n, s, x, w) <=> IF x = k THEN w = v ELSE Says(b, n, s, x, w)
    <2>1. CASE x = k
      BY <1>3, <1>5, <2>1 DEF Says, Full
    <2>2. CASE x # k
      <3>1. ASSUME NEW q, Here(b, n, x, q) PROVE c[q] = b[q]
        <4>1. q \in 0 .. n - 1 /\ q # p
          BY <2>2, <3>1 DEF FitsIn, Here, StoredIn, IsActive
        <4> QED
          BY <1>3, <4>1
      <3>2. \A q : Here(c, n, x, q) <=> Here(b, n, x, q)
        BY <1>5, <2>2
      <3> QED
        BY <2>2, <3>1, <3>2 DEF Says
    <2> QED
      BY <2>1, <2>2
  <1> QED
    BY <1>1, <1>2, <1>4, <1>6, <1>7 DEF Holding, c

LEMMA FreeFacts ==
  ASSUME NEW b, NEW n, NEW s, Holding(b, n, s), NEW k \in Keys, NEW p, Here(b, n, k, p)
  PROVE  LET c == [b EXCEPT ![p] = Tombstone]
         IN  /\ Holding(c, n, s)
             /\ \A x \in Keys, w \in Vals :
                  Says(c, n, s, x, w) <=> x # k /\ Says(b, n, s, x, w)
  <1> DEFINE c == [b EXCEPT ![p] = Tombstone]
  <1>1. n \in Nat /\ b \in [0 .. n - 1 -> Bin] /\ p \in 0 .. n - 1 /\ Tombstone \in Bin
    BY DEF Holding, Here, StoredIn, Tombstone, FreshBin, Bin
  <1>2. c \in [0 .. n - 1 -> Bin]
    BY <1>1
  <1>3. c[p] = Tombstone /\ \A q \in (0 .. n - 1) \ {p} : c[q] = b[q]
    BY <1>1
  <1>4. Tombstone.is_empty /\ Tombstone.in_probe
    BY DEF Tombstone, FreshBin
  <1> HIDE DEF c
  <1>5. Tidy(c, n)
    BY <1>1, <1>3, <1>4 DEF Holding, Tidy
  <1>6. \A x, q : Here(c, n, x, q) <=> x # k /\ Here(b, n, x, q)
    <2> TAKE x, q
    <2>1. CASE q = p
      BY <1>3, <1>4, <2>1 DEF Here, StoredIn, IsActive
    <2>2. CASE q # p
      <3>1. Here(c, n, x, q) <=> Here(b, n, x, q)
        BY <1>3, <2>2 DEF Here, StoredIn, IsActive
      <3>2. ~Here(b, n, k, q)
        BY <2>2 DEF Holding, Unique
      <3> QED
        BY <3>1, <3>2
    <2> QED
      BY <2>1, <2>2
  <1>7. Unique(c, n, s)
    BY <1>6 DEF Holding, Unique
  <1>8. ASSUME NEW x \in Keys, NEW w \in Vals
        PROVE  Says(c, n, s, x, w) <=> x # k /\ Says(b, n, s, x, w)
    <2>1. \A q : Here(c, n, x, q) => c[q] = b[q]
      BY <1>3, <1>4 DEF Here, StoredIn, IsActive
    <2>2. \A f, i : ~There(s, k, f, i)
      BY DEF Holding, Unique
    <2> QED
      BY <1>6, <2>1, <2>2 DEF Says
  <1> QED
    BY <1>1, <1>2, <1>5, <1>7, <1>8 DEF Holding, c

LEMMA FreshFacts ==
  ASSUME NEW m \in Nat
  PROVE  /\ FreshBins(m) \in [0 .. m - 1 -> Bin] /\ Tidy(FreshBins(m), m)
         /\ StoredIn(FreshBins(m), m) = {} /\ InProbe(FreshBins(m), m) = {}
  <1>1. FreshBin \in Bin /\ ~FreshBin.in_probe /\ FreshBin.is_empty
    BY DEF FreshBin, Bin
  <1>2. \A p \in 0 .. m - 1 : FreshBins(m)[p] = FreshBin
    BY DEF FreshBins
  <1>3. FreshBins(m) \in [0 .. m - 1 -> Bin]
    BY <1>1 DEF FreshBins
  <1> QED
    BY <1>1, <1>2, <1>3 DEF Tidy, StoredIn, InProbe, IsActive

LEMMA PushFacts ==
  ASSUME NEW b, NEW n, NEW s, Holding(b, n, s), NEW m \in Nat
  PROVE  LET t == Append(s, [old |-> b, size |-> n, next |-> 0])
         IN  /\ Holding(FreshBins(m), m, t)
             /\ \A x \in Keys, w \in Vals :
                  Says(FreshBins(m), m, t, x, w) <=> Says(b, n, s, x, w)
  <1> DEFINE frame == [old |-> b, size |-> n, next |-> 0]
             t == Append(s, frame)
             top == Len(s) + 1
             c == FreshBins(m)
  <1>1. n \in Nat /\ b \in [0 .. n - 1 -> Bin] /\ s \in Seq(Frame) /\ Len(s) \in Nat
    BY LenProperties DEF Holding, StackOK
  <1>2. frame \in Frame
    <2>1. b \in Array
      BY <1>1 DEF Array
    <2> QED
      BY <1>1, <2>1 DEF Frame
  <1>3. /\ t \in Seq(Frame) /\ Len(t) = top
        /\ \A f \in 1 .. Len(s) : t[f] = s[f]
        /\ t[top] = frame
    BY <1>1, <1>2, AppendProperties
  <1>4. /\ frame.old = b /\ frame.size = n /\ frame.next = 0
    OBVIOUS
  <1> HIDE DEF t, frame, c
  <1>5. StackOK(t)
    <2>1. FrameOK(frame)
      BY <1>1, <1>4 DEF FrameOK, Holding
    <2> QED
      BY <1>1, <1>3, <2>1 DEF StackOK, Holding
  <1>6. \A x, f, i : There(t, x, f, i) <=>
                     There(s, x, f, i) \/ (f = top /\ Here(b, n, x, i))
    <2> TAKE x, f, i
    <2>1. CASE f = top
      <3>1. There(t, x, f, i) <=> i \in WaitingIn(frame) /\ b[i].key = x
        BY <1>1, <1>3, <1>4, <2>1 DEF There
      <3>2. i \in WaitingIn(frame) <=> i \in StoredIn(b, n)
        BY <1>1, <1>4 DEF WaitingIn, StoredIn, IsActive, Holding, Tidy
      <3>3. ~There(s, x, f, i)
        BY <1>1, <2>1 DEF There
      <3> QED
        BY <2>1, <3>1, <3>2, <3>3 DEF Here
    <2>2. CASE f # top
      BY <1>1, <1>3, <2>2 DEF There
    <2> QED
      BY <2>1, <2>2
  <1>7. \A x, q : ~Here(c, m, x, q)
    BY FreshFacts DEF Here, c
  <1>8. Unique(c, m, t)
    <2>1. \A x, f, i : There(s, x, f, i) => f # top
      BY <1>1 DEF There
    <2>2. Unique(b, n, s)
      BY DEF Holding
    <2> QED
      BY <1>6, <1>7, <2>1, <2>2, SMTT(30) DEF Unique
  <1>9. ASSUME NEW x \in Keys, NEW w \in Vals
        PROVE  Says(c, m, t, x, w) <=> Says(b, n, s, x, w)
    <2>1. \A f, i : There(s, x, f, i) => t[f] = s[f]
      BY <1>3 DEF There
    <2>2. t[top].old = b
      BY <1>3, <1>4
    <2>3. ASSUME Says(c, m, t, x, w) PROVE Says(b, n, s, x, w)
      BY <1>6, <1>7, <2>1, <2>2, <2>3 DEF Says
    <2>4. ASSUME Says(b, n, s, x, w) PROVE Says(c, m, t, x, w)
      BY <1>6, <2>1, <2>2, <2>4 DEF Says
    <2> QED
      BY <2>3, <2>4
  <1>10. c \in [0 .. m - 1 -> Bin] /\ Tidy(c, m)
    BY FreshFacts DEF c
  <1> QED
    BY <1>5, <1>8, <1>9, <1>10 DEF Holding, c, t, frame

(* The loop of init_table goes on to the next bin.                         *)
LEMMA AdvanceFacts ==
  ASSUME NEW b, NEW n, NEW s, Holding(b, n, s), s # <<>>,
         s[Len(s)].next < s[Len(s)].size
  PROVE  LET top == Len(s)
             t   == [s EXCEPT ![top].next = @ + 1]
             at  == s[top].next
         IN  /\ Holding(b, n, t)
             /\ \A x, f, i : There(t, x, f, i) <=>
                  There(s, x, f, i) /\ ~(f = top /\ i = at)
             /\ \A f \in 1 .. top : t[f].old = s[f].old
             /\ Len(t) = top
  <1> DEFINE top == Len(s)
             t == [s EXCEPT ![top].next = @ + 1]
             at == s[top].next
             frame == [s[top] EXCEPT !.next = at + 1]
  <1>1. s \in Seq(Frame) /\ top \in Nat \ {0} /\ top \in 1 .. Len(s)
    BY EmptySeq DEF Holding, StackOK
  <1>2. /\ s[top] \in Frame /\ s[top].size \in Nat /\ at \in 0 .. s[top].size
        /\ FrameOK(s[top])
    BY <1>1, FrameFacts DEF Holding, StackOK
  <1>3. /\ frame \in Frame /\ frame.old = s[top].old /\ frame.size = s[top].size
        /\ frame.next = at + 1
    BY <1>2 DEF Frame
  <1>4. t = [s EXCEPT ![top] = frame]
    OBVIOUS
  <1> HIDE DEF t, frame
  <1>5. /\ t \in Seq(Frame) /\ Len(t) = top
        /\ \A f \in 1 .. top : t[f] = IF f = top THEN frame ELSE s[f]
    BY <1>1, <1>3, <1>4, ExceptSeq
  <1>6. \A f \in 1 .. top : t[f].old = s[f].old
    BY <1>3, <1>5
  <1>7. StackOK(t)
    <2>1. FrameOK(frame)
      BY <1>2, <1>3 DEF FrameOK
    <2> QED
      BY <1>5, <2>1 DEF StackOK, Holding
  <1>8. WaitingIn(frame) = WaitingIn(s[top]) \ {at}
    BY <1>2, <1>3 DEF WaitingIn
  <1>9. \A x, f, i : There(t, x, f, i) <=>
                     There(s, x, f, i) /\ ~(f = top /\ i = at)
    BY <1>1, <1>5, <1>6, <1>8 DEF There
  <1>10. Unique(b, n, t)
    BY <1>9 DEF Holding, Unique
  <1> QED
    BY <1>5, <1>6, <1>7, <1>9, <1>10 DEF Holding, t

(* An old array all of whose bins were moved is freed.                     *)
LEMMA PopFacts ==
  ASSUME NEW b, NEW n, NEW s, Holding(b, n, s), s # <<>>,
         s[Len(s)].next = s[Len(s)].size
  PROVE  LET t == SubSeq(s, 1, Len(s) - 1)
         IN  /\ Holding(b, n, t)
             /\ \A x \in Keys, w \in Vals :
                  Says(b, n, t, x, w) <=> Says(b, n, s, x, w)
  <1> DEFINE top == Len(s)
             t == SubSeq(s, 1, top - 1)
  <1>1. s \in Seq(Frame) /\ top \in Nat \ {0} /\ top \in 1 .. Len(s)
    BY EmptySeq DEF Holding, StackOK
  <1>2. /\ t \in Seq(Frame) /\ Len(t) = top - 1
        /\ \A f \in 1 .. top - 1 : t[f] = s[f]
    <2>1. \A f \in 1 .. top - 1 : s[f] \in Frame
      BY <1>1, ElementOfSeq
    <2>2. /\ t \in Seq(Frame)
          /\ Len(t) = IF 1 <= top - 1 THEN top - 1 - 1 + 1 ELSE 0
          /\ \A f \in 1 .. top - 1 - 1 + 1 : t[f] = s[1 + f - 1]
      BY <1>1, <2>1, SubSeqProperties
    <2>3. ASSUME NEW f \in 1 .. top - 1 PROVE t[f] = s[f]
      <3>1. f \in 1 .. top - 1 - 1 + 1 /\ 1 + f - 1 = f
        BY <1>1
      <3> HIDE DEF t
      <3>2. t[f] = s[1 + f - 1]
        BY <2>2, <3>1, Zenon
      <3> QED
        BY <3>1, <3>2
    <2>4. (IF 1 <= top - 1 THEN top - 1 - 1 + 1 ELSE 0) = top - 1
      <3> HIDE DEF top
      <3>1. CASE top = 1
        BY <3>1
      <3>2. CASE top > 1
        BY <1>1, <3>2
      <3> QED
        BY <1>1, <3>1, <3>2
    <2> HIDE DEF t
    <2> QED
      BY <2>2, <2>3, <2>4
  <1> HIDE DEF t
  <1>3. StackOK(t)
    BY <1>1, <1>2 DEF StackOK, Holding
  <1>4. WaitingIn(s[top]) = {}
    BY <1>1, FrameFacts DEF WaitingIn, Holding
  <1>5. \A x, f, i : There(t, x, f, i) <=> There(s, x, f, i)
    <2> TAKE x, f, i
    <2>1. There(s, x, f, i) => f \in 1 .. top - 1
      BY <1>1, <1>4 DEF There
    <2>2. f \in 1 .. top - 1 => f \in 1 .. top /\ t[f] = s[f]
      BY <1>1, <1>2
    <2> QED
      BY <1>2, <2>1, <2>2 DEF There
  <1>6. Unique(b, n, t)
    BY <1>5 DEF Holding, Unique
  <1>7. \A x, f, i : There(t, x, f, i) => t[f] = s[f]
    BY <1>1, <1>2 DEF There
  <1>8. \A x \in Keys, w \in Vals : Says(b, n, t, x, w) <=> Says(b, n, s, x, w)
    BY <1>5, <1>7 DEF Says
  <1> QED
    BY <1>3, <1>6, <1>8 DEF Holding, t

-----------------------------------------------------------------------------
(* Steps that several operations share.                                    *)

LEMMA ResizeFacts ==
  ASSUME NEW b, NEW n, NEW s, Holding(b, n, s), NEW m \in Sizes, Resize(b, n, s, m)
  PROVE  /\ Shape(hash', bins', size', used', active', moving')
         /\ \A x \in Keys, w \in Vals :
              Says(bins', size', moving', x, w) <=> Says(b, n, s, x, w)
  <1>1. m \in Nat
    BY SizesFacts
  <1>2. /\ bins' = FreshBins(m) /\ size' = m /\ used' = 0 /\ active' = 0
        /\ moving' = Append(s, [old |-> b, size |-> n, next |-> 0])
    BY DEF Resize
  <1>3. /\ Holding(bins', size', moving')
        /\ \A x \in Keys, w \in Vals :
             Says(bins', size', moving', x, w) <=> Says(b, n, s, x, w)
    BY <1>1, <1>2, PushFacts
  <1>4. StoredIn(bins', size') = {} /\ Cardinality(InProbe(bins', size')) = 0
    BY <1>1, <1>2, FreshFacts, FS_EmptySet
  <1>5. Chained(hash', bins', size')
    BY <1>4 DEF Chained
  <1>6. 0 \in 0 .. Width - 1 /\ 2 * 0 <= m
    BY <1>1, SizesAssumption
  <1> QED
    BY <1>2, <1>3, <1>4, <1>5, <1>6 DEF Shape, Holding

LEMMA PlaceFacts ==
  ASSUME Inv, hash' = hash, NEW k \in Keys, NEW v \in Vals,
         NEW s, Holding(bins, size, s), \A f, i : ~There(s, k, f, i),
         Place(k, v, s)
  PROVE  /\ Shape(hash', bins', size', used', active', moving')
         /\ \A x \in Keys, w \in Vals :
              Says(bins', size', moving', x, w) <=>
                IF x = k THEN w = v ELSE Says(bins, size, s, x, w)
  <1> DEFINE p == Target(k)
             b == [bins EXCEPT ![p] = Full(k, v)]
             u == used + Joining(p)
  <1>1. /\ FitsIn(bins, size, k, p) /\ Reaches(hash, bins, size, k, p)
        /\ p \in 0 .. size - 1
    BY TargetFacts DEF FitsIn
  <1>2. /\ Holding(b, size, s)
        /\ \A x \in Keys, w \in Vals :
             Says(b, size, s, x, w) <=>
               IF x = k THEN w = v ELSE Says(bins, size, s, x, w)
    BY <1>1, StoreFacts
  <1>3. /\ size \in Nat /\ size \in Sizes /\ 2 * size \in Sizes
        /\ bins \in [0 .. size - 1 -> Bin]
        /\ used = Cardinality(InProbe(bins, size)) /\ active \in 0 .. Width - 1
    BY SizesFacts DEF Inv, Shape
  <1>4. b[p] = Full(k, v) /\ \A q \in (0 .. size - 1) \ {p} : b[q] = bins[q]
    BY <1>1, <1>3
  <1>5. IF TooFull(u)
        THEN Resize(b, size, s, 2 * size)
        ELSE /\ bins' = b /\ used' = u
             /\ active' = (active + One(bins[p].is_empty)
                             + Width - One(IsActive(bins[p]))) % Width
             /\ moving' = s /\ size' = size
    BY Zenon DEF Place, Grown, Full
  <1> HIDE DEF b, p
  <1>6. CASE TooFull(u)
    BY <1>2, <1>3, <1>5, <1>6, ResizeFacts
  <1>7. CASE ~TooFull(u)
    <2>1. u = Cardinality(InProbe(b, size)) /\ u \in Nat
      <3>1. IsFiniteSet(InProbe(bins, size)) /\ used \in Nat
        <4>1. IsFiniteSet(0 .. size - 1)
          BY <1>3, FS_Interval
        <4>2. InProbe(bins, size) \in SUBSET (0 .. size - 1)
          BY DEF InProbe
        <4> QED
          BY <1>3, <4>1, <4>2, FS_Subset, FS_CardinalityType
      <3>2. InProbe(b, size) = InProbe(bins, size) \cup {p}
        BY <1>1, <1>4 DEF InProbe, Full
      <3>3. Joining(p) = IF p \in InProbe(bins, size) THEN 0 ELSE 1
        <4>1. p \in InProbe(bins, size) <=> bins[p].in_probe
          BY <1>1 DEF InProbe
        <4> QED
          BY <4>1 DEF Joining, One
      <3>4. Cardinality(InProbe(b, size)) =
              IF p \in InProbe(bins, size) THEN used ELSE used + 1
        BY <1>3, <3>1, <3>2, FS_AddElement
      <3> QED
        BY <3>1, <3>3, <3>4
    <2>2. 2 * u <= size
      BY <1>3, <1>7, <2>1 DEF TooFull
    <2>3. active' \in 0 .. Width - 1
      <3>1. One(bins[p].is_empty) \in 0 .. 1 /\ One(IsActive(bins[p])) \in 0 .. 1
        BY DEF One
      <3> DEFINE sum == active + One(bins[p].is_empty) + Width - One(IsActive(bins[p]))
      <3>2. sum \in Nat
        BY <1>3, <3>1, SizesAssumption
      <3>3. active' = (sum % Width)
        BY <1>5, <1>7
      <3> HIDE DEF sum
      <3> QED
        BY <3>2, <3>3, SizesAssumption
    <2>4. Chained(hash, b, size)
      <3>1. ASSUME NEW x \in Keys, NEW q, Reaches(hash, bins, size, x, q)
            PROVE  Reaches(hash, b, size, x, q)
        <4>1. \A r \in 0 .. size - 1 : bins[r].in_probe => b[r].in_probe
          BY <1>4 DEF Full
        <4>2. PICK i \in 0 .. size - 1 :
                /\ q = Probe(hash[x], i, size)
                /\ \A j \in 0 .. i - 1 : bins[Probe(hash[x], j, size)].in_probe
          BY <3>1 DEF Reaches
        <4>3. ASSUME NEW j \in 0 .. i - 1
              PROVE  b[Probe(hash[x], j, size)].in_probe
          <5>1. bins[Probe(hash[x], j, size)].in_probe
            BY <4>2
          <5>2. Probe(hash[x], j, size) \in 0 .. size - 1
            <6>1. hash[x] \in Nat /\ size \in Nat \ {0}
              BY SearchFacts
            <6>2. j \in 0 .. size - 1
              BY <6>1
            <6> QED
              BY <6>1, <6>2, ProbeFacts
          <5> QED
            BY <4>1, <5>1, <5>2
        <4> QED
          BY <4>2, <4>3 DEF Reaches
      <3>2. ASSUME NEW q \in StoredIn(b, size)
            PROVE  b[q].key \in Keys /\ Reaches(hash, bins, size, b[q].key, q)
        <4>1. CASE q = p
          BY <1>1, <1>4, <4>1 DEF Full
        <4>2. CASE q # p
          <5>1. q \in StoredIn(bins, size) /\ b[q] = bins[q]
            BY <1>4, <4>2 DEF StoredIn
          <5>2. bins[q].key \in Keys
            BY <5>1 DEF StoredIn, IsActive, Inv, Shape, Tidy
          <5> QED
            BY <5>1, <5>2 DEF Inv, Shape, Chained
        <4> QED
          BY <4>1, <4>2
      <3> QED
        BY <3>1, <3>2 DEF Chained
    <2>5. Shape(hash', bins', size', used', active', moving')
      BY <1>2, <1>3, <1>5, <1>7, <2>1, <2>2, <2>3, <2>4 DEF Shape, Holding
    <2> QED
      BY <1>2, <1>5, <1>7, <2>5
  <1> QED
    BY <1>6, <1>7

-----------------------------------------------------------------------------
(* The content and its size.                                               *)

LEMMA InvHolds ==
  ASSUME Inv
  PROVE  /\ Holding(bins, size, moving)
         /\ Content \in [Keys -> Vals \cup {NoVal}]
         /\ \A k \in Keys, v \in Vals : Content[k] = v <=> Says(bins, size, moving, k, v)
  <1>1. Holding(bins, size, moving)
    BY SizesFacts DEF Inv, Shape, Holding
  <1> QED
    BY <1>1, ContentFacts DEF Content

LEMMA FilledFacts ==
  ASSUME Inv, NEW k \in Keys
  PROVE  k \in Filled(Content) <=> \/ \E p : Here(bins, size, k, p)
                                   \/ \E f, i : There(moving, k, f, i)
  <1>1. k \in Filled(Content) <=> \E v \in Vals : Says(bins, size, moving, k, v)
    BY InvHolds, NamesAssumption DEF Filled
  <1>2. \A p : Here(bins, size, k, p) => bins[p].val \in Vals
    BY DEF Here, StoredIn, IsActive, Inv, Shape, Tidy
  <1>3. \A f, i : There(moving, k, f, i) => moving[f].old[i].val \in Vals
    BY InvHolds, FrameFacts DEF There, Holding
  <1> QED
    BY <1>1, <1>2, <1>3 DEF Says

(* One key is given a value, or, with NoVal, taken out.                    *)
LEMMA ContentChanges ==
  ASSUME Inv, Shape(hash', bins', size', used', active', moving'),
         NEW k \in Keys, NEW v \in Vals \cup {NoVal},
         \A x \in Keys, w \in Vals :
           Says(bins', size', moving', x, w) <=>
             IF x = k THEN w = v ELSE Says(bins, size, moving, x, w)
  PROVE  /\ Content' = [Content EXCEPT ![k] = v]
         /\ Filled(Content') = IF v = NoVal THEN Filled(Content) \ {k}
                                            ELSE Filled(Content) \cup {k}
  <1>1. Holding(bins', size', moving')
    BY SizesFacts DEF Shape, Holding
  <1>2. Content' = ContentOf(HeldIn(bins', size', moving'))
    BY DEF Content
  <1>3. /\ Content' \in [Keys -> Vals \cup {NoVal}]
        /\ \A x \in Keys, w \in Vals : Content'[x] = w <=> Says(bins', size', moving', x, w)
    BY <1>1, <1>2, ContentFacts
  <1>4. /\ Content \in [Keys -> Vals \cup {NoVal}]
        /\ \A x \in Keys, w \in Vals : Content[x] = w <=> Says(bins, size, moving, x, w)
    BY InvHolds
  <1> HIDE DEF Content
  <1>5. \A x \in Keys : Content'[x] = IF x = k THEN v ELSE Content[x]
    BY <1>3, <1>4, NamesAssumption
  <1>6. Content' = [Content EXCEPT ![k] = v]
    BY <1>3, <1>4, <1>5
  <1> QED
    BY <1>5, <1>6 DEF Filled

LEMMA ContentStays ==
  ASSUME Inv, Shape(hash', bins', size', used', active', moving'),
         \A x \in Keys, w \in Vals :
           Says(bins', size', moving', x, w) <=> Says(bins, size, moving, x, w)
  PROVE  Content' = Content
  <1>1. Holding(bins', size', moving')
    BY SizesFacts DEF Shape, Holding
  <1>2. Content' = ContentOf(HeldIn(bins', size', moving'))
    BY DEF Content
  <1>3. /\ Content' \in [Keys -> Vals \cup {NoVal}]
        /\ \A x \in Keys, w \in Vals : Content'[x] = w <=> Says(bins', size', moving', x, w)
    BY <1>1, <1>2, ContentFacts
  <1>4. /\ Content \in [Keys -> Vals \cup {NoVal}]
        /\ \A x \in Keys, w \in Vals : Content[x] = w <=> Says(bins, size, moving, x, w)
    BY InvHolds
  <1> HIDE DEF Content
  <1>5. \A x \in Keys : Content'[x] = Content[x]
    BY <1>3, <1>4, NamesAssumption
  <1> QED
    BY <1>3, <1>4, <1>5

-----------------------------------------------------------------------------
(* The operations.                                                         *)

LEMMA NobodyWaits ==
  ASSUME Idle
  PROVE  \A k, f, i : ~There(moving, k, f, i)
  BY DEF Idle, There

LEMMA InsertStep ==
  ASSUME Inv, NEW k \in Keys, NEW v \in Vals, Insert(k, v)
  PROVE  Inv' /\ Abstract!Insert(k, v)
  <1>1. /\ hash' = hash /\ answer' = answer /\ Idle /\ Place(k, v, moving)
        /\ owned' = owned + 1 - Freed(Target(k))
    BY DEF Insert
  <1>2. /\ Shape(hash', bins', size', used', active', moving')
        /\ \A x \in Keys, w \in Vals :
             Says(bins', size', moving', x, w) <=>
               IF x = k THEN w = v ELSE Says(bins, size, moving, x, w)
    BY <1>1, InvHolds, NobodyWaits, PlaceFacts
  <1>3. /\ Content' = [Content EXCEPT ![k] = v]
        /\ Filled(Content') = Filled(Content) \cup {k}
    BY <1>2, ContentChanges, NamesAssumption
  <1>4. Freed(Target(k)) = IF k \in Filled(Content) THEN 1 ELSE 0
    <2>1. k \in Filled(Content) <=> \E p : Here(bins, size, k, p)
      BY <1>1, FilledFacts, NobodyWaits
    <2>2. IsActive(bins[Target(k)]) <=> \E p : Here(bins, size, k, p)
      BY TargetFacts DEF Here, StoredIn, IsActive
    <2> QED
      BY <2>1, <2>2 DEF Freed, One
  <1>5. IsFiniteSet(Filled(Content')) /\ owned' = Cardinality(Filled(Content'))
    <2>1. /\ IsFiniteSet(Filled(Content)) /\ owned = Cardinality(Filled(Content))
          /\ owned \in Nat
      BY FS_CardinalityType DEF Inv
    <2>2. /\ IsFiniteSet(Filled(Content'))
          /\ Cardinality(Filled(Content')) =
               IF k \in Filled(Content) THEN owned ELSE owned + 1
      <3> DEFINE F == Filled(Content)
                 G == Filled(Content')
      <3>1. IsFiniteSet(F) /\ owned = Cardinality(F) /\ G = F \cup {k}
        BY <1>3, <2>1
      <3> HIDE DEF F, G
      <3>2. IsFiniteSet(G) /\ Cardinality(G) = IF k \in F THEN owned ELSE owned + 1
        BY <3>1, FS_AddElement
      <3> QED
        BY <3>2 DEF F, G
    <2> QED
      BY <1>1, <1>4, <2>1, <2>2
  <1>6. Inv'
    <2>1. hash' \in Hashes /\ answer' \in Vals \cup {NoVal}
      BY <1>1 DEF Inv
    <2> QED
      BY <1>2, <1>5, <2>1 DEF Inv
  <1> QED
    BY <1>1, <1>3, <1>6 DEF Abstract!Insert

LEMMA LookupStep ==
  ASSUME Inv, NEW k \in Keys, Lookup(k)
  PROVE  Inv' /\ Abstract!Lookup(k)
  <1>1. /\ hash' = hash /\ bins' = bins /\ size' = size /\ used' = used
        /\ active' = active /\ moving' = moving /\ owned' = owned /\ Idle
        /\ answer' = IF bins[FindKey(k)].in_probe THEN bins[FindKey(k)].val ELSE NoVal
    BY DEF Lookup
  <1>2. answer' = Content[k]
    <2>1. CASE bins[FindKey(k)].in_probe
      <3>1. Here(bins, size, k, FindKey(k))
        BY <2>1, SearchFacts DEF Here, StoredIn, KeyInBin
      <3>2. bins[FindKey(k)].val \in Vals
        BY <3>1 DEF Here, StoredIn, IsActive, Inv, Shape, Tidy
      <3>3. Says(bins, size, moving, k, bins[FindKey(k)].val)
        BY <3>1 DEF Says
      <3> QED
        BY <1>1, <2>1, <3>2, <3>3, InvHolds
    <2>2. CASE ~bins[FindKey(k)].in_probe
      <3>1. k \notin Filled(Content)
        BY <1>1, <2>2, NotFound, FilledFacts, NobodyWaits
      <3> QED
        BY <1>1, <2>2, <3>1 DEF Filled
    <2> QED
      BY <2>1, <2>2
  <1>3. Content' = Content
    BY <1>1 DEF Content
  <1>4. answer' \in Vals \cup {NoVal}
    BY <1>2, InvHolds
  <1>5. Inv'
    BY <1>1, <1>3, <1>4 DEF Inv
  <1> QED
    BY <1>2, <1>3, <1>5 DEF Abstract!Lookup

LEMMA DeleteStep ==
  ASSUME Inv, NEW k \in Keys, Delete(k)
  PROVE  Inv' /\ Abstract!Delete(k)
  <1> DEFINE p == FindKey(k)
             found == IsActive(bins[p])
             b == IF found THEN [bins EXCEPT ![p] = Tombstone] ELSE bins
             a == (active + Width - One(found)) % Width
  <1>1. /\ hash' = hash /\ answer' = answer /\ Idle
        /\ owned' = owned - One(found)
        /\ IF TooEmpty(a)
           THEN Resize(b, size, moving, size \div 2)
           ELSE /\ bins' = b /\ active' = a
                /\ size' = size /\ used' = used /\ moving' = moving
    BY DEF Delete
  <1>2. found <=> k \in Filled(Content)
    <2>1. found => Here(bins, size, k, p)
      BY SearchFacts DEF Here, StoredIn, KeyInBin, IsActive
    <2>2. ~found => \A q : ~Here(bins, size, k, q)
      <3>1. ~found => ~bins[p].in_probe
        BY SearchFacts DEF KeyInBin
      <3> QED
        BY <3>1, NotFound
    <2> QED
      BY <1>1, <2>1, <2>2, FilledFacts, NobodyWaits
  <1>3. found => Here(bins, size, k, p)
    BY SearchFacts DEF Here, StoredIn, KeyInBin, IsActive
  <1>4. /\ size \in Sizes /\ size \in Nat /\ bins \in [0 .. size - 1 -> Bin]
        /\ p \in 0 .. size - 1
    BY SizesFacts, SearchFacts DEF Inv, Shape
  <1>5. /\ Holding(b, size, moving)
        /\ \A x \in Keys, w \in Vals :
             Says(b, size, moving, x, w) <=> x # k /\ Says(bins, size, moving, x, w)
    <2>1. CASE found
      BY <1>3, <2>1, InvHolds, FreeFacts
    <2>2. CASE ~found
      <3>1. \A w \in Vals : ~Says(bins, size, moving, k, w)
        BY <1>2, <2>2, InvHolds, NamesAssumption DEF Filled
      <3> QED
        BY <2>2, <3>1, InvHolds
    <2> QED
      BY <2>1, <2>2
  <1>6. \A q \in 0 .. size - 1 : /\ b[q].in_probe <=> bins[q].in_probe
                                 /\ IsActive(b[q]) => b[q] = bins[q]
    BY <1>3, <1>4 DEF Here, StoredIn, IsActive, Tombstone, FreshBin
  <1>7. a \in 0 .. Width - 1
    <2>1. One(found) \in 0 .. 1
      BY DEF One
    <2> DEFINE sum == active + Width - One(found)
    <2>2. sum \in Nat /\ a = (sum % Width)
      BY <2>1, SizesAssumption DEF Inv, Shape
    <2> HIDE DEF sum, a
    <2> QED
      BY <2>2, SizesAssumption
  <1> HIDE DEF b, found, a
  <1>8. /\ Shape(hash', bins', size', used', active', moving')
        /\ \A x \in Keys, w \in Vals :
             Says(bins', size', moving', x, w) <=>
               IF x = k THEN w = NoVal ELSE Says(bins, size, moving, x, w)
    <2>1. CASE TooEmpty(a)
      <3>1. size \div 2 \in Sizes
        BY <1>4, <2>1, SizesFacts DEF TooEmpty
      <3>2. Resize(b, size, moving, size \div 2)
        BY <1>1, <2>1
      <3>3. /\ Shape(hash', bins', size', used', active', moving')
            /\ \A x \in Keys, w \in Vals :
                 Says(bins', size', moving', x, w) <=> Says(b, size, moving, x, w)
        BY <1>5, <3>1, <3>2, ResizeFacts
      <3> QED
        BY <1>5, <3>3, NamesAssumption
    <2>2. CASE ~TooEmpty(a)
      <3>1. InProbe(b, size) = InProbe(bins, size)
        BY <1>6 DEF InProbe
      <3>2. Chained(hash, b, size)
        <4> SUFFICES ASSUME NEW q \in StoredIn(b, size)
                     PROVE  Reaches(hash, b, size, b[q].key, q)
          BY DEF Chained
        <4>1. q \in StoredIn(bins, size) /\ b[q] = bins[q] /\ b[q].key \in Keys
          BY <1>5, <1>6 DEF StoredIn, IsActive, Holding, Tidy
        <4>2. PICK i \in 0 .. size - 1 :
                /\ q = Probe(hash[b[q].key], i, size)
                /\ \A j \in 0 .. i - 1 :
                     bins[Probe(hash[b[q].key], j, size)].in_probe
          BY <4>1 DEF Reaches, Inv, Shape, Chained
        <4>3. hash[b[q].key] \in Nat /\ size \in Nat \ {0}
          BY <4>1, SearchFacts
        <4>4. \A j \in 0 .. i - 1 : Probe(hash[b[q].key], j, size) \in 0 .. size - 1
          <5>1. \A j \in 0 .. i - 1 : j \in 0 .. size - 1
            BY <4>3
          <5>2. \A j \in 0 .. size - 1 :
                  Probe(hash[b[q].key], j, size) \in 0 .. size - 1
            BY <4>3, ProbeFacts
          <5> QED
            BY <5>1, <5>2
        <4> QED
          BY <1>6, <4>2, <4>4 DEF Reaches
      <3>3. /\ bins' = b /\ active' = a
            /\ size' = size /\ used' = used /\ moving' = moving
        BY <1>1, <2>2
      <3>4. Shape(hash', bins', size', used', active', moving')
        BY <1>1, <1>5, <1>7, <3>1, <3>2, <3>3 DEF Inv, Shape, Holding
      <3> QED
        BY <1>5, <3>3, <3>4, NamesAssumption
    <2> QED
      BY <2>1, <2>2
  <1>9. /\ Content' = [Content EXCEPT ![k] = NoVal]
        /\ Filled(Content') = Filled(Content) \ {k}
    BY <1>8, ContentChanges
  <1>10. IsFiniteSet(Filled(Content')) /\ owned' = Cardinality(Filled(Content'))
    <2> DEFINE F == Filled(Content)
               G == Filled(Content')
    <2>1. IsFiniteSet(F) /\ owned = Cardinality(F) /\ G = F \ {k}
      BY <1>9 DEF Inv
    <2>2. owned' = IF k \in F THEN owned - 1 ELSE owned
      <3>1. owned \in Nat
        BY <2>1, FS_CardinalityType
      <3> QED
        BY <1>1, <1>2, <3>1 DEF One
    <2> HIDE DEF F, G
    <2>3. IsFiniteSet(G) /\ Cardinality(G) = IF k \in F THEN owned - 1 ELSE owned
      BY <2>1, FS_RemoveElement
    <2>4. IsFiniteSet(G) /\ owned' = Cardinality(G)
      BY <2>2, <2>3
    <2> QED
      BY <2>4 DEF G
  <1>11. Inv'
    <2>1. hash' \in Hashes /\ answer' \in Vals \cup {NoVal}
      BY <1>1 DEF Inv
    <2> QED
      BY <1>8, <1>10, <2>1 DEF Inv
  <1> QED
    BY <1>1, <1>9, <1>11 DEF Abstract!Delete

LEMMA DestroyStep ==
  ASSUME Inv, DestroyAndCreate
  PROVE  Inv' /\ Abstract!DestroyAndCreate
  <1>1. /\ hash' = hash /\ answer' = answer /\ Idle /\ moving' = moving
        /\ bins' = FreshBins(MinSize) /\ size' = MinSize /\ used' = 0 /\ active' = 0
        /\ owned' = owned - Cardinality(StoredIn(bins, size))
    BY DEF DestroyAndCreate
  <1>2. /\ bins' \in [0 .. MinSize - 1 -> Bin] /\ Tidy(bins', MinSize)
        /\ StoredIn(bins', MinSize) = {} /\ InProbe(bins', MinSize) = {}
    BY <1>1, FreshFacts, SizesAssumption
  <1>3. Holding(bins', size', moving')
    <2>1. \A x, p : ~Here(bins', size', x, p)
      BY <1>1, <1>2 DEF Here
    <2>2. \A x, f, i : ~There(moving', x, f, i)
      BY <1>1, NobodyWaits
    <2>3. Unique(bins', size', moving')
      BY <2>1, <2>2 DEF Unique
    <2> QED
      BY <1>1, <1>2, <2>3, SizesAssumption DEF Holding, Inv, Shape
  <1>4. \A x, w : ~Says(bins', size', moving', x, w)
    BY <1>1, <1>2, NobodyWaits DEF Says, Here
  <1>5. Content' = [k \in Keys |-> NoVal]
    <2>1. Content' = ContentOf(HeldIn(bins', size', moving'))
      BY DEF Content
    <2>2. /\ Content' \in [Keys -> Vals \cup {NoVal}]
          /\ \A x \in Keys, w \in Vals : Content'[x] = w <=> Says(bins', size', moving', x, w)
      BY <1>3, <2>1, ContentFacts
    <2> HIDE DEF Content
    <2>3. \A x \in Keys : Content'[x] = NoVal
      BY <1>4, <2>2
    <2> QED
      BY <2>2, <2>3
  <1>6. Shape(hash', bins', size', used', active', moving')
    <2>1. Cardinality(InProbe(bins', size')) = 0
      BY <1>1, <1>2, FS_EmptySet
    <2>2. Chained(hash', bins', size')
      BY <1>1, <1>2 DEF Chained
    <2> QED
      BY <1>1, <1>2, <1>3, <2>1, <2>2, SizesFacts, SizesAssumption DEF Shape, Holding
  <1>7. owned' = 0
    <2> DEFINE S == StoredIn(bins, size)
               F == Filled(Content)
               key == [p \in S |-> bins[p].key]
    <2>1. \A k \in Keys : k \in F <=> \E p \in S : bins[p].key = k
      BY <1>1, FilledFacts, NobodyWaits DEF Here
    <2>2. \A p \in S : bins[p].key \in Keys
      BY DEF StoredIn, IsActive, Inv, Shape, Tidy
    <2>3. \A p, q \in S : bins[p].key = bins[q].key => p = q
      BY <2>2 DEF Here, Inv, Shape, Unique
    <2>4. F \subseteq Keys
      BY DEF Filled
    <2>5. IsFiniteSet(S)
      <3>1. IsFiniteSet(0 .. size - 1)
        <4>1. 0 \in Int /\ size - 1 \in Int
          BY SizesFacts DEF Inv, Shape
        <4> QED
          BY <4>1, FS_Interval
      <3>2. S \in SUBSET (0 .. size - 1)
        BY DEF StoredIn
      <3> QED
        BY <3>1, <3>2, FS_Subset
    <2>6. IsFiniteSet(F) /\ owned = Cardinality(F)
      BY DEF Inv
    <2> HIDE DEF S, F
    <2>7. key \in Bijection(S, F)
      BY <2>1, <2>2, <2>3, <2>4 DEF Bijection, Injection, Surjection, IsInjective
    <2>8. Cardinality(F) = Cardinality(S)
      BY <2>5, <2>7, FS_Bijection DEF ExistsBijection
    <2>9. Cardinality(S) \in Nat
      BY <2>5, FS_CardinalityType
    <2>10. owned' = owned - Cardinality(S)
      BY <1>1 DEF S
    <2> QED
      BY <2>6, <2>8, <2>9, <2>10
  <1>8. IsFiniteSet(Filled(Content')) /\ owned' = Cardinality(Filled(Content'))
    <2>1. Filled(Content') = {}
      BY <1>5 DEF Filled
    <2> QED
      BY <1>7, <2>1, FS_EmptySet
  <1>9. Inv'
    <2>1. hash' \in Hashes /\ answer' \in Vals \cup {NoVal}
      BY <1>1 DEF Inv
    <2> QED
      BY <1>6, <1>8, <2>1 DEF Inv
  <1> QED
    BY <1>1, <1>5, <1>9 DEF Abstract!DestroyAndCreate, Abstract!Empty

-----------------------------------------------------------------------------
(* The steps of a resize.                                                  *)

LEMMA NextFacts ==
  ASSUME Inv, Moving
  PROVE  /\ Holding(bins, size, Advanced)
         /\ \A x, f, i : There(Advanced, x, f, i) <=>
              There(moving, x, f, i) /\ ~(f = Len(moving) /\ i = Top.next)
         /\ \A f \in 1 .. Len(moving) : Advanced[f].old = moving[f].old
         /\ ~NextBin.is_empty => /\ NextBin.key \in Keys /\ NextBin.val \in Vals
                                 /\ There(moving, NextBin.key, Len(moving), Top.next)
         /\ NextBin.is_empty => \A x : ~There(moving, x, Len(moving), Top.next)
  <1>1. moving # <<>> /\ Top.next < Top.size /\ Top = moving[Len(moving)]
    BY DEF Moving, Top
  <1>2. Len(moving) \in 1 .. Len(moving)
    BY <1>1, InvHolds, EmptySeq DEF Holding, StackOK
  <1>3. Top.size \in Nat /\ Top.next \in 0 .. Top.size
    BY <1>1, <1>2, InvHolds, FrameFacts DEF Holding
  <1>4. NextBin.is_empty <=> Top.next \notin WaitingIn(Top)
    BY <1>1, <1>3 DEF WaitingIn, NextBin
  <1>5. ~NextBin.is_empty => NextBin.key \in Keys /\ NextBin.val \in Vals
    BY <1>1, <1>2, <1>4, InvHolds, FrameFacts DEF Holding, NextBin
  <1>6. \A x : There(moving, x, Len(moving), Top.next) <=>
               ~NextBin.is_empty /\ NextBin.key = x
    BY <1>1, <1>2, <1>4 DEF There, NextBin
  <1>7. /\ Holding(bins, size, Advanced)
        /\ \A x, f, i : There(Advanced, x, f, i) <=>
             There(moving, x, f, i) /\ ~(f = Len(moving) /\ i = Top.next)
        /\ \A f \in 1 .. Len(moving) : Advanced[f].old = moving[f].old
    <2> DEFINE top == Len(moving)
               at == moving[top].next
               t == [moving EXCEPT ![top].next = @ + 1]
    <2>1. Holding(bins, size, moving) /\ moving[top].next < moving[top].size
      BY <1>1, InvHolds
    <2>2. /\ Holding(bins, size, t)
          /\ \A x, f, i : There(t, x, f, i) <=>
               There(moving, x, f, i) /\ ~(f = top /\ i = at)
          /\ \A f \in 1 .. top : t[f].old = moving[f].old
      BY <1>1, <2>1, AdvanceFacts
    <2>3. Advanced = t /\ Top.next = at
      BY DEF Advanced, Top
    <2> HIDE DEF t, at
    <2> QED
      BY <2>2, <2>3
  <1> QED
    BY <1>5, <1>6, <1>7

(* Steps of a resize change nothing for those who use the table.           *)
Unseen == Inv' /\ Content' = Content /\ answer' = answer

LEMMA UnseenStep ==
  ASSUME Inv, hash' = hash, answer' = answer, owned' = owned,
         Shape(hash', bins', size', used', active', moving'),
         \A x \in Keys, w \in Vals :
           Says(bins', size', moving', x, w) <=> Says(bins, size, moving, x, w)
  PROVE  Unseen
  <1>1. Content' = Content
    BY ContentStays
  <1> QED
    BY <1>1 DEF Inv, Unseen

LEMMA SkipStep ==
  ASSUME Inv, SkipBin
  PROVE  Unseen
  <1>1. /\ Moving /\ NextBin.is_empty /\ moving' = Advanced
        /\ hash' = hash /\ bins' = bins /\ size' = size /\ used' = used
        /\ active' = active /\ answer' = answer /\ owned' = owned
    BY DEF SkipBin
  <1>2. /\ Holding(bins, size, Advanced)
        /\ \A x, f, i : There(Advanced, x, f, i) <=> There(moving, x, f, i)
        /\ \A f \in 1 .. Len(moving) : Advanced[f].old = moving[f].old
    BY <1>1, NextFacts
  <1>3. \A x \in Keys, w \in Vals :
          Says(bins', size', moving', x, w) <=> Says(bins, size, moving, x, w)
    <2>1. \A x, f, i : There(moving, x, f, i) => Advanced[f].old = moving[f].old
      BY <1>2 DEF There
    <2> QED
      BY <1>1, <1>2, <2>1 DEF Says
  <1>4. Shape(hash', bins', size', used', active', moving')
    BY <1>1, <1>2 DEF Inv, Shape, Holding
  <1> QED
    BY <1>1, <1>3, <1>4, UnseenStep

LEMMA MoveStep ==
  ASSUME Inv, MoveBin
  PROVE  Unseen
  <1> DEFINE k == NextBin.key
             v == NextBin.val
             top == Len(moving)
             at == Top.next
  <1>1. /\ Moving /\ ~NextBin.is_empty /\ Place(k, v, Advanced)
        /\ hash' = hash /\ answer' = answer /\ owned' = owned - Freed(Target(k))
    BY DEF MoveBin
  <1>2. /\ k \in Keys /\ v \in Vals /\ There(moving, k, top, at)
        /\ moving[top].old[at].val = v
    BY <1>1, NextFacts DEF NextBin, Top
  <1>3. /\ Holding(bins, size, Advanced)
        /\ \A x, f, i : There(Advanced, x, f, i) <=>
             There(moving, x, f, i) /\ ~(f = top /\ i = at)
        /\ \A f \in 1 .. Len(moving) : Advanced[f].old = moving[f].old
    BY <1>1, NextFacts
  <1> HIDE DEF k, v, top, at
  <1>4. /\ \A p : ~Here(bins, size, k, p)
        /\ \A f, i : There(moving, k, f, i) => f = top /\ i = at
    BY <1>2 DEF Inv, Shape, Unique
  <1>5. /\ Shape(hash', bins', size', used', active', moving')
        /\ \A x \in Keys, w \in Vals :
             Says(bins', size', moving', x, w) <=>
               IF x = k THEN w = v ELSE Says(bins, size, Advanced, x, w)
    BY <1>1, <1>2, <1>3, <1>4, PlaceFacts
  <1>6. ASSUME NEW x \in Keys, NEW w \in Vals
        PROVE  Says(bins', size', moving', x, w) <=> Says(bins, size, moving, x, w)
    <2>1. CASE x = k
      BY <1>2, <1>4, <1>5, <2>1 DEF Says
    <2>2. CASE x # k
      <3>1. \A f, i : There(Advanced, x, f, i) <=> There(moving, x, f, i)
        <4>1. ~There(moving, x, top, at)
          BY <1>2, <2>2 DEF There
        <4> QED
          BY <1>3, <4>1
      <3>2. \A f, i : There(moving, x, f, i) => Advanced[f].old = moving[f].old
        BY <1>3 DEF There
      <3>3. Says(bins, size, Advanced, x, w) <=> Says(bins, size, moving, x, w)
        BY <3>1, <3>2 DEF Says
      <3> QED
        BY <1>5, <2>2, <3>3
    <2> QED
      BY <2>1, <2>2
  <1>7. owned' = owned
    <2>1. Freed(Target(k)) = 0
      BY <1>2, <1>4, TargetFacts DEF Freed, One, IsActive
    <2>2. owned \in Nat
      BY FS_CardinalityType DEF Inv
    <2> QED
      BY <1>1, <2>1, <2>2
  <1> QED
    BY <1>1, <1>5, <1>6, <1>7, UnseenStep

LEMMA DoneStep ==
  ASSUME Inv, ResizeDone
  PROVE  Unseen
  <1>1. /\ moving # <<>> /\ moving[Len(moving)].next = moving[Len(moving)].size
        /\ moving' = SubSeq(moving, 1, Len(moving) - 1)
        /\ hash' = hash /\ bins' = bins /\ size' = size /\ used' = used
        /\ active' = active /\ answer' = answer /\ owned' = owned
    BY DEF ResizeDone, Top
  <1>2. /\ Holding(bins', size', moving')
        /\ \A x \in Keys, w \in Vals :
             Says(bins', size', moving', x, w) <=> Says(bins, size, moving, x, w)
    BY <1>1, InvHolds, PopFacts
  <1>3. Shape(hash', bins', size', used', active', moving')
    BY <1>1, <1>2 DEF Inv, Shape, Holding
  <1> QED
    BY <1>1, <1>2, <1>3, UnseenStep

-----------------------------------------------------------------------------
(* The theorems.                                                           *)

LEMMA InitHolds ==
  ASSUME Init
  PROVE  Inv /\ Abstract!Init
  <1>1. /\ hash \in Hashes /\ bins = FreshBins(MinSize) /\ size = MinSize
        /\ used = 0 /\ active = 0 /\ moving = <<>> /\ answer = NoVal /\ owned = 0
    BY DEF Init
  <1>2. /\ bins \in [0 .. MinSize - 1 -> Bin] /\ Tidy(bins, MinSize)
        /\ StoredIn(bins, MinSize) = {} /\ InProbe(bins, MinSize) = {}
    BY <1>1, FreshFacts, SizesAssumption
  <1>3. /\ \A x, p : ~Here(bins, size, x, p)
        /\ \A x, f, i : ~There(moving, x, f, i)
    BY <1>1, <1>2, NobodyWaits DEF Here, Idle
  <1>4. Holding(bins, size, moving)
    <2>1. StackOK(moving)
      BY <1>1, EmptySeq DEF StackOK
    <2>2. Unique(bins, size, moving)
      BY <1>3 DEF Unique
    <2> QED
      BY <1>1, <1>2, <2>1, <2>2, SizesAssumption DEF Holding
  <1>5. Content = [k \in Keys |-> NoVal]
    <2>1. /\ Content \in [Keys -> Vals \cup {NoVal}]
          /\ \A x \in Keys, w \in Vals : Content[x] = w <=> Says(bins, size, moving, x, w)
      BY <1>4, ContentFacts DEF Content
    <2> HIDE DEF Content
    <2>2. \A x \in Keys : Content[x] = NoVal
      BY <1>3, <2>1 DEF Says
    <2> QED
      BY <2>1, <2>2
  <1>6. Shape(hash, bins, size, used, active, moving)
    <2>1. Cardinality(InProbe(bins, size)) = 0
      BY <1>1, <1>2, FS_EmptySet
    <2>2. Chained(hash, bins, size)
      BY <1>1, <1>2 DEF Chained
    <2> QED
      BY <1>1, <1>2, <1>4, <2>1, <2>2, SizesFacts, SizesAssumption DEF Shape, Holding
  <1>7. IsFiniteSet(Filled(Content)) /\ Cardinality(Filled(Content)) = 0
    <2>1. Filled(Content) = {}
      BY <1>5 DEF Filled
    <2> QED
      BY <2>1, FS_EmptySet
  <1> QED
    BY <1>1, <1>5, <1>6, <1>7 DEF Inv, Abstract!Init, Abstract!Empty

LEMMA StepHolds ==
  ASSUME Inv, [Next]_vars
  PROVE  Inv' /\ [Abstract!Next]_(Abstract!vars)
  <1>1. ASSUME NEW binding \in Bindings, Insert(binding[1], binding[2])
        PROVE  Inv' /\ Abstract!Next
    <2>1. binding[1] \in Keys /\ binding[2] \in Vals
      BY BindingsAssumption
    <2> QED
      BY <1>1, <2>1, InsertStep DEF Abstract!Next
  <1>2. ASSUME NEW k \in Keys, Delete(k) PROVE Inv' /\ Abstract!Next
    BY <1>2, DeleteStep DEF Abstract!Next
  <1>3. ASSUME NEW k \in Keys, Lookup(k) PROVE Inv' /\ Abstract!Next
    BY <1>3, LookupStep DEF Abstract!Next
  <1>4. CASE DestroyAndCreate
    BY <1>4, DestroyStep DEF Abstract!Next
  <1>5. CASE ResizeStep
    BY <1>5, SkipStep, MoveStep, DoneStep DEF ResizeStep, Unseen, Abstract!vars
  <1>6. CASE UNCHANGED vars
    BY <1>6 DEF vars, Inv, Content, Abstract!vars
  <1> QED
    BY <1>1, <1>2, <1>3, <1>4, <1>5, <1>6 DEF Next

THEOREM Invariance == Spec => []Inv
  <1>1. Init => Inv
    BY InitHolds
  <1>2. Inv /\ [Next]_vars => Inv'
    BY StepHolds
  <1> QED
    BY <1>1, <1>2, PTL DEF Spec

(* The table is well formed whatever its size, and owned never runs below  *)
(* zero: hash_table_delete and store_in_bin free no copy twice.            *)
THEOREM TypeCorrect == Spec => []TypeOK
  <1>1. ASSUME Inv PROVE TypeOK
    <2>1. used \in Nat /\ owned \in Nat
      <3>1. IsFiniteSet(InProbe(bins, size))
        <4>1. 0 \in Int /\ size - 1 \in Int
          <5>1. size \in Nat
            BY <1>1, InvHolds DEF Holding
          <5> QED
            BY <5>1
        <4>2. IsFiniteSet(0 .. size - 1)
          BY <4>1, FS_Interval
        <4>3. InProbe(bins, size) \in SUBSET (0 .. size - 1)
          BY DEF InProbe
        <4> QED
          BY <4>2, <4>3, FS_Subset
      <3> QED
        BY <1>1, <3>1, FS_CardinalityType DEF Inv, Shape
    <2>2. ASSUME NEW f \in DOMAIN moving
          PROVE  /\ moving[f].size \in Nat /\ moving[f].next \in 0 .. moving[f].size
                 /\ moving[f].old \in [0 .. moving[f].size - 1 -> Bin]
      <3>1. StackOK(moving) /\ f \in 1 .. Len(moving)
        BY <1>1, LenProperties DEF Inv, Shape, StackOK
      <3> QED
        BY <3>1, FrameFacts DEF StackOK, FrameOK
    <2> QED
      BY <1>1, <2>1, <2>2, SizesFacts DEF TypeOK, Inv, Shape
  <1> QED
    BY <1>1, Invariance, PTL

(* find_key and find_empty, which end in assert(false), always find a bin: *)
(* in every table that the operations and the resizes can make.            *)
THEOREM SearchesAlwaysEnd == Spec => []SearchesEnd
  <1>1. ASSUME Inv PROVE SearchesEnd
    <2>1. \A k \in Keys : Searchable(k)
      BY <1>1, SearchFacts DEF Searchable
    <2>2. Moving /\ ~NextBin.is_empty => NextBin.key \in Keys
      BY <1>1, NextFacts
    <2> QED
      BY <2>1, <2>2 DEF SearchesEnd
  <1> QED
    BY <1>1, Invariance, PTL

(* used is what it is documented to be, and a table is never more than     *)
(* half full: store_in_bin, free_bin and the growth of                     *)
(* hash_table_insert_internal.                                             *)
THEOREM UsedIsAlwaysBounded == Spec => []UsedIsBounded
  <1>1. Inv => UsedIsBounded
    BY DEF Inv, Shape, InProbe, UsedIsBounded
  <1> QED
    BY <1>1, Invariance, PTL

(* There is exactly one copy of each key in the table, in the middle of a  *)
(* resize as well, and no copy is leaked or freed twice.                   *)
THEOREM CopiesAreHeld == Spec => []OwnsWhatItHolds
  <1>1. ASSUME Inv PROVE OwnsWhatItHolds
    <2> DEFINE held == HeldIn(bins, size, moving)
    <2>1. Holding(bins, size, moving)
      BY <1>1, InvHolds
    <2>2. \A k : \A bin : (bin \in held /\ bin.key = k) <=>
                    (\/ \E p : Here(bins, size, k, p) /\ bin = bins[p]
                     \/ \E f, i : There(moving, k, f, i) /\ bin = moving[f].old[i])
      BY <2>1, HeldFacts
    <2> HIDE DEF held
    <2>3. ASSUME NEW bin \in held PROVE bin.key \in Keys
      <3>1. CASE \E p : Here(bins, size, bin.key, p)
        BY <2>1, <3>1 DEF Here, StoredIn, IsActive, Holding, Tidy
      <3>2. CASE \E f, i : There(moving, bin.key, f, i)
        BY <2>1, <3>2, FrameFacts DEF There, Holding
      <3> QED
        BY <2>2, <3>1, <3>2
    <2>4. ASSUME NEW k \in Keys
          PROVE  k \in Filled(Content) <=> \E bin \in held : bin.key = k
      <3>1. k \in Filled(Content) <=> \/ \E p : Here(bins, size, k, p)
                                      \/ \E f, i : There(moving, k, f, i)
        BY <1>1, FilledFacts
      <3>2. \A p : Here(bins, size, k, p) => bins[p] \in held /\ bins[p].key = k
        BY <2>2, Zenon
      <3>3. \A f, i : There(moving, k, f, i) =>
                      moving[f].old[i] \in held /\ moving[f].old[i].key = k
        BY <2>2, Zenon
      <3>4. ASSUME NEW bin \in held, bin.key = k PROVE k \in Filled(Content)
        BY <2>2, <3>1, <3>4, Zenon
      <3> QED
        BY <3>1, <3>2, <3>3, <3>4
    <2>5. Filled(Content) = {bin.key : bin \in held}
      <3>1. Filled(Content) \subseteq Keys
        BY DEF Filled
      <3> QED
        BY <2>3, <2>4, <3>1
    <2> QED
      BY <1>1, <2>5 DEF Inv, OwnsWhatItHolds, held
  <1> QED
    BY <1>1, Invariance, PTL

(* The hash table implements a dictionary: with every hash function,       *)
(* through collisions, deleted bins, growth, shrinking and the resizes     *)
(* that they nest, hash_table_lookup answers what was inserted last.       *)
THEOREM TableIsDictionary == Spec => IsDictionary
  <1>1. Init => Abstract!Init
    BY InitHolds
  <1>2. Inv /\ [Next]_vars => [Abstract!Next]_(Abstract!vars)
    BY StepHolds
  <1> QED
    BY <1>1, <1>2, Invariance, PTL DEF Spec, IsDictionary, Abstract!Spec

-----------------------------------------------------------------------------
(* The depth of nested resizes.                                            *)

(* The bins of a table that hold data hold different keys: there are no    *)
(* more of them than copies, nor than bins in chains, and fewer while a    *)
(* key is not among them.                                                  *)
LEMMA StoredCount ==
  ASSUME Inv
  PROVE  /\ used \in Nat /\ owned \in Nat /\ size \in Nat \ {0} /\ 2 * used <= size
         /\ Idle => owned <= used
         /\ InProbe(bins, size) \subseteq StoredIn(bins, size) => used <= owned
         /\ InProbe(bins, size) \subseteq StoredIn(bins, size) =>
              \A k \in Filled(Content) :
                (\A p : ~Here(bins, size, k, p)) => used + 1 <= owned
  <1> DEFINE S == StoredIn(bins, size)
             C == InProbe(bins, size)
             F == Filled(Content)
             key == [p \in S |-> bins[p].key]
             K == {bins[p].key : p \in S}
  <1>1. size \in Nat \ {0} /\ used = Cardinality(C) /\ 2 * used <= size
    BY SizesFacts, SizesAssumption DEF Inv, Shape
  <1>2. /\ IsFiniteSet(C) /\ Cardinality(C) \in Nat /\ S \subseteq C
        /\ IsFiniteSet(S) /\ Cardinality(S) \in Nat /\ Cardinality(S) <= Cardinality(C)
    <2>1. IsFiniteSet(0 .. size - 1)
      BY <1>1, FS_Interval
    <2>2. C \in SUBSET (0 .. size - 1) /\ S \in SUBSET C
      BY DEF InProbe, StoredIn, IsActive
    <2> HIDE DEF C, S
    <2>3. IsFiniteSet(C)
      BY <2>1, <2>2, FS_Subset
    <2>4. IsFiniteSet(S) /\ Cardinality(S) <= Cardinality(C)
      BY <2>2, <2>3, FS_Subset
    <2> QED
      BY <2>2, <2>3, <2>4, FS_CardinalityType
  <1>3. IsFiniteSet(F) /\ owned = Cardinality(F) /\ owned \in Nat
    BY FS_CardinalityType DEF Inv
  <1>4. \A p \in S : bins[p].key \in Keys
    BY DEF StoredIn, IsActive, Inv, Shape, Tidy
  <1>5. K \subseteq F
    <2>1. ASSUME NEW p \in S PROVE bins[p].key \in F
      <3>1. Here(bins, size, bins[p].key, p)
        BY DEF Here
      <3> QED
        BY <1>4, <3>1, FilledFacts
    <2> QED
      BY <2>1
  <1>6. \A x \in Keys : x \in K <=> \E p : Here(bins, size, x, p)
    BY DEF Here
  <1>7. IsFiniteSet(K) /\ Cardinality(K) = Cardinality(S)
    <2>1. key \in [S -> K]
      OBVIOUS
    <2>2. ASSUME NEW p \in S, NEW q \in S, key[p] = key[q] PROVE p = q
      <3>1. Here(bins, size, bins[p].key, p) /\ Here(bins, size, bins[p].key, q)
        BY <2>2 DEF Here
      <3> QED
        BY <1>4, <3>1 DEF Inv, Shape, Unique
    <2>3. \A x \in K : \E p \in S : key[p] = x
      OBVIOUS
    <2> HIDE DEF S, K, key
    <2>4. key \in Bijection(S, K)
      BY <2>1, <2>2, <2>3 DEF Bijection, Injection, Surjection, IsInjective
    <2> QED
      BY <1>2, <2>4, FS_Bijection DEF ExistsBijection
  <1>8. Idle => F \subseteq K
    <2>1. ASSUME Idle, NEW x \in F PROVE x \in K
      <3>1. x \in Keys
        BY DEF Filled
      <3>2. \E p : Here(bins, size, x, p)
        BY <2>1, <3>1, FilledFacts, NobodyWaits
      <3> QED
        BY <1>6, <3>1, <3>2
    <2> QED
      BY <2>1
  <1>9. \A k \in F : (\A p : ~Here(bins, size, k, p)) => k \notin K
    BY <1>6 DEF Filled
  <1> HIDE DEF S, C, F, K
  <1>10. Cardinality(S) <= owned
    BY <1>3, <1>5, <1>7, FS_Subset
  <1>11. ASSUME Idle PROVE owned <= used
    <2>1. owned <= Cardinality(K)
      BY <1>3, <1>7, <1>8, <1>11, FS_Subset
    <2> QED
      BY <1>1, <1>2, <1>3, <1>7, <2>1
  <1>12. ASSUME C \subseteq S PROVE used = Cardinality(S)
    <2>1. C = S
      BY <1>2, <1>12
    <2> QED
      BY <1>1, <2>1
  <1>13. ASSUME NEW k \in F, \A p : ~Here(bins, size, k, p)
         PROVE  Cardinality(S) + 1 <= owned
    <2>1. k \notin K
      BY <1>9, <1>13
    <2>2. Cardinality(K \cup {k}) = Cardinality(K) + 1
      BY <1>7, <2>1, FS_AddElement
    <2>3. Cardinality(K \cup {k}) <= owned
      <3>1. K \cup {k} \in SUBSET F
        BY <1>5
      <3> QED
        BY <1>3, <3>1, FS_Subset
    <2> QED
      BY <1>7, <2>2, <2>3
  <1>14. ASSUME C \subseteq S, NEW k \in F, \A p : ~Here(bins, size, k, p)
         PROVE  used + 1 <= owned
    BY <1>12, <1>13, <1>14
  <1>15. ASSUME C \subseteq S PROVE used <= owned
    BY <1>10, <1>12, <1>15
  <1> QED
    BY <1>1, <1>2, <1>3, <1>11, <1>14, <1>15 DEF C, S, F

(* While a table is filled by a resize there are no tombstones in it, and  *)
(* it is large enough for the copies there are: one that shrank may have   *)
(* to grow, and one that grew from there holds them with half to spare.    *)
Roomy(b, n, s, copies) ==
  /\ Len(s) <= 2
  /\ s # <<>> => copies <= n /\ InProbe(b, n) \subseteq StoredIn(b, n)
  /\ Len(s) = 2 => 2 * copies <= n

Shallow == Roomy(bins, size, moving, owned)

LEMMA ResizeDepth ==
  ASSUME NEW b, NEW n, NEW s, s \in Seq(Frame), NEW m \in Nat, Resize(b, n, s, m)
  PROVE  /\ size' = m /\ Len(moving') = Len(s) + 1
         /\ InProbe(bins', size') = {}
  <1> DEFINE frame == [old |-> b, size |-> n, next |-> 0]
  <1>1. size' = m /\ bins' = FreshBins(m) /\ moving' = Append(s, frame)
    BY DEF Resize
  <1> HIDE DEF frame
  <1>2. Len(Append(s, frame)) = Len(s) + 1
    BY DEF Frame
  <1> QED
    BY <1>1, <1>2, FreshFacts

LEMMA StackLength ==
  ASSUME NEW s \in Seq(Frame)
  PROVE  Len(s) \in Nat /\ (s = <<>> <=> Len(s) = 0)
  BY EmptySeq, LenProperties

LEMMA InsertDepth ==
  ASSUME Inv, NEW k \in Keys, NEW v \in Vals, Insert(k, v)
  PROVE  Shallow'
  <1>1. /\ moving = <<>> /\ moving \in Seq(Frame) /\ Len(moving) = 0
        /\ Place(k, v, moving) /\ owned' = owned + 1 - Freed(Target(k))
    BY DEF Insert, Idle, Inv, Shape, StackOK
  <1>2. /\ size \in Nat \ {0} /\ owned \in Nat /\ used \in Nat
        /\ 2 * used <= size /\ owned <= used
    BY <1>1, StoredCount DEF Idle
  <1>3. owned' <= 2 * size
    <2>1. Freed(Target(k)) \in 0 .. 1
      BY DEF Freed, One
    <2> QED
      BY <1>1, <1>2, <2>1
  <1> DEFINE u == used + Joining(Target(k))
             b == [bins EXCEPT ![Target(k)] = Full(k, v)]
  <1>4. IF TooFull(u) THEN Resize(b, size, moving, 2 * size) ELSE moving' = moving
    BY <1>1 DEF Place, Grown, Full
  <1> HIDE DEF u, b
  <1>5. CASE TooFull(u)
    <2>1. 2 * size \in Nat
      BY <1>2
    <2>2. Resize(b, size, moving, 2 * size)
      BY <1>4, <1>5
    <2>3. moving \in Seq(Frame)
      BY <1>1
    <2>4. /\ size' = 2 * size /\ Len(moving') = Len(moving) + 1
          /\ InProbe(bins', size') = {}
      BY <2>1, <2>2, <2>3, ResizeDepth
    <2>5. Len(moving') = 1
      BY <1>1, <2>4
    <2>6. owned' <= size'
      BY <1>3, <2>4
    <2>7. InProbe(bins', size') = {}
      BY <2>4
    <2> QED
      BY <2>5, <2>6, <2>7 DEF Shallow, Roomy
  <1>6. CASE ~TooFull(u)
    BY <1>1, <1>4, <1>6 DEF Shallow, Roomy
  <1> QED
    BY <1>5, <1>6

LEMMA DeleteDepth ==
  ASSUME Inv, NEW k \in Keys, Delete(k)
  PROVE  Shallow'
  <1> DEFINE p == FindKey(k)
             found == IsActive(bins[p])
             b == IF found THEN [bins EXCEPT ![p] = Tombstone] ELSE bins
             a == (active + Width - One(found)) % Width
  <1>1. /\ moving = <<>> /\ moving \in Seq(Frame) /\ Len(moving) = 0
        /\ owned' = owned - One(found)
        /\ IF TooEmpty(a) THEN Resize(b, size, moving, size \div 2)
                          ELSE moving' = moving
    BY DEF Delete, Idle, Inv, Shape, StackOK
  <1>2. /\ size \in Nat \ {0} /\ owned \in Nat /\ used \in Nat
        /\ 2 * used <= size /\ owned <= used
    BY <1>1, StoredCount DEF Idle
  <1>3. owned' <= size \div 2
    <2>1. One(found) \in 0 .. 1
      BY DEF One
    <2> HIDE DEF found
    <2> QED
      BY <1>1, <1>2, <2>1
  <1> HIDE DEF a, b, found
  <1>4. CASE TooEmpty(a)
    <2>1. size \div 2 \in Nat
      BY <1>2
    <2>2. Resize(b, size, moving, size \div 2)
      BY <1>1, <1>4
    <2>3. moving \in Seq(Frame)
      BY <1>1
    <2>4. /\ size' = size \div 2 /\ Len(moving') = Len(moving) + 1
          /\ InProbe(bins', size') = {}
      BY <2>1, <2>2, <2>3, ResizeDepth
    <2>5. Len(moving') = 1
      BY <1>1, <2>4
    <2>6. owned' <= size'
      BY <1>3, <2>4
    <2>7. InProbe(bins', size') = {}
      BY <2>4
    <2> QED
      BY <2>5, <2>6, <2>7 DEF Shallow, Roomy
  <1>5. CASE ~TooEmpty(a)
    BY <1>1, <1>5 DEF Shallow, Roomy
  <1> QED
    BY <1>4, <1>5

LEMMA MoveDepth ==
  ASSUME Inv, Shallow, MoveBin
  PROVE  Shallow'
  <1> DEFINE k == NextBin.key
             v == NextBin.val
             p == Target(k)
             u == used + Joining(p)
             b == [bins EXCEPT ![p] = Full(k, v)]
  <1>1. Moving /\ ~NextBin.is_empty /\ owned' = owned - Freed(p)
    BY DEF MoveBin
  <1>2. /\ k \in Keys /\ v \in Vals
        /\ There(moving, k, Len(moving), Top.next)
        /\ Holding(bins, size, Advanced)
    BY <1>1, NextFacts
  <1>3. /\ moving \in Seq(Frame) /\ Advanced \in Seq(Frame)
        /\ Len(Advanced) = Len(moving)
    <2>1. moving \in Seq(Frame) /\ Advanced \in Seq(Frame)
      BY <1>2 DEF Holding, StackOK, Inv, Shape
    <2>2. DOMAIN Advanced = DOMAIN moving
      BY DEF Advanced
    <2>3. /\ Len(moving) \in Nat /\ DOMAIN moving = 1 .. Len(moving)
          /\ Len(Advanced) \in Nat /\ DOMAIN Advanced = 1 .. Len(Advanced)
      BY <2>1, LenProperties
    <2> QED
      BY <2>1, <2>2, <2>3
  <1>4. /\ Len(moving) = 1 \/ Len(moving) = 2
        /\ owned <= size
        /\ InProbe(bins, size) \subseteq StoredIn(bins, size)
        /\ (Len(moving) = 2 => 2 * owned <= size)
    BY <1>1, <1>3, StackLength DEF Moving, Shallow, Roomy
  <1>5. k \in Filled(Content) /\ \A q : ~Here(bins, size, k, q)
    <2>1. \A q : ~Here(bins, size, k, q)
      BY <1>2 DEF Inv, Shape, Unique
    <2> QED
      BY <1>2, <2>1, FilledFacts
  <1>6. /\ size \in Nat \ {0} /\ owned \in Nat /\ used \in Nat
        /\ used + 1 <= owned
    BY <1>4, <1>5, StoredCount
  <1>7. owned' = owned
    <2>1. Freed(p) = 0
      BY <1>2, <1>5, TargetFacts DEF Freed, One, IsActive
    <2> QED
      BY <1>1, <1>6, <2>1
  <1>8. IF TooFull(u) THEN Resize(b, size, Advanced, 2 * size)
                      ELSE bins' = b /\ moving' = Advanced /\ size' = size
    BY Zenon DEF MoveBin, Place, Grown, Full
  <1>9. p \in 0 .. size - 1 /\ bins \in [0 .. size - 1 -> Bin]
    BY <1>2, TargetFacts DEF Inv, Shape
  <1>10. b[p] = Full(k, v) /\ \A q \in (0 .. size - 1) \ {p} : b[q] = bins[q]
    BY <1>9
  <1>11. u \in Nat /\ u <= used + 1
    <2>1. Joining(p) \in 0 .. 1
      BY DEF Joining, One
    <2> QED
      BY <1>6, <2>1
  <1> HIDE DEF b, p, u, k, v
  <1>12. CASE TooFull(u)
    <2>1. Len(moving) = 1
      BY <1>4, <1>6, <1>11, <1>12 DEF TooFull
    <2>2. 2 * size \in Nat
      BY <1>6
    <2>3. Resize(b, size, Advanced, 2 * size)
      BY <1>8, <1>12
    <2>4. Advanced \in Seq(Frame)
      BY <1>3
    <2>5. /\ size' = 2 * size /\ Len(moving') = Len(Advanced) + 1
          /\ InProbe(bins', size') = {}
      BY <2>2, <2>3, <2>4, ResizeDepth
    <2>6. Len(Advanced) = Len(moving)
      BY <1>3
    <2>7. Len(moving') = 2
      BY <2>1, <2>5, <2>6
    <2>8. owned' <= size' /\ 2 * owned' <= size'
      BY <1>4, <1>6, <1>7, <2>5
    <2>9. InProbe(bins', size') = {}
      BY <2>5
    <2> QED
      BY <2>7, <2>8, <2>9 DEF Shallow, Roomy
  <1>13. CASE ~TooFull(u)
    <2>1. bins' = b /\ moving' = Advanced /\ size' = size
      BY <1>8, <1>13
    <2>2. InProbe(b, size) \subseteq StoredIn(b, size)
      <3>1. p \in StoredIn(b, size)
        BY <1>9, <1>10 DEF StoredIn, IsActive, Full
      <3>2. ASSUME NEW q \in InProbe(b, size), q # p PROVE q \in StoredIn(b, size)
        BY <1>4, <1>10, <3>2 DEF InProbe, StoredIn
      <3> QED
        BY <3>1, <3>2
    <2> QED
      BY <1>3, <1>4, <1>7, <2>1, <2>2 DEF Shallow, Roomy
  <1> QED
    BY <1>12, <1>13

LEMMA SkipDepth ==
  ASSUME Inv, Shallow, SkipBin
  PROVE  Shallow'
  <1>1. /\ moving # <<>> /\ moving' = Advanced
        /\ bins' = bins /\ size' = size /\ owned' = owned
    BY DEF SkipBin, Moving
  <1>2. Len(Advanced) = Len(moving)
    <2>1. moving \in Seq(Frame) /\ Advanced \in Seq(Frame)
      BY NextFacts DEF SkipBin, Holding, StackOK, Inv, Shape
    <2>2. DOMAIN Advanced = DOMAIN moving
      BY DEF Advanced
    <2>3. /\ Len(moving) \in Nat /\ DOMAIN moving = 1 .. Len(moving)
          /\ Len(Advanced) \in Nat /\ DOMAIN Advanced = 1 .. Len(Advanced)
      BY <2>1, LenProperties
    <2> QED
      BY <2>2, <2>3
  <1> QED
    BY <1>1, <1>2 DEF Shallow, Roomy

LEMMA PoppedLength ==
  ASSUME NEW s \in Seq(Frame), Len(s) # 0
  PROVE  Len(SubSeq(s, 1, Len(s) - 1)) = Len(s) - 1
  <1>1. Len(s) \in Nat /\ \A i \in 1 .. Len(s) - 1 : s[i] \in Frame
    BY LenProperties, ElementOfSeq
  <1> DEFINE m == Len(s) - 1
             t == SubSeq(s, 1, m)
  <1>2. m \in Nat /\ \A i \in 1 .. m : s[i] \in Frame
    BY <1>1
  <1> HIDE DEF m, t
  <1>3. Len(t) = IF 1 <= m THEN m - 1 + 1 ELSE 0
    BY <1>1, <1>2, SubSeqProperties DEF t
  <1>4. Len(t) = m
    <2>1. CASE m = 0
      BY <1>3, <2>1
    <2>2. CASE m > 0
      BY <1>2, <1>3, <2>2
    <2> QED
      BY <1>2, <2>1, <2>2
  <1> QED
    BY <1>4 DEF t, m

LEMMA DoneDepth ==
  ASSUME Inv, Shallow, ResizeDone
  PROVE  Shallow'
  <1>1. /\ moving # <<>> /\ moving' = SubSeq(moving, 1, Len(moving) - 1)
        /\ bins' = bins /\ size' = size /\ owned' = owned
    BY DEF ResizeDone
  <1>2. moving \in Seq(Frame) /\ moving' \in Seq(Frame)
    BY DoneStep DEF Unseen, Inv, Shape, StackOK
  <1>3. /\ Len(moving) \in Nat /\ Len(moving) # 0
        /\ (moving' = <<>> <=> Len(moving') = 0)
    BY <1>1, <1>2, StackLength
  <1>4. Len(moving') = Len(moving) - 1
    BY <1>1, <1>2, <1>3, PoppedLength
  <1>5. Len(moving') <= 1
    BY <1>3, <1>4 DEF Shallow, Roomy
  <1>6. Len(moving') <= 2 /\ Len(moving') # 2
    BY <1>5
  <1>7. owned' <= size' /\ InProbe(bins', size') \subseteq StoredIn(bins', size')
    BY <1>1 DEF Shallow, Roomy
  <1> QED
    BY <1>6, <1>7 DEF Shallow, Roomy

LEMMA ShallowStep ==
  ASSUME Inv, Shallow, [Next]_vars
  PROVE  Shallow'
  <1>1. ASSUME NEW binding \in Bindings, Insert(binding[1], binding[2])
        PROVE  Shallow'
    BY <1>1, InsertDepth, BindingsAssumption
  <1>2. ASSUME NEW k \in Keys, Delete(k) PROVE Shallow'
    BY <1>2, DeleteDepth
  <1>3. ASSUME NEW k \in Keys, Lookup(k) PROVE Shallow'
    BY <1>3 DEF Lookup, Shallow
  <1>4. CASE DestroyAndCreate
    BY <1>4 DEF DestroyAndCreate, Idle, Shallow, Roomy
  <1>5. CASE ResizeStep
    BY <1>5, SkipDepth, MoveDepth, DoneDepth DEF ResizeStep
  <1>6. CASE UNCHANGED vars
    BY <1>6 DEF vars, Shallow
  <1> QED
    BY <1>1, <1>2, <1>3, <1>4, <1>5, <1>6 DEF Next

(* resize, init_table and hash_table_insert_internal do not recurse any    *)
(* deeper than the growth that a shrink may cause: the copies fit into a   *)
(* table that grew in the middle of a resize.                              *)
THEOREM ResizesNestTwice == Spec => []RecursionIsShallow
  <1>1. Init => Shallow
    BY DEF Init, Shallow, Roomy
  <1>2. Inv /\ Shallow /\ [Next]_vars => Shallow'
    BY ShallowStep
  <1>3. ASSUME Inv, Shallow PROVE RecursionIsShallow
    BY <1>3 DEF Shallow, Roomy, RecursionIsShallow
  <1> QED
    BY <1>1, <1>2, <1>3, Invariance, PTL DEF Spec
-----------------------------------------------------------------------------
(* Resizes end: what is left of one decreases with every step.             *)

(* What a stack of resizes has left to do in its first array and in the    *)
(* array, if there is one, that a growth in the middle of that left.       *)
Left(frame) == frame.size - frame.next
Outer(stack) == IF stack = <<>> THEN 0 ELSE Left(stack[1]) + 1
Inner(stack) == IF Len(stack) < 2 THEN 0 ELSE Left(stack[2]) + 1

(* To move on in the last array, to leave it, or to begin a second one     *)
(* after having moved on in the first.                                     *)
Nearer(s, t) == \/ Outer(t) < Outer(s)
                \/ Outer(t) = Outer(s) /\ Inner(t) < Inner(s)

LEMMA StackHas ==
  ASSUME Inv, moving # <<>>
  PROVE  /\ moving \in Seq(Frame) /\ Len(moving) \in Nat \ {0}
         /\ DOMAIN moving = 1 .. Len(moving)
         /\ \A f \in 1 .. Len(moving) :
              /\ moving[f] \in Frame /\ moving[f].size \in Nat
              /\ moving[f].next \in 0 .. moving[f].size
  <1>1. StackOK(moving) /\ moving \in Seq(Frame)
    BY DEF Inv, Shape, StackOK
  <1>2. Len(moving) \in Nat \ {0}
    BY <1>1, StackLength
  <1>3. ASSUME NEW f \in 1 .. Len(moving)
        PROVE  /\ moving[f] \in Frame /\ moving[f].size \in Nat
               /\ moving[f].next \in 0 .. moving[f].size
    BY <1>1, FrameFacts
  <1> QED
    BY <1>1, <1>2, <1>3, LenProperties

LEMMA AdvancedHas ==
  ASSUME Inv, Moving
  PROVE  /\ Advanced \in Seq(Frame) /\ Len(Advanced) = Len(moving)
         /\ \A f \in 1 .. Len(moving) :
              Left(Advanced[f]) = IF f = Len(moving) THEN Left(moving[f]) - 1
                                                     ELSE Left(moving[f])
  <1>1. /\ moving # <<>> /\ moving \in Seq(Frame) /\ Len(moving) \in Nat \ {0}
        /\ DOMAIN moving = 1 .. Len(moving)
    BY StackHas DEF Moving
  <1>2. Advanced \in Seq(Frame)
    BY NextFacts DEF Holding, StackOK
  <1>3. Len(Advanced) = Len(moving)
    <2>1. DOMAIN Advanced = DOMAIN moving
      BY DEF Advanced
    <2>2. Len(Advanced) \in Nat /\ DOMAIN Advanced = 1 .. Len(Advanced)
      BY <1>2, LenProperties
    <2> QED
      BY <1>1, <2>1, <2>2
  <1>4. ASSUME NEW f \in 1 .. Len(moving), f # Len(moving)
        PROVE  Advanced[f] = moving[f]
    BY <1>1, <1>4 DEF Advanced
  <1>5. Left(Advanced[Len(moving)]) = Left(moving[Len(moving)]) - 1
    <2>1. PICK frame \in Frame : frame = moving[Len(moving)]
      BY <1>1, StackHas
    <2>2. Advanced[Len(moving)] = [frame EXCEPT !.next = @ + 1]
      BY <1>1, <2>1 DEF Advanced
    <2>3. /\ Advanced[Len(moving)].size = frame.size
          /\ Advanced[Len(moving)].next = frame.next + 1
      BY <2>2 DEF Frame
    <2>4. frame.size \in Nat /\ frame.next \in Nat
      BY DEF Frame
    <2> QED
      BY <2>1, <2>3, <2>4 DEF Left
  <1> QED
    BY <1>2, <1>3, <1>4, <1>5

LEMMA LeftIsNat ==
  ASSUME Inv, moving # <<>>, NEW f \in 1 .. Len(moving)
  PROVE  Left(moving[f]) \in Nat
  <1>1. moving[f].size \in Nat /\ moving[f].next \in 0 .. moving[f].size
    BY StackHas
  <1> QED
    BY <1>1 DEF Left

LEMMA AdvancedIsNearer ==
  ASSUME Inv, Shallow, Moving
  PROVE  /\ Nearer(moving, Advanced)
         /\ Len(moving) = 1 => Left(Advanced[1]) < Left(moving[1])
  <1>1. moving # <<>> /\ (Len(moving) = 1 \/ Len(moving) = 2)
    BY StackHas DEF Moving, Shallow, Roomy
  <1>2. Len(Advanced) = Len(moving) /\ Advanced # <<>>
    BY <1>1, AdvancedHas, StackLength
  <1>3. CASE Len(moving) = 1
    <2>1. Left(Advanced[1]) = Left(moving[1]) - 1 /\ Left(moving[1]) \in Nat
      BY <1>1, <1>3, AdvancedHas, LeftIsNat
    <2> QED
      BY <1>1, <1>2, <2>1 DEF Nearer, Outer
  <1>4. CASE Len(moving) = 2
    <2>1. /\ Left(Advanced[1]) = Left(moving[1])
          /\ Left(Advanced[2]) = Left(moving[2]) - 1
      BY <1>4, AdvancedHas
    <2>2. Left(moving[2]) \in Nat
      BY <1>1, <1>4, LeftIsNat
    <2>3. Outer(Advanced) = Outer(moving)
      BY <1>1, <1>2, <2>1 DEF Outer
    <2>4. Inner(Advanced) < Inner(moving)
      BY <1>2, <1>4, <2>1, <2>2 DEF Inner
    <2> QED
      BY <1>4, <2>3, <2>4 DEF Nearer
  <1> QED
    BY <1>1, <1>3, <1>4

LEMMA MoveIsNearer ==
  ASSUME Inv, Shallow, MoveBin
  PROVE  Nearer(moving, moving')
  <1> DEFINE p == Target(NextBin.key)
             u == used + Joining(p)
             b == [bins EXCEPT ![p] = Full(NextBin.key, NextBin.val)]
  <1>1. Moving
    BY DEF MoveBin
  <1>2. IF TooFull(u) THEN Resize(b, size, Advanced, Grown)
                      ELSE moving' = Advanced
    BY Zenon DEF MoveBin, Place, Full
  <1> HIDE DEF p, u, b
  <1>3. CASE ~TooFull(u)
    BY <1>1, <1>2, <1>3, AdvancedIsNearer
  <1>4. CASE TooFull(u)
    <2>1. moving' = Append(Advanced, [old |-> b, size |-> size, next |-> 0])
      BY <1>2, <1>4 DEF Resize
    <2>2. Len(moving') <= 2
      BY MoveDepth DEF Shallow, Roomy
    <2>3. Advanced \in Seq(Frame) /\ Len(Advanced) = Len(moving)
      BY <1>1, AdvancedHas
    <2>4. moving # <<>> /\ Len(moving) \in Nat \ {0}
      BY <1>1, StackHas DEF Moving
    <2>5. /\ Len(moving') = Len(Advanced) + 1
          /\ \A f \in 1 .. Len(Advanced) : moving'[f] = Advanced[f]
      BY <2>1, <2>3
    <2>6. Len(moving) = 1
      BY <2>2, <2>3, <2>4, <2>5
    <2>7. moving'[1] = Advanced[1] /\ moving' # <<>>
      BY <2>3, <2>5, <2>6
    <2>8. Left(moving'[1]) < Left(moving[1])
      BY <1>1, <2>6, <2>7, AdvancedIsNearer
    <2>9. Left(moving'[1]) = Left(moving[1]) - 1 /\ Left(moving[1]) \in Nat
      BY <1>1, <2>4, <2>6, <2>7, AdvancedHas, LeftIsNat
    <2> QED
      BY <2>4, <2>7, <2>9 DEF Nearer, Outer
  <1> QED
    BY <1>3, <1>4

LEMMA DoneIsNearer ==
  ASSUME Inv, Shallow, ResizeDone
  PROVE  Nearer(moving, moving')
  <1>1. /\ moving # <<>> /\ moving' = SubSeq(moving, 1, Len(moving) - 1)
        /\ moving[Len(moving)].next = moving[Len(moving)].size
    BY DEF ResizeDone, Top
  <1>2. moving \in Seq(Frame) /\ (Len(moving) = 1 \/ Len(moving) = 2)
    BY <1>1, StackHas DEF Shallow, Roomy
  <1>3. moving' \in Seq(Frame)
    BY DoneStep DEF Unseen, Inv, Shape, StackOK
  <1>4. Len(moving') = Len(moving) - 1
    BY <1>1, <1>2, PoppedLength
  <1>5. CASE Len(moving) = 1
    <2>1. moving' = <<>>
      BY <1>3, <1>4, <1>5, StackLength
    <2>2. Left(moving[1]) \in Nat
      BY <1>1, <1>5, LeftIsNat
    <2>3. Outer(moving') = 0 /\ Outer(moving) = Left(moving[1]) + 1
      BY <1>1, <2>1 DEF Outer
    <2> QED
      BY <2>2, <2>3 DEF Nearer
  <1>6. CASE Len(moving) = 2
    <2>1. moving'[1] = moving[1] /\ moving' # <<>>
      <3>1. moving' = SubSeq(moving, 1, 1)
        BY <1>1, <1>6
      <3>2. moving[1] \in Frame
        BY <1>1, <1>6, StackHas
      <3>3. SubSeq(moving, 1, 1)[1] = moving[1]
        BY <1>2, <1>6, <3>2, SubSeqProperties
      <3>4. moving' # <<>>
        BY <1>3, <1>4, <1>6, StackLength
      <3> QED
        BY <3>1, <3>3, <3>4
    <2>2. Left(moving[2]) \in Nat
      BY <1>1, <1>6, LeftIsNat
    <2>3. Outer(moving') = Outer(moving)
      BY <1>1, <2>1 DEF Outer
    <2>4. Inner(moving') = 0 /\ Inner(moving) = Left(moving[2]) + 1
      BY <1>4, <1>6 DEF Inner
    <2> QED
      BY <2>2, <2>3, <2>4 DEF Nearer
  <1> QED
    BY <1>2, <1>5, <1>6

(* init_table, also where an insert makes it begin again with a larger     *)
(* table, leaves less to do with every bin that it visits: as numbers      *)
(* cannot decrease for ever, it ends.                                      *)
THEOREM ResizesAdvance == Spec => [][moving # <<>> => Nearer(moving, moving')]_vars
  <1>1. Init => Shallow
    BY DEF Init, Shallow, Roomy
  <1>2. Inv /\ Shallow /\ [Next]_vars => Shallow'
    BY ShallowStep
  <1>3. ASSUME Inv, Shallow, [Next]_vars
        PROVE  [moving # <<>> => Nearer(moving, moving')]_vars
    <2> SUFFICES ASSUME Next, moving # <<>> PROVE Nearer(moving, moving')
      BY <1>3
    <2>1. ResizeStep
      BY DEF Next, Insert, Lookup, Delete, DestroyAndCreate, Idle
    <2>2. CASE SkipBin
      BY <1>3, <2>2, AdvancedIsNearer DEF SkipBin
    <2> QED
      BY <1>3, <2>1, <2>2, MoveIsNearer, DoneIsNearer DEF ResizeStep
  <1> QED
    BY <1>1, <1>2, <1>3, Invariance, PTL DEF Spec

(* Nor does init_table ever stop in between: the array is done, or its     *)
(* next bin is empty, or there is a place in the new table for its key.    *)
CanGoOn == \/ Top.next = Top.size
           \/ Moving /\ (NextBin.is_empty \/ Searchable(NextBin.key))

THEOREM ResizesGoOn == Spec => [](moving # <<>> => CanGoOn)
  <1>1. ASSUME Inv, SearchesEnd, moving # <<>> PROVE CanGoOn
    <2>1. Top.size \in Nat /\ Top.next \in 0 .. Top.size
      BY <1>1, StackHas DEF Top
    <2> QED
      BY <1>1, <2>1 DEF CanGoOn, SearchesEnd, Moving
  <1> QED
    BY <1>1, Invariance, SearchesAlwaysEnd, PTL
=============================================================================
