-------------------------- MODULE HotReload_proofs --------------------------
(***************************************************************************)
(* Proofs about HotReload, for any set of files and any number of edits.   *)
(* Inv holds in every environment: what is in the table and in the         *)
(* signature are stamps, and a scan runs without modules only while a      *)
(* reload is pending.  In the quiet environment, where files are added and *)
(* edited but never removed, the directory can be listed, and nobody edits *)
(* before the main loop starts, stamps only grow, and QuietInv says that   *)
(* the table is never older than the signature unless a reload is pending. *)
(***************************************************************************)
EXTENDS HotReload, TLAPS

(* A file that is there has been written.                                  *)
Stamped == \A f \in Files : dir[f].kind # "absent" => dir[f].stamp # None

AtRest == {"signature", "summing", "apply", "scan"}

Table ==
  /\ pc = "load" => todo # {} \/ \E f \in Files : loaded[f] # None
  /\ pc \in AtRest /\ ~pending => \E f \in Files : loaded[f] # None

Inv == TypeOK /\ Stamped /\ Table

(* Stamps only grow.                                                       *)
Ordered == \A f \in Files : /\ sampled[f] <= Snapshot[f]
                            /\ sig[f] <= Snapshot[f]
                            /\ loaded[f] <= Snapshot[f]

(* Before the main loop nothing changes under the feet of the host.        *)
Boot ==
  booting => /\ pc \in {"collect", "load", "signature", "summing", "exited"}
             /\ sig = Nothing
             /\ pc = "load" => \A f \in Files \ todo : loaded[f] = Snapshot[f]
             /\ pc \in {"signature", "summing"} => loaded = Snapshot

(* From the first loading on the directory holds a file, so that no        *)
(* signature is 0.                                                         *)
Occupied == pc # "exited" /\ (booting => pc # "collect") => Present # {}

Summed == pc = "summing" => \E f \in Files : \/ f \in todo /\ f \in Present
                                             \/ sampled[f] # None

Baseline == ~booting => pc # "exited" /\ \E f \in Files : sig[f] # None

Current ==
  /\ pc = "load" => \A f \in Files \ todo : sig[f] <= loaded[f]
  /\ pc \in AtRest /\ ~booting /\ ~pending => \A f \in Files : sig[f] <= loaded[f]

QuietInv == Ordered /\ Boot /\ Occupied /\ Summed /\ Baseline /\ Current

-----------------------------------------------------------------------------
LEMMA NothingType == /\ Nothing \in [Files -> 0 .. 0]
                     /\ \A f \in Files : Nothing[f] = 0
                     /\ \A n \in Nat : Nothing \in [Files -> 0 .. n]
  BY DEF Nothing, None

LEMMA SnapshotFacts ==
  ASSUME TypeOK
  PROVE  /\ Snapshot \in [Files -> 0 .. edits]
         /\ \A f \in Files : Snapshot[f] = IF f \in Present THEN dir[f].stamp ELSE 0
         /\ \A f \in Files : f \in Present <=> dir[f].kind # "absent"
  BY DEF TypeOK, Snapshot, Present, None

LEMMA EnvironmentType ==
  ASSUME env \in Environments
  PROVE  env.maxEdits \in Nat /\ env.maxOpenFailures \in Nat
  BY EnvironmentAssumption DEF Environment

(* No step changes the environment.                                        *)
LEMMA SameEnvironment ==
  ASSUME [Next]_vars PROVE env' = env
  BY DEF Next, HostStep, vars, environment, Edit, ListForSignature, ListingFails,
         CompareSignature, ApplyPendingReload, ListForLoad, NothingToLoad,
         LoadDone, Scan, SumUpFile, LoadFile, LoadFileFails, ShortRead

LEMMA InitInv == Init => Inv
  <1> SUFFICES ASSUME Init PROVE Inv
    OBVIOUS
  <1>1. dir \in [Files -> [stamp : 0 .. edits, kind : Kinds]]
    BY DEF Init, Kinds
  <1>2. Stamped
    BY DEF Init, Stamped, None
  <1>3. edits \in Nat /\ failures \in 0 .. env.maxOpenFailures
    BY EnvironmentType DEF Init
  <1>4. TypeOK
    BY <1>1, <1>3, NothingType DEF Init, TypeOK, Where
  <1>5. Table
    BY DEF Init, Table, AtRest
  <1> QED
    BY <1>2, <1>4, <1>5 DEF Inv

(* An edit of one file.                                                    *)
LEMMA WriteInv ==
  ASSUME TypeOK, Stamped, NEW f \in Files, NEW kind \in Kinds,
         edits' = edits + 1,
         dir' = [dir EXCEPT ![f] = [stamp |-> edits + 1, kind |-> kind]]
  PROVE  /\ edits' \in Nat
         /\ dir' \in [Files -> [stamp : 0 .. edits', kind : Kinds]]
         /\ Stamped'
         /\ \A h \in [Files -> 0 .. edits] : h \in [Files -> 0 .. edits']
  <1>1. edits \in Nat /\ edits' \in Nat /\ edits + 1 \in 0 .. edits'
    BY DEF TypeOK
  <1>2. dir' \in [Files -> [stamp : 0 .. edits', kind : Kinds]]
    <2>1. \A g \in Files : dir[g] \in [stamp : 0 .. edits', kind : Kinds]
      BY <1>1 DEF TypeOK
    <2>2. [stamp |-> edits + 1, kind |-> kind]
            \in [stamp : 0 .. edits', kind : Kinds]
      BY <1>1
    <2> QED
      BY <2>1, <2>2 DEF TypeOK
  <1>3. Stamped'
    BY <1>1 DEF Stamped, TypeOK, None
  <1>4. \A h \in [Files -> 0 .. edits] : h \in [Files -> 0 .. edits']
    BY <1>1
  <1> QED
    BY <1>1, <1>2, <1>3, <1>4

LEMMA NextInv == Inv /\ [Next]_vars => Inv'
  <1> SUFFICES ASSUME Inv, [Next]_vars PROVE Inv'
    OBVIOUS
  <1> USE DEF Inv, environment
  <1>0. /\ edits \in Nat
        /\ Snapshot \in [Files -> 0 .. edits]
        /\ Nothing \in [Files -> 0 .. edits]
        /\ \A f \in Files : Nothing[f] = None
    BY SnapshotFacts, NothingType DEF TypeOK, None
  <1>1. ASSUME NEW f \in Files, NEW kind \in Kinds, Edit(f, kind) PROVE Inv'
    BY <1>1, WriteInv DEF Edit, vm, TypeOK, Table
  <1>2. CASE ListForSignature
    <2>1. TypeOK'
      BY <1>0, <1>2 DEF ListForSignature, TypeOK, Where, Present
    <2>2. Stamped'
      BY <1>2 DEF ListForSignature, Stamped
    <2>3. Table'
      BY <1>2 DEF ListForSignature, Table, AtRest
    <2> QED
      BY <2>1, <2>2, <2>3
  <1>3. CASE ListingFails
    <2>1. failures' \in 0 .. env.maxOpenFailures
      BY <1>3, EnvironmentType DEF ListingFails, OpendirFails, TypeOK
    <2>2. TypeOK'
      BY <1>0, <1>3, <2>1 DEF ListingFails, TypeOK, Where
    <2> QED
      BY <1>3, <2>2 DEF ListingFails, Stamped, Table, AtRest
  <1>4. CASE CompareSignature
    <2>1. pending' \in BOOLEAN /\ pc' \in Where /\ booting' \in BOOLEAN
      BY <1>4 DEF CompareSignature, TypeOK, Where
    <2>2. TypeOK'
      BY <1>4, <2>1 DEF CompareSignature, TypeOK
    <2>3. Stamped'
      BY <1>4 DEF CompareSignature, Stamped
    <2>4. ~pending' => ~pending
      BY <1>4 DEF CompareSignature, TypeOK
    <2>5. Table'
      BY <1>4, <2>4 DEF CompareSignature, Table, AtRest
    <2> QED
      BY <2>2, <2>3, <2>5
  <1>5. CASE ApplyPendingReload
    BY <1>5 DEF ApplyPendingReload, TypeOK, Stamped, Table, AtRest, Where
  <1>6. CASE ListForLoad
    <2>1. TypeOK'
      BY <1>0, <1>6 DEF ListForLoad, TypeOK, Where, Present
    <2>2. Stamped'
      BY <1>6 DEF ListForLoad, Stamped
    <2>3. Table'
      BY <1>6 DEF ListForLoad, Table, AtRest
    <2> QED
      BY <2>1, <2>2, <2>3
  <1>7. CASE NothingToLoad
    <2>1. failures' \in 0 .. env.maxOpenFailures
      BY <1>7, EnvironmentType DEF NothingToLoad, OpendirFails, TypeOK
    <2>2. TypeOK'
      BY <1>7, <2>1 DEF NothingToLoad, ReloadFails, TypeOK, Where
    <2>3. Stamped'
      BY <1>7 DEF NothingToLoad, Stamped
    <2>4. Table'
      BY <1>7 DEF NothingToLoad, ReloadFails, TypeOK, Table, AtRest
    <2> QED
      BY <2>2, <2>3, <2>4
  <1>8. CASE LoadDone
    BY <1>8 DEF LoadDone, TypeOK, Stamped, Table, AtRest, Where
  <1>9. CASE Scan
    BY <1>9 DEF Scan, TypeOK, Stamped, Table, AtRest, Where
  <1>10. ASSUME NEW f \in Files, SumUpFile(f) PROVE Inv'
    BY <1>0, <1>10 DEF SumUpFile, TypeOK, Stamped, Table, AtRest, Where
  <1>11. ASSUME NEW f \in Files, LoadFile(f) PROVE Inv'
    <2>1. dir[f].stamp \in 0 .. edits /\ dir[f].stamp # None
      BY <1>11 DEF LoadFile, TypeOK, Stamped
    <2> QED
      BY <1>11, <2>1 DEF LoadFile, TypeOK, Stamped, Table, AtRest
  <1>12. ASSUME NEW f \in Files, LoadFileFails(f) PROVE Inv'
    BY <1>0, <1>12 DEF LoadFileFails, ReloadFails, TypeOK, Stamped, Table, AtRest,
                       Where
  <1>13. ASSUME NEW f \in Files, NEW kind \in {"good", "empty"}, ShortRead(f, kind)
         PROVE  Inv'
    <2>1. kind \in Kinds
      BY DEF Kinds
    <2>2. /\ edits' \in Nat
          /\ dir' \in [Files -> [stamp : 0 .. edits', kind : Kinds]]
          /\ Stamped'
          /\ \A h \in [Files -> 0 .. edits] : h \in [Files -> 0 .. edits']
      BY <1>13, <2>1, WriteInv DEF ShortRead
    <2> QED
      BY <1>0, <1>13, <2>2 DEF ShortRead, ReloadFails, TypeOK, Table, AtRest, Where
  <1>14. CASE UNCHANGED vars
    BY <1>14 DEF vars, TypeOK, Stamped, Table
  <1> QED
    BY <1>1, <1>2, <1>3, <1>4, <1>5, <1>6, <1>7, <1>8, <1>9, <1>10, <1>11,
       <1>12, <1>13, <1>14 DEF Next, HostStep

LEMMA Invariance == Spec => []Inv
  BY InitInv, NextInv, PTL DEF Spec

(* The table and the signature hold stamps and the list of files lives for *)
(* one pass, in every environment.                                         *)
THEOREM TypeCorrect == Spec => []TypeOK
  BY Invariance, PTL DEF Inv

(* apply_pending_reload: a scan without modules means that another attempt *)
(* to load them is due, in every environment.                              *)
THEOREM LossIsRetried == Spec => []LostProgramIsRetried
  <1>1. Inv => LostProgramIsRetried
    BY NothingType DEF Inv, Table, AtRest, LostProgramIsRetried, None
  <1> QED
    BY <1>1, Invariance, PTL

-----------------------------------------------------------------------------
(* In the quiet environment a change of the directory only adds to it.     *)
LEMMA GrowthFacts ==
  ASSUME Inv, Quiet, NEW f \in Files, NEW kind \in Kinds \ {"absent"},
         edits' = edits + 1,
         dir' = [dir EXCEPT ![f] = [stamp |-> edits + 1, kind |-> kind]]
  PROVE  /\ \A g \in Files : Snapshot[g] <= Snapshot'[g]
         /\ Present \subseteq Present' /\ f \in Present'
  <1>1. edits \in Nat /\ dir \in [Files -> [stamp : 0 .. edits, kind : Kinds]]
    BY DEF Inv, TypeOK
  <1>2. /\ \A g \in Files : g # f => dir'[g] = dir[g]
        /\ dir'[f].stamp = edits + 1 /\ dir'[f].kind = kind
    BY <1>1
  <1>3. Present \subseteq Present' /\ f \in Present'
    BY <1>2 DEF Present
  <1>4. ASSUME NEW g \in Files PROVE Snapshot[g] <= Snapshot'[g]
    <2>1. CASE g = f
      <3>1. Snapshot'[g] = edits + 1
        BY <1>2, <1>3, <2>1 DEF Snapshot
      <3>2. Snapshot[g] \in 0 .. edits
        BY SnapshotFacts DEF Inv
      <3> QED
        BY <1>1, <3>1, <3>2
    <2>2. CASE g # f
      <3>1. Snapshot'[g] = Snapshot[g]
        BY <1>2, <2>2 DEF Snapshot, Present
      <3>2. Snapshot[g] \in 0 .. edits
        BY SnapshotFacts DEF Inv
      <3> QED
        BY <1>1, <3>1, <3>2
    <2> QED
      BY <2>1, <2>2
  <1> QED
    BY <1>3, <1>4

(* The invariant survives a change that leaves the host alone.             *)
LEMMA GrowthQuiet ==
  ASSUME Inv, QuietInv, Quiet, ~booting,
         NEW f \in Files, NEW kind \in Kinds \ {"absent"},
         edits' = edits + 1,
         dir' = [dir EXCEPT ![f] = [stamp |-> edits + 1, kind |-> kind]],
         sampled' = sampled, sig' = sig
  PROVE  /\ \A h \in [Files -> 0 .. edits] :
              (\A g \in Files : h[g] <= Snapshot[g]) =>
                 \A g \in Files : h[g] <= Snapshot'[g]
         /\ Present' # {}
         /\ \A g \in Files : g \in Present => g \in Present'
  <1>1. /\ \A g \in Files : Snapshot[g] <= Snapshot'[g]
        /\ Present \subseteq Present' /\ f \in Present'
    BY GrowthFacts
  <1>2. /\ edits \in Nat /\ edits' \in Nat
        /\ \A g \in Files : Snapshot[g] \in 0 .. edits
    BY SnapshotFacts DEF Inv, TypeOK
  <1>3. \A g \in Files : Snapshot'[g] \in Nat
    <2>1. dir' \in [Files -> [stamp : 0 .. edits', kind : Kinds]]
      BY WriteInv DEF Inv
    <2> QED
      BY <1>2, <2>1 DEF Snapshot, None
  <1> QED
    BY <1>1, <1>2, <1>3

LEMMA InitQuiet == Init => QuietInv
  <1> SUFFICES ASSUME Init PROVE QuietInv
    OBVIOUS
  <1>1. Snapshot \in [Files -> Nat]
    <2>1. TypeOK
      BY InitInv DEF Inv
    <2>2. edits \in Nat /\ Snapshot \in [Files -> 0 .. edits]
      BY <2>1, SnapshotFacts DEF TypeOK
    <2> QED
      BY <2>2
  <1>2. Ordered
    <2>1. /\ sampled \in [Files -> 0 .. 0] /\ sig \in [Files -> 0 .. 0]
          /\ loaded \in [Files -> 0 .. 0]
      BY NothingType DEF Init
    <2> QED
      BY <1>1, <2>1 DEF Ordered
  <1> QED
    BY <1>1, <1>2 DEF Init, QuietInv, Boot, Occupied, Summed, Baseline, Current,
                      AtRest

LEMMA SameDirectory ==
  dir' = dir => Snapshot' = Snapshot /\ Present' = Present
  BY DEF Snapshot, Present

(* What a step may use: the types, spelled out.                            *)
LEMMA QuietTypes ==
  ASSUME Inv
  PROVE  /\ edits \in Nat /\ todo \subseteq Files
         /\ Snapshot \in [Files -> Nat] /\ Nothing \in [Files -> 0 .. 0]
         /\ sampled \in [Files -> Nat] /\ sig \in [Files -> Nat]
         /\ loaded \in [Files -> Nat]
         /\ \A f \in Present : Snapshot[f] # 0
         /\ \A f \in Files \ Present : Snapshot[f] = 0
         /\ Present \subseteq Files
  <1>1. /\ edits \in Nat /\ todo \subseteq Files
        /\ sampled \in [Files -> 0 .. edits] /\ sig \in [Files -> 0 .. edits]
        /\ loaded \in [Files -> 0 .. edits]
    BY DEF Inv, TypeOK
  <1>2. Snapshot \in [Files -> 0 .. edits]
    BY SnapshotFacts DEF Inv
  <1>3. /\ \A f \in Present : Snapshot[f] # 0
        /\ \A f \in Files \ Present : Snapshot[f] = 0
        /\ Present \subseteq Files
    BY DEF Inv, Stamped, Snapshot, Present, None
  <1> QED
    BY <1>1, <1>2, <1>3, NothingType

LEMMA SignatureQuiet ==
  ASSUME Inv, QuietInv, Quiet,
         ListForSignature \/ CompareSignature \/ ApplyPendingReload
           \/ \E f \in Files : SumUpFile(f)
  PROVE  QuietInv'
  <1> USE QuietTypes, SameDirectory DEF QuietInv, environment
  <1>1. CASE ListForSignature
    <2>1. Ordered'
      BY <1>1, NothingType DEF ListForSignature, Ordered
    <2>2. Summed'
      BY <1>1 DEF ListForSignature, Summed, Occupied
    <2> QED
      BY <1>1, <2>1, <2>2
      DEF ListForSignature, Boot, Occupied, Baseline, Current, AtRest
  <1>2. CASE CompareSignature
    <2>1. Ordered'
      BY <1>2 DEF CompareSignature, Ordered
    <2>2. \E f \in Files : sig'[f] # None
      BY <1>2 DEF CompareSignature, Summed
    <2>3. Current'
      <3>1. CASE booting
        BY <1>2, <3>1 DEF CompareSignature, Boot, Ordered, Current, AtRest
      <3>2. CASE ~booting /\ ~pending'
        <4>1. sig # Nothing
          BY <3>2, NothingType DEF Baseline, None
        <4>2. sampled = sig /\ ~pending
          BY <1>2, <3>2, <4>1 DEF CompareSignature, DirectoryChanged
        <4> QED
          BY <1>2, <3>2, <4>2 DEF CompareSignature, Current, AtRest
      <3> QED
        BY <1>2, <3>1, <3>2 DEF CompareSignature, Current
    <2> QED
      BY <1>2, <2>1, <2>2, <2>3
      DEF CompareSignature, Boot, Occupied, Summed, Baseline
  <1>3. CASE ApplyPendingReload
    BY <1>3 DEF ApplyPendingReload, Ordered, Boot, Occupied, Summed, Baseline,
                Current, AtRest
  <1>4. ASSUME NEW f \in Files, SumUpFile(f) PROVE QuietInv'
    <2>1. /\ sampled' = [sampled EXCEPT ![f] = Snapshot[f]]
          /\ Snapshot' = Snapshot /\ Present' = Present
          /\ UNCHANGED <<sig, loaded, pc, booting, pending>>
          /\ todo' = todo \ {f} /\ f \in todo /\ pc = "summing"
      BY <1>4 DEF SumUpFile, IsNext
    <2>2. Ordered'
      BY <2>1 DEF Ordered
    <2>3. Summed'
      <3>1. PICK g \in Files : \/ g \in todo /\ g \in Present
                               \/ sampled[g] # None
        BY <2>1 DEF Summed
      <3>2. CASE g = f
        BY <2>1, <3>1, <3>2 DEF Summed, None, Ordered
      <3>3. CASE g # f
        BY <2>1, <3>1, <3>3 DEF Summed
      <3> QED
        BY <3>2, <3>3
    <2> QED
      BY <2>1, <2>2, <2>3 DEF Boot, Occupied, Baseline, Current
  <1> QED
    BY <1>1, <1>2, <1>3, <1>4

LEMMA LoadQuiet ==
  ASSUME Inv, QuietInv, Quiet,
         \/ ListForLoad \/ NothingToLoad \/ LoadDone \/ Scan
         \/ \E f \in Files : LoadFile(f) \/ LoadFileFails(f)
  PROVE  QuietInv'
  <1> USE QuietTypes, SameDirectory DEF QuietInv, environment
  <1>1. CASE ListForLoad
    <2>1. Ordered'
      BY <1>1, NothingType DEF ListForLoad, Ordered
    <2>2. Current'
      <3>1. \A f \in Files \ Present : sig[f] <= Nothing[f]
        BY NothingType DEF Ordered
      <3> QED
        BY <1>1, <3>1 DEF ListForLoad, Current, AtRest
    <2>3. Boot'
      <3>1. \A f \in Files \ Present : Nothing[f] = Snapshot[f]
        BY NothingType
      <3> QED
        BY <1>1, <3>1 DEF ListForLoad, Boot
    <2> QED
      BY <1>1, <2>1, <2>2, <2>3 DEF ListForLoad, Occupied, Summed, Baseline
  <1>2. CASE NothingToLoad
    <2>1. /\ loaded' = loaded /\ sampled' = sampled /\ sig' = sig
          /\ booting' = booting /\ pending' = ~booting
          /\ pc' = IF booting THEN "exited" ELSE "scan"
          /\ Snapshot' = Snapshot /\ Present' = Present /\ pc = "collect"
      BY <1>2 DEF NothingToLoad, ReloadFails
    <2>2. Ordered'
      BY <2>1 DEF Ordered
    <2> QED
      BY <2>1, <2>2 DEF Boot, Occupied, Summed, Baseline, Current, AtRest
  <1>3. CASE LoadDone
    <2>1. Ordered'
      BY <1>3 DEF LoadDone, Ordered
    <2>2. Boot'
      <3>1. \A f \in Files : booting => loaded[f] = Snapshot[f]
        BY <1>3 DEF LoadDone, Boot
      <3>2. booting => loaded = Snapshot
        BY <3>1
      <3> QED
        BY <1>3, <3>2 DEF LoadDone, Boot
    <2> QED
      BY <1>3, <2>1, <2>2
      DEF LoadDone, Occupied, Summed, Baseline, Current, AtRest
  <1>4. CASE Scan
    BY <1>4 DEF Scan, Ordered, Boot, Occupied, Summed, Baseline, Current, AtRest
  <1>5. ASSUME NEW f \in Files, LoadFile(f) PROVE QuietInv'
    <2>1. /\ loaded' = [loaded EXCEPT ![f] = Snapshot[f]]
          /\ Snapshot' = Snapshot /\ Present' = Present
          /\ UNCHANGED <<sig, sampled, pc, booting, pending>>
          /\ todo' = todo \ {f} /\ pc = "load"
      BY <1>5 DEF LoadFile, Snapshot, Present
    <2>2. Ordered'
      BY <2>1 DEF Ordered
    <2>3. Current'
      BY <2>1 DEF Current, Ordered, AtRest
    <2> QED
      BY <2>1, <2>2, <2>3 DEF Boot, Occupied, Summed, Baseline
  <1>6. ASSUME NEW f \in Files, LoadFileFails(f) PROVE QuietInv'
    <2>1. /\ loaded' = Nothing /\ sampled' = sampled /\ sig' = sig
          /\ booting' = booting /\ pending' = ~booting
          /\ pc' = IF booting THEN "exited" ELSE "scan"
          /\ Snapshot' = Snapshot /\ Present' = Present /\ pc = "load"
      BY <1>6 DEF LoadFileFails, ReloadFails
    <2>2. Ordered'
      BY <2>1, NothingType DEF Ordered
    <2> QED
      BY <2>1, <2>2 DEF Boot, Occupied, Summed, Baseline, Current, AtRest
  <1> QED
    BY <1>1, <1>2, <1>3, <1>4, <1>5, <1>6

LEMMA EditQuiet ==
  ASSUME Inv, QuietInv, Quiet, NEW f \in Files, NEW kind \in Kinds,
         Edit(f, kind) \/ (kind \in {"good", "empty"} /\ ShortRead(f, kind))
  PROVE  QuietInv'
  <1>1. /\ ~booting /\ kind # "absent"
        /\ edits' = edits + 1 /\ sampled' = sampled /\ sig' = sig
        /\ booting' = booting
        /\ dir' = [dir EXCEPT ![f] = [stamp |-> edits + 1, kind |-> kind]]
    BY DEF Edit, ShortRead, ReloadFails, MayEdit, Quiet, vm
  <1>2. /\ \A g \in Files : Snapshot[g] <= Snapshot'[g]
        /\ Present \subseteq Present' /\ f \in Present'
    BY <1>1, GrowthFacts
  <1>3. /\ sampled \in [Files -> Nat] /\ sig \in [Files -> Nat]
        /\ loaded \in [Files -> Nat] /\ Snapshot \in [Files -> Nat]
        /\ Nothing \in [Files -> 0 .. 0]
    BY QuietTypes
  <1>4. Snapshot' \in [Files -> Nat]
    <2>1. edits' \in Nat /\ dir' \in [Files -> [stamp : 0 .. edits', kind : Kinds]]
      BY <1>1, WriteInv DEF Inv
    <2> QED
      BY <2>1 DEF Snapshot, None
  <1>5. CASE Edit(f, kind)
    <2>1. UNCHANGED <<pc, todo, pending, loaded>>
      BY <1>5 DEF Edit, vm
    <2>2. Ordered'
      BY <1>1, <1>2, <1>3, <1>4, <2>1 DEF QuietInv, Ordered
    <2> QED
      BY <1>1, <1>2, <2>1, <2>2
      DEF QuietInv, Boot, Occupied, Summed, Baseline, Current
  <1>6. CASE ShortRead(f, kind)
    <2>1. /\ loaded' = Nothing /\ pc' = "scan" /\ pending' = TRUE
      BY <1>1, <1>6 DEF ShortRead, ReloadFails
    <2>2. Ordered'
      BY <1>1, <1>2, <1>3, <1>4, <2>1 DEF QuietInv, Ordered
    <2> QED
      BY <1>1, <1>2, <2>1, <2>2
      DEF QuietInv, Boot, Occupied, Summed, Baseline, Current, AtRest
  <1> QED
    BY <1>5, <1>6

LEMMA QuietNext ==
  ASSUME Quiet
  PROVE  Inv /\ QuietInv /\ [Next]_vars => QuietInv'
  <1> SUFFICES ASSUME Inv, QuietInv, [Next]_vars PROVE QuietInv'
    OBVIOUS
  <1>1. ~ListingFails
    BY EnvironmentType DEF Quiet, ListingFails, OpendirFails, Inv, TypeOK
  <1>2. ASSUME NEW f \in Files, NEW kind \in {"good", "empty"}, ShortRead(f, kind)
        PROVE  QuietInv'
    <2>1. kind \in Kinds
      BY DEF Kinds
    <2> QED
      BY <1>2, <2>1, EditQuiet
  <1>3. CASE UNCHANGED vars
    BY <1>3, SameDirectory DEF vars, QuietInv, Ordered, Boot, Occupied, Summed,
                               Baseline, Current
  <1> QED
    BY <1>1, <1>2, <1>3, SignatureQuiet, LoadQuiet, EditQuiet DEF Next, HostStep

(* directory_changed and apply_pending_reload: in the quiet environment a  *)
(* host that scans with modules other than those of the directory has a    *)
(* reload pending or a signature that differs.                             *)
THEOREM StaleIsAlwaysNoticed == Spec => []StaleIsNoticed
  <1> DEFINE I == Inv /\ (Quiet => QuietInv)
  <1>1. I => StaleIsNoticed
    <2> SUFFICES ASSUME Inv, QuietInv, pc = "scan", ~pending, sig = Snapshot
                 PROVE  loaded = Snapshot
      BY DEF StaleIsNoticed
    <2>1. \A f \in Files : sig[f] <= loaded[f] /\ loaded[f] <= Snapshot[f]
      BY DEF QuietInv, Ordered, Boot, Current, AtRest
    <2>2. loaded \in [Files -> Nat] /\ Snapshot \in [Files -> Nat]
      BY QuietTypes
    <2>3. ASSUME NEW f \in Files PROVE loaded[f] = Snapshot[f]
      <3>1. loaded[f] \in Nat /\ Snapshot[f] \in Nat
        BY <2>2
      <3>2. Snapshot[f] <= loaded[f] /\ loaded[f] <= Snapshot[f]
        BY <2>1
      <3> QED
        BY <3>1, <3>2
    <2> QED
      BY <2>2, <2>3
  <1>2. Init => I
    BY InitInv, InitQuiet
  <1>3. I /\ [Next]_vars => I'
    <2> SUFFICES ASSUME I, [Next]_vars PROVE I'
      OBVIOUS
    <2>1. Quiet' <=> Quiet
      BY SameEnvironment DEF Quiet
    <2> QED
      BY <2>1, NextInv, QuietNext
  <1> QED
    BY <1>1, <1>2, <1>3, PTL DEF Spec
=============================================================================
