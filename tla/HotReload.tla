----------------------------- MODULE HotReload -----------------------------
(***************************************************************************)
(* Hot reload of the program (prototype-integrator: src/hot_reload.c, the  *)
(* load_programs of src/loader.c, and the places in src/main.c and         *)
(* src/vm_runtime.c that call them).  The host loads every *.bin file of   *)
(* the program directory, takes a signature of the directory as a          *)
(* baseline, and then starts every cycle by comparing the signature: a     *)
(* change sets reload_pending, a pending reload is applied before the      *)
(* scan, and a reload that fails leaves the flag set for the next cycle.   *)
(*                                                                         *)
(* The engineers who deploy programs edit the directory at any time, also  *)
(* between two files of one pass over it.  Every edit of a file gives it a *)
(* new stamp (its size, mtime and content); the checksum of the signature  *)
(* is taken to tell different directories apart, with the one value the    *)
(* code gives a meaning: a directory with no file to sum up has the        *)
(* signature 0.                                                            *)
(*                                                                         *)
(* Definitions named F_... are faulty variants of the definition after     *)
(* them; they are not part of the specification and serve to show which    *)
(* property detects them.                                                  *)
(***************************************************************************)
EXTENDS Naturals

CONSTANTS
  Files,       (* file names, as numbers: cmp_cstr_ptr sorts them          *)
  Environments (* what may befall the directory, see Environment           *)

(* An environment bounds the number of edits and of failures of opendir,   *)
(* and says whether the directory is edited before the main loop starts    *)
(* and whether files are removed from it.                                  *)
Environment == [maxEdits : Nat, maxOpenFailures : Nat,
                bootEdits : BOOLEAN, deletions : BOOLEAN]

ASSUME FilesAssumption == Files \subseteq Nat
ASSUME EnvironmentAssumption == Environments \subseteq Environment

VARIABLES
  env,      (* the environment of this run                                 *)
  dir,      (* the directory: stamp and kind of each file                  *)
  edits,    (* edits made so far, the last stamp given                     *)
  failures, (* times that opendir has failed so far                        *)
  pc,       (* where the host is                                           *)
  booting,  (* main has not entered run_program yet                        *)
  todo,     (* files of the current listing still to be read               *)
  sampled,  (* the signature being computed                                *)
  sig,      (* vm->program_dir_signature                                   *)
  pending,  (* vm->reload_pending                                          *)
  loaded,   (* vm->modules: the stamp of each file in the table, or None   *)
  active    (* history: the table that the last scan executed              *)

vars == <<env, dir, edits, failures, pc, booting, todo, sampled, sig, pending,
          loaded, active>>
environment == <<env, dir, edits, failures>>
vm == <<pc, booting, todo, sampled, sig, pending, loaded, active>>

(* A file that is good loads; one that is empty loads as a module of size  *)
(* zero; one that is big does not fit into the VM's memory.                *)
Kinds == {"absent", "good", "empty", "big"}

None == 0
Nothing == [f \in Files |-> None]

Present == {f \in Files : dir[f].kind # "absent"}

(* What a pass over the directory sees of it in one instant.               *)
Snapshot == [f \in Files |-> IF f \in Present THEN dir[f].stamp ELSE None]

-----------------------------------------------------------------------------
Init ==
  /\ env \in Environments
  /\ edits = 1 /\ failures = 0
  /\ dir \in [Files -> {[stamp |-> 1, kind |-> "good"],
                        [stamp |-> 0, kind |-> "absent"]}]
  /\ pc = "collect" /\ booting = TRUE
  /\ todo = {} /\ sampled = Nothing /\ sig = Nothing
  /\ pending = FALSE /\ loaded = Nothing /\ active = Nothing

-----------------------------------------------------------------------------
(* The environment.                                                        *)

MayEdit == edits < env.maxEdits /\ (booting => env.bootEdits)

Edit(f, kind) ==
  /\ MayEdit
  /\ kind = "absent" => env.deletions /\ f \in Present
  /\ edits' = edits + 1
  /\ dir' = [dir EXCEPT ![f] = [stamp |-> edits + 1, kind |-> kind]]
  /\ UNCHANGED <<env, failures, vm>>

-----------------------------------------------------------------------------
(* directory_changed: sum up the directory, compare with the last sum.     *)

(* calc_dir_signature: the listing, collect_bin_files.                     *)
ListForSignature ==
  /\ pc = "signature"
  /\ todo' = Present
  /\ sampled' = Nothing
  /\ pc' = "summing"
  /\ UNCHANGED <<environment, booting, sig, pending, loaded, active>>

OpendirFails == failures < env.maxOpenFailures /\ failures' = failures + 1

(* collect_bin_files fails: the signature is 0.                            *)
ListingFails ==
  /\ pc = "signature"
  /\ OpendirFails
  /\ todo' = {}
  /\ sampled' = Nothing
  /\ pc' = "summing"
  /\ UNCHANGED <<env, dir, edits, booting, sig, pending, loaded, active>>

IsNext(f) == f \in todo /\ \A g \in todo : f <= g

(* stat and read one file; one that is gone by now is left out.            *)
SumUpFile(f) ==
  /\ pc = "summing"
  /\ IsNext(f)
  /\ todo' = todo \ {f}
  /\ sampled' = [sampled EXCEPT ![f] = Snapshot[f]]
  /\ UNCHANGED <<environment, pc, booting, sig, pending, loaded, active>>

(* A signature of 0 stands for "none taken yet": the new one is adopted    *)
(* and no change reported.                                                 *)
DirectoryChanged == sig # Nothing /\ sampled # sig

(* The first signature remains the one to compare with.                    *)
F_CompareSignature_keeps_baseline ==
  /\ pc = "summing" /\ todo = {}
  /\ sig' = IF sig = Nothing THEN sampled ELSE sig
  /\ IF booting THEN pc' = "signature" /\ UNCHANGED pending
                ELSE pc' = "apply" /\ pending' = (pending \/ DirectoryChanged)
  /\ booting' = FALSE
  /\ UNCHANGED <<environment, todo, sampled, loaded, active>>

(* The result is ignored for the baseline that main takes.                 *)
CompareSignature ==
  /\ pc = "summing" /\ todo = {}
  /\ sig' = sampled
  /\ IF booting THEN pc' = "signature" /\ UNCHANGED pending
                ELSE pc' = "apply" /\ pending' = (pending \/ DirectoryChanged)
  /\ booting' = FALSE
  /\ UNCHANGED <<environment, todo, sampled, loaded, active>>

-----------------------------------------------------------------------------
(* apply_pending_reload and reload_programs_from_directory.                *)

ApplyPendingReload ==
  /\ pc = "apply"
  /\ pending' = FALSE
  /\ pc' = IF pending THEN "collect" ELSE "scan"
  /\ UNCHANGED <<environment, booting, todo, sampled, sig, loaded, active>>

(* The flag is not set again, so the failed reload is never retried.       *)
F_ReloadFails_gives_up ==
  /\ pc' = IF booting THEN "exited" ELSE "scan"
  /\ pending' = FALSE
  /\ todo' = {}
  /\ UNCHANGED <<booting, sampled, sig, active>>

(* The next attempt is made at once and not in the next cycle.             *)
F_ReloadFails_tries_at_once ==
  /\ pc' = IF booting THEN "exited" ELSE "collect"
  /\ pending' = FALSE
  /\ todo' = {}
  /\ UNCHANGED <<booting, sampled, sig, active>>

(* The list of files is not freed.                                         *)
F_ReloadFails_leaks_list ==
  /\ pc' = IF booting THEN "exited" ELSE "scan"
  /\ pending' = ~booting
  /\ UNCHANGED <<todo, booting, sampled, sig, active>>

(* A failed reload is asked for again; a failed first load ends main.      *)
ReloadFails ==
  /\ pc' = IF booting THEN "exited" ELSE "scan"
  /\ pending' = ~booting
  /\ todo' = {}
  /\ UNCHANGED <<booting, sampled, sig, active>>

(* The listing of the files to load.  load_programs starts by freeing the  *)
(* table in use.                                                           *)
ListForLoad ==
  /\ pc = "collect"
  /\ Present # {}
  /\ todo' = Present
  /\ loaded' = Nothing
  /\ pc' = "load"
  /\ UNCHANGED <<environment, booting, sampled, sig, pending, active>>

(* No listing, or none with a file in it: the table stays as it is.        *)
NothingToLoad ==
  /\ pc = "collect"
  /\ OpendirFails \/ (Present = {} /\ UNCHANGED failures)
  /\ ReloadFails
  /\ UNCHANGED <<env, dir, edits, loaded>>

LoadFile(f) ==
  /\ pc = "load"
  /\ IsNext(f)
  /\ dir[f].kind \in {"good", "empty"}
  /\ todo' = todo \ {f}
  /\ loaded' = [loaded EXCEPT ![f] = dir[f].stamp]
  /\ UNCHANGED <<environment, pc, booting, sampled, sig, pending, active>>

(* fopen fails on a file that is gone, or the file would overflow memory:  *)
(* the modules loaded so far are freed.                                    *)
LoadFileFails(f) ==
  /\ pc = "load"
  /\ IsNext(f)
  /\ dir[f].kind \in {"absent", "big"}
  /\ loaded' = Nothing
  /\ ReloadFails
  /\ UNCHANGED environment

(* The file is truncated between ftell and fread: a short read.            *)
ShortRead(f, kind) ==
  /\ pc = "load"
  /\ IsNext(f)
  /\ MayEdit
  /\ dir[f].kind = "good"
  /\ edits' = edits + 1
  /\ dir' = [dir EXCEPT ![f] = [stamp |-> edits + 1, kind |-> kind]]
  /\ loaded' = Nothing
  /\ ReloadFails
  /\ UNCHANGED <<env, failures>>

(* The signature is taken anew after the reload.                           *)
F_LoadDone_takes_signature ==
  /\ pc = "load" /\ todo = {}
  /\ pc' = IF booting THEN "signature" ELSE "scan"
  /\ sig' = Snapshot
  /\ UNCHANGED <<environment, booting, todo, sampled, pending, loaded, active>>

(* main goes on to take the baseline, the loop to scan.                    *)
LoadDone ==
  /\ pc = "load" /\ todo = {}
  /\ pc' = IF booting THEN "signature" ELSE "scan"
  /\ UNCHANGED <<environment, booting, todo, sampled, sig>>
  /\ UNCHANGED <<pending, loaded, active>>

(* The rest of the cycle: every module of the table runs.                  *)
Scan ==
  /\ pc = "scan"
  /\ active' = loaded
  /\ pc' = "signature"
  /\ UNCHANGED <<environment, booting, todo, sampled, sig, pending, loaded>>

-----------------------------------------------------------------------------
HostStep ==
  \/ ListForSignature \/ ListingFails \/ CompareSignature
  \/ ApplyPendingReload \/ ListForLoad \/ NothingToLoad \/ LoadDone \/ Scan
  \/ \E f \in Files : \/ SumUpFile(f) \/ LoadFile(f) \/ LoadFileFails(f)
                      \/ \E kind \in {"good", "empty"} : ShortRead(f, kind)

Next == \/ HostStep
        \/ \E f \in Files, kind \in Kinds : Edit(f, kind)

Spec == Init /\ [][Next]_vars

(* The host is one thread that never blocks for good: it sleeps until the  *)
(* end of the cycle and goes on.  The environment owes nothing.            *)
FairSpec == Spec /\ WF_vars(HostStep)

-----------------------------------------------------------------------------
(* Properties.                                                             *)

Where == {"signature", "summing", "apply", "collect", "load", "scan", "exited"}

(* Stamps are numbers of edits; the table and the signature hold stamps,   *)
(* and the list of files lives for one pass over the directory.            *)
TypeOK ==
  /\ env \in Environments
  /\ edits \in Nat /\ failures \in 0 .. env.maxOpenFailures
  /\ dir \in [Files -> [stamp : 0 .. edits, kind : Kinds]]
  /\ pc \in Where /\ booting \in BOOLEAN /\ pending \in BOOLEAN
  /\ todo \in SUBSET Files
  /\ pc \in {"summing", "load"} \/ todo = {}
  /\ sampled \in [Files -> 0 .. edits] /\ sig \in [Files -> 0 .. edits]
  /\ loaded \in [Files -> 0 .. edits] /\ active \in [Files -> 0 .. edits]

(* Files are edited and added, in any order and also during the two passes *)
(* over the directory, but not removed, and not before the baseline; and   *)
(* opendir does not fail.                                                  *)
Quiet == ~env.bootEdits /\ ~env.deletions /\ env.maxOpenFailures = 0

(* directory_changed and apply_pending_reload together: in a quiet         *)
(* environment, when a scan runs modules that are not those of the         *)
(* directory, the host is bound to notice, for the reload is pending or    *)
(* the signature differs.                                                  *)
StaleIsNoticed ==
  Quiet /\ pc = "scan" /\ loaded # Snapshot => pending \/ sig # Snapshot

(* load_programs frees the table before it knows that the new one loads: a *)
(* scan without modules is always followed by another attempt.             *)
LostProgramIsRetried ==
  pc = "scan" /\ loaded = Nothing => pending

(* A reload that cannot succeed does not keep the host from scanning.      *)
ScansGoOn == []<>(pc \in {"scan", "exited"})

Loadable == Present # {} /\ \A f \in Present : dir[f].kind # "big"

Stays == <>[](pc = "exited" \/ loaded = Snapshot)

(* In a quiet environment, once the edits are over and the directory is    *)
(* loadable, the host comes to run the modules of the directory, and stays *)
(* with them.                                                              *)
UpdatesArrive == <>[](Quiet /\ Loadable) => Stays

(* The same in every environment, as the documents promise.                *)
Converges == <>[]Loadable => Stays

(* What the reload test says of a failed reload: it keeps the previous     *)
(* state, module_count and all.                                            *)
FailureKeepsProgram == pc = "scan" /\ pending => loaded = active
=============================================================================
