---------------------------- MODULE WheelOutput ----------------------------
(***************************************************************************)
(* From a validated build to a merged manifest.  scripts/build-wheel.sh    *)
(* checks at its start that the output directory is empty and, hours       *)
(* later, installs a wheel, its manifest and its checksums there, one      *)
(* after the other; it may die between any two of them, and another build  *)
(* of the same directory may have passed the same check.  The directories  *)
(* are copied file by file, and scripts/merge-manifests.py decides from    *)
(* the copies alone.                                                       *)
(*                                                                         *)
(* A file is Absent or [by, whole]: the build it comes from, and whether   *)
(* all of it is there.                                                     *)
(***************************************************************************)
EXTENDS WheelManifest

CONSTANTS Builds, Dirs,
          Matrix,       \* matrix.json's builds, at the commits that are built
          Gpus,         \* what an environment may have, supported or not
          Absent

Kinds == {"wheel", "manifest", "sums"}
Assets == {e.asset : e \in Matrix}
Files == [by : Builds, whole : BOOLEAN]
Names == {"manifest", "sums"} \cup Assets

ASSUME OutputAssumption ==
    /\ IsFiniteSet(Builds) /\ IsFiniteSet(Dirs)
    /\ Absent \notin Files
    /\ Assets \cap {"manifest", "sums"} = {}

VARIABLES entry,     \* [Builds -> Matrix]: what a build builds
          target,    \* [Builds -> Dirs]: its --output-dir
          pc,        \* [Builds -> where the build is, a file being installed]
          opened,    \* [Builds -> has that file been replaced but not filled?]
          files,     \* [Dirs -> [Names -> file]]
          copies,    \* the same, as transferred
          mpc, queue, manifest, merged    \* merge-manifests.py

builders == <<entry, target, pc, opened, files>>
merger == <<mpc, queue, manifest, merged>>
vars == <<builders, copies, merger>>

BuilderPcs == {"start", "building", "done", "refused", "died"} \cup Kinds

NameOf(b, kind) == IF kind = "wheel" THEN entry[b].asset ELSE kind
Following == [wheel |-> "manifest", manifest |-> "sums", sums |-> "done"]

EmptyDirs == [d \in Dirs |-> [n \in Names |-> Absent]]

Init ==
    /\ entry \in [Builds -> Matrix]
    /\ target \in [Builds -> Dirs]
    /\ pc = [b \in Builds |-> "start"]
    /\ opened = [b \in Builds |-> FALSE]
    /\ files = EmptyDirs /\ copies = EmptyDirs
    /\ mpc = "idle" /\ queue = <<>> /\ manifest = Absent /\ merged = {}

-----------------------------------------------------------------------------
(* A build.                                                                *)

CheckEmpty(b) ==
    /\ pc[b] = "start"
    /\ pc' = [pc EXCEPT ![b] = IF files[target[b]] = EmptyDirs[target[b]]
                               THEN "building" ELSE "refused"]
    /\ UNCHANGED <<entry, target, opened, files, copies, merger>>

(* Compiling, inspecting and validating in a work directory of its own.    *)
Validated(b) ==
    /\ pc[b] = "building"
    /\ pc' = [pc EXCEPT ![b] = "wheel"]
    /\ UNCHANGED <<entry, target, opened, files, copies, merger>>

(* install(1) replaces the file, then fills it.                            *)
Open(b) ==
    /\ pc[b] \in Kinds /\ ~opened[b]
    /\ files' = [files EXCEPT ![target[b]][NameOf(b, pc[b])] = [by |-> b, whole |-> FALSE]]
    /\ opened' = [opened EXCEPT ![b] = TRUE]
    /\ UNCHANGED <<entry, target, pc, copies, merger>>

Close(b) ==
    LET file == files[target[b]][NameOf(b, pc[b])]
    IN  /\ pc[b] \in Kinds /\ opened[b]
        /\ files' = IF file.by = b
                    THEN [files EXCEPT ![target[b]][NameOf(b, pc[b])].whole = TRUE]
                    ELSE files
        /\ opened' = [opened EXCEPT ![b] = FALSE]
        /\ pc' = [pc EXCEPT ![b] = Following[pc[b]]]
        /\ UNCHANGED <<entry, target, copies, merger>>

Die(b) ==
    /\ pc[b] \notin {"start", "done", "refused", "died"}
    /\ pc' = [pc EXCEPT ![b] = "died"]
    /\ UNCHANGED <<entry, target, opened, files, copies, merger>>

-----------------------------------------------------------------------------
(* The transfer of a directory, a file at a time, once a build into it has *)
(* reported success.                                                       *)

Transfer(d, name) ==
    /\ mpc = "idle"
    /\ \E b \in Builds : target[b] = d /\ pc[b] = "done"
    /\ copies' = [copies EXCEPT ![d][name] = files[d][name]]
    /\ UNCHANGED <<builders, merger>>

(* Every directory with a successful build is transferred and merged.      *)
Finished == {d \in Dirs : \E b \in Builds : target[b] = d /\ pc[b] = "done"}
Transferred(d) == \A name \in Names : files[d][name] # Absent => copies[d][name] # Absent

StartMerge ==
    /\ mpc = "idle"
    /\ Finished # {} /\ \A d \in Finished : Transferred(d)
    /\ \E order \in [1 .. Cardinality(Finished) -> Finished] :
          /\ \A d \in Finished : \E i \in DOMAIN order : order[i] = d
          /\ queue' = order
    /\ mpc' = "manifest"
    /\ UNCHANGED <<builders, copies, manifest, merged>>

Copy(name) == copies[Head(queue)][name]
MergeStep(at, ok, to) == mpc = at /\ mpc' = (IF ok THEN to ELSE "failed")

ReadManifest ==
    LET file == Copy("manifest")
        ok == file # Absent /\ file.whole
    IN  /\ MergeStep("manifest", ok, "wheel")
        /\ manifest' = IF ok THEN ArtifactOf(entry[file.by], file.by) ELSE Absent
        /\ UNCHANGED <<builders, copies, queue, merged>>

\* Mutant of VerifyWheel: the wheel is there, its digest is not compared.
FindWheel ==
    /\ MergeStep("wheel", Copy(manifest.asset) # Absent, "sums")
    /\ UNCHANGED <<builders, copies, queue, manifest, merged>>
\* Mutant of VerifyWheel: a wheel that does not verify is waited for.
AwaitWheel ==
    /\ MergeStep("wheel", TRUE, "sums")
    /\ Copy(manifest.asset) = [by |-> manifest.digest, whole |-> TRUE]
    /\ UNCHANGED <<builders, copies, queue, manifest, merged>>
VerifyWheel ==
    /\ MergeStep("wheel", Copy(manifest.asset) = [by |-> manifest.digest, whole |-> TRUE],
                 "sums")
    /\ UNCHANGED <<builders, copies, queue, manifest, merged>>

(* A checksum file that is there must list exactly this wheel.             *)
VerifySums ==
    /\ MergeStep("sums", Copy("sums") \in {Absent, [by |-> manifest.digest, whole |-> TRUE]},
                 "join")
    /\ UNCHANGED <<builders, copies, queue, manifest, merged>>

Join ==
    /\ MergeStep("join", CanJoin(manifest, merged),
                 IF Len(queue) = 1 THEN "merged" ELSE "manifest")
    /\ merged' = IF CanJoin(manifest, merged) THEN merged \cup {manifest} ELSE merged
    /\ queue' = Tail(queue)
    /\ manifest' = Absent
    /\ UNCHANGED <<builders, copies>>

Next ==
    \/ \E b \in Builds : CheckEmpty(b) \/ Validated(b) \/ Open(b) \/ Close(b) \/ Die(b)
    \/ \E d \in Dirs, name \in Names : Transfer(d, name)
    \/ StartMerge \/ ReadManifest \/ VerifyWheel \/ VerifySums \/ Join

Spec == Init /\ [][Next]_vars
FairSpec ==
    /\ Spec
    /\ \A b \in Builds : WF_vars(CheckEmpty(b) \/ Validated(b) \/ Open(b) \/ Close(b))
    /\ \A d \in Dirs, name \in Names : WF_vars(Transfer(d, name) /\ copies' # copies)
    /\ WF_vars(StartMerge \/ ReadManifest \/ VerifyWheel \/ VerifySums \/ Join)

-----------------------------------------------------------------------------
TypeOK ==
    /\ entry \in [Builds -> Matrix] /\ target \in [Builds -> Dirs]
    /\ pc \in [Builds -> BuilderPcs] /\ opened \in [Builds -> BOOLEAN]
    /\ files \in [Dirs -> [Names -> Files \cup {Absent}]]
    /\ copies \in [Dirs -> [Names -> Files \cup {Absent}]]
    /\ mpc \in {"idle", "manifest", "wheel", "sums", "join", "merged", "failed"}
    /\ mpc \in {"wheel", "sums", "join"} => manifest \in {ArtifactOf(entry[b], b) : b \in Builds}
    /\ merged \subseteq {ArtifactOf(entry[b], b) : b \in Builds}

(* What is merged was built and validated as one: in the copy it was taken *)
(* from, the wheel is the whole wheel its manifest describes, whichever    *)
(* builds died or wrote into each other's directory meanwhile              *)
(* (load_and_verify).                                                      *)
MergedIsOneBuild ==
    mpc = "merged" =>
        \A artifact \in merged : \E d \in Dirs :
            /\ copies[d][artifact.asset] = [by |-> artifact.digest, whole |-> TRUE]
            /\ copies[d]["manifest"] = [by |-> artifact.digest, whole |-> TRUE]
            /\ ArtifactOf(entry[artifact.digest], artifact.digest) = artifact

(* Every environment gets exactly the wheel that was built and validated   *)
(* for it: no other, not one that lacks a visible GPU, and not none because*)
(* a rival joined the manifest too (merge and select_artifact agree on what*)
(* identifies a runtime; build-wheel.sh checked torch and its CUDA).  The  *)
(* toolkit has to be that of torch, as it is throughout matrix.json: an    *)
(* entry with another is selected nowhere.                                 *)
Environments ==
    [runtime : {e.runtime : e \in Matrix}, cuda : {e.torchCuda : e \in Matrix},
     gpus : SUBSET Gpus]
BuiltFor(b, environment) ==
    /\ entry[b].runtime = environment.runtime /\ entry[b].torchCuda = environment.cuda
    /\ environment.gpus \subseteq entry[b].gpus
SelectionIsExact ==
    \A environment \in Environments :
        LET found == Selectable(merged, environment)
        IN  /\ \A a, other \in found : a = other
            /\ \A a \in found : BuiltFor(a.digest, environment)
            /\ \A a \in merged :
                  BuiltFor(a.digest, environment) /\ a.cuda = a.torchCuda => found = {a}

(* A merge fails only for a reason: two builds found the same directory    *)
(* empty, or two that succeeded clash.  A build that died is none: what it *)
(* left is transferred only if another one overlapped with it.             *)
Overlapped(b, c) ==
    /\ b # c /\ target[b] = target[c]
    /\ pc[b] \notin {"start", "refused"} /\ pc[c] \notin {"start", "refused"}
Clashing(b, c) ==
    /\ b # c /\ pc[b] = "done" /\ pc[c] = "done"
    /\ Clashes(ArtifactOf(entry[b], b), ArtifactOf(entry[c], c))
MergeFailsForAReason ==
    mpc = "failed" => \E b, c \in Builds : Overlapped(b, c) \/ Clashing(b, c)

(* Once a build has succeeded the release gets its answer: the merge ends. *)
MergeEnds == (\E b \in Builds : pc[b] = "done") ~> mpc \in {"merged", "failed"}

(* The release gets its answer, and gets no for an answer only for a reason.*)
MergeDecides == []MergeFailsForAReason /\ MergeEnds

=============================================================================
