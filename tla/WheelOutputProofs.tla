------------------------- MODULE WheelOutputProofs -------------------------
(***************************************************************************)
(* WheelOutput, for any builds, directories and matrix: a merged manifest  *)
(* names whole wheels only, each with the manifest of the build it comes   *)
(* from, and gives every environment the one that was built for it.        *)
(*                                                                         *)
(* Nothing is assumed of the builds: they may die, or write into each      *)
(* other's directory, at any time.  What makes the merge right is that it  *)
(* verifies the very copies it goes on to publish.  It says no only where  *)
(* builds overlapped or clash (ReasonTheorem), and it ends (MergeWork).    *)
(***************************************************************************)
EXTENDS WheelOutput, FiniteSetTheorems, TLAPS

MergingPcs == {"manifest", "wheel", "sums", "join"}
VerifiedPcs == {"wheel", "sums", "join"}

FileSets == [Dirs -> [Names -> Files \cup {Absent}]]

(* A file that is being filled is there.                                   *)
FilesInv ==
    /\ entry \in [Builds -> Matrix] /\ target \in [Builds -> Dirs]
    /\ pc \in [Builds -> BuilderPcs] /\ opened \in [Builds -> BOOLEAN]
    /\ files \in FileSets /\ copies \in FileSets
    /\ \A b \in Builds : opened[b] => pc[b] \in Kinds \cup {"died"}
    /\ \A b \in Builds : opened[b] /\ pc[b] \in Kinds =>
          files[target[b]][NameOf(b, pc[b])] # Absent

(* The copy of d holds the manifest that artifact repeats.                 *)
ManifestOf(d, artifact) ==
    /\ d \in Dirs /\ artifact.digest \in Builds
    /\ artifact = ArtifactOf(entry[artifact.digest], artifact.digest)
    /\ copies[d]["manifest"] = [by |-> artifact.digest, whole |-> TRUE]

(* It holds the wheel that artifact describes, too.                        *)
WheelOf(d, artifact) ==
    copies[d][artifact.asset] = [by |-> artifact.digest, whole |-> TRUE]

MergeInv ==
    /\ mpc \in MergingPcs => queue \in Seq(Dirs) /\ queue # <<>>
    /\ mpc \in VerifiedPcs => ManifestOf(Head(queue), manifest)
    /\ mpc \in {"sums", "join"} => WheelOf(Head(queue), manifest)
    /\ mpc = "idle" => merged = {}
    /\ \A artifact \in merged : \E d \in Dirs : ManifestOf(d, artifact) /\ WheelOf(d, artifact)
    /\ \A artifact, other \in merged : artifact # other => ~Clashes(artifact, other)

MInv == FilesInv /\ MergeInv

-----------------------------------------------------------------------------
(* Files.                                                                  *)

LEMMA KindNames ==
    ASSUME FilesInv, NEW b \in Builds, NEW kind \in Kinds
    PROVE  NameOf(b, kind) \in Names
BY DEF FilesInv, Assets, NameOf, Names, Kinds

LEMMA InitFiles == Init => FilesInv
BY DEF Init, FilesInv, FileSets, EmptyDirs, BuilderPcs, Kinds

\* A build checks its directory, or has compiled and validated its wheel.
LEMMA BeforeInstallFiles ==
    ASSUME FilesInv, NEW b \in Builds, CheckEmpty(b) \/ Validated(b)
    PROVE  FilesInv'
<1>1. UNCHANGED <<entry, target, opened, files, copies>> /\ pc[b] \in {"start", "building"}
  BY DEF CheckEmpty, Validated
<1>2. ~opened[b]
  BY <1>1 DEF FilesInv, Kinds
<1>3. pc' \in [Builds -> BuilderPcs] /\ \A c \in Builds : c # b => pc'[c] = pc[c]
  BY DEF CheckEmpty, Validated, FilesInv, BuilderPcs, Kinds
<1>. QED  BY <1>1, <1>2, <1>3 DEF FilesInv, NameOf

LEMMA OpenFiles ==
    ASSUME FilesInv, NEW b \in Builds, Open(b)
    PROVE  FilesInv'
<1>. DEFINE d == target[b]
            name == NameOf(b, pc[b])
            file == [by |-> b, whole |-> FALSE]
<1>1. d \in Dirs /\ name \in Names /\ file \in Files /\ pc[b] \in Kinds
  BY KindNames DEF FilesInv, Files, Open
<1>2. UNCHANGED <<entry, target, pc, copies>> /\ files' = [files EXCEPT ![d][name] = file]
      /\ opened' = [opened EXCEPT ![b] = TRUE]
  BY DEF Open
<1>3. files' \in FileSets
  BY <1>1, <1>2 DEF FilesInv, FileSets
<1>4. file # Absent
  BY <1>1, OutputAssumption
<1>5. \A e \in Dirs, n \in Names : files'[e][n] = IF e = d /\ n = name THEN file ELSE files[e][n]
  BY <1>1, <1>2 DEF FilesInv, FileSets
<1>6. \A c \in Builds : opened'[c] => c = b \/ opened[c]
  BY <1>2 DEF FilesInv
<1>7. ASSUME NEW c \in Builds, opened'[c], pc'[c] \in Kinds
      PROVE  files'[target'[c]][NameOf(c, pc[c])] # Absent
  <2>1. target[c] \in Dirs /\ NameOf(c, pc[c]) \in Names
    BY <1>2, <1>7, KindNames DEF FilesInv
  <2>2. CASE c = b
    BY <1>2, <1>4, <1>5, <2>1, <2>2
  <2>3. CASE c # b
    BY <1>2, <1>4, <1>5, <1>6, <1>7, <2>1, <2>3 DEF FilesInv
  <2>. QED  BY <2>2, <2>3
<1>8. opened' \in [Builds -> BOOLEAN]
  BY <1>2 DEF FilesInv
<1>. QED  BY <1>1, <1>2, <1>3, <1>6, <1>7, <1>8 DEF FilesInv, NameOf

LEMMA CloseFiles ==
    ASSUME FilesInv, NEW b \in Builds, Close(b)
    PROVE  FilesInv'
<1>. DEFINE d == target[b]
            name == NameOf(b, pc[b])
<1>1. d \in Dirs /\ name \in Names /\ pc[b] \in Kinds /\ files[d][name] \in Files
  <2>1. pc[b] \in Kinds /\ opened[b]
    BY DEF Close
  <2>. QED  BY <2>1, KindNames DEF FilesInv, FileSets
<1>2. UNCHANGED <<entry, target, copies>> /\ opened' = [opened EXCEPT ![b] = FALSE]
      /\ pc' = [pc EXCEPT ![b] = Following[pc[b]]]
      /\ \/ files' = files
         \/ files' = [files EXCEPT ![d][name] = [files[d][name] EXCEPT !.whole = TRUE]]
  BY DEF Close
<1>3. Following[pc[b]] \in BuilderPcs
  BY <1>1 DEF Following, BuilderPcs, Kinds
<1>. DEFINE file == [files[d][name] EXCEPT !.whole = TRUE]
<1>a. file \in Files /\ files \in FileSets
  BY <1>1 DEF Files, FilesInv
<1>b. files' = files \/ files' = [files EXCEPT ![d] = [files[d] EXCEPT ![name] = file]]
  BY <1>1, <1>2, <1>a DEF FileSets, file
<1>. HIDE DEF file, d, name
<1>4. files' \in FileSets
  <2>1. CASE files' = files
    BY <1>a, <2>1
  <2>2. CASE files' = [files EXCEPT ![d] = [files[d] EXCEPT ![name] = file]]
    BY <1>1, <1>a, <2>2 DEF FileSets
  <2>. QED  BY <1>b, <2>1, <2>2
<1>5. \A e \in Dirs, n \in Names : files'[e][n] = files[e][n] \/ files'[e][n] \in Files
  <2>1. CASE files' = files
    BY <2>1
  <2>2. CASE files' = [files EXCEPT ![d] = [files[d] EXCEPT ![name] = file]]
    BY <1>1, <1>a, <2>2 DEF FileSets
  <2>. QED  BY <1>b, <2>1, <2>2
<1>. USE DEF d, name
<1>6. pc' \in [Builds -> BuilderPcs] /\ opened' \in [Builds -> BOOLEAN]
      /\ ~opened'[b] /\ \A c \in Builds : c # b => pc'[c] = pc[c] /\ opened'[c] = opened[c]
  BY <1>2, <1>3 DEF FilesInv
<1>7. Absent \notin Files
  BY OutputAssumption
<1>8. ASSUME NEW c \in Builds, opened'[c], pc'[c] \in Kinds
      PROVE  files'[target'[c]][NameOf(c, pc'[c])] # Absent
  <2>1. c # b /\ opened[c] /\ pc'[c] = pc[c]
    BY <1>6, <1>8
  <2>2. target[c] \in Dirs /\ NameOf(c, pc[c]) \in Names
    BY <1>8, <2>1, KindNames DEF FilesInv
  <2>. QED  BY <1>2, <1>5, <1>7, <1>8, <2>1, <2>2 DEF FilesInv
<1>. QED  BY <1>2, <1>4, <1>6, <1>8 DEF FilesInv, NameOf

LEMMA DieFiles ==
    ASSUME FilesInv, NEW b \in Builds, Die(b)
    PROVE  FilesInv'
<1>1. UNCHANGED <<entry, target, opened, files, copies>> /\ pc' = [pc EXCEPT ![b] = "died"]
  BY DEF Die
<1>2. pc' \in [Builds -> BuilderPcs] /\ pc'[b] = "died" /\ \A c \in Builds : c # b => pc'[c] = pc[c]
  BY <1>1 DEF FilesInv, BuilderPcs, Kinds
<1>. QED  BY <1>1, <1>2 DEF FilesInv, NameOf, Kinds

LEMMA TransferFiles ==
    ASSUME FilesInv, NEW d \in Dirs, NEW name \in Names, Transfer(d, name)
    PROVE  FilesInv'
<1>1. UNCHANGED builders /\ copies' = [copies EXCEPT ![d][name] = files[d][name]]
  BY DEF Transfer
<1>2. copies' \in FileSets
  BY <1>1 DEF FilesInv, FileSets
<1>. QED  BY <1>1, <1>2 DEF FilesInv, NameOf, builders

LEMMA MergeFiles ==
    ASSUME FilesInv, UNCHANGED <<builders, copies>>
    PROVE  FilesInv'
BY DEF FilesInv, NameOf, builders

-----------------------------------------------------------------------------
(* The merge.                                                              *)

\* Builds and transfers leave a merge under way alone.
LEMMA BuildMerge ==
    ASSUME MInv, UNCHANGED <<entry, merger>>, mpc # "idle" => UNCHANGED copies
    PROVE  MergeInv'
<1>1. CASE mpc = "idle"
  BY <1>1 DEF MInv, MergeInv, merger, MergingPcs, VerifiedPcs
<1>2. CASE mpc # "idle"
  BY <1>2 DEF MInv, MergeInv, merger, ManifestOf, WheelOf
<1>. QED  BY <1>1, <1>2

LEMMA StartMerged ==
    ASSUME MInv, StartMerge
    PROVE  MergeInv'
<1>1. Finished \in SUBSET Dirs /\ Finished # {}
  BY DEF StartMerge, Finished
<1>2. Cardinality(Finished) \in Nat \ {0}
  BY <1>1, FS_Subset, FS_EmptySet, FS_CardinalityType, OutputAssumption
<1>3. queue' \in Seq(Dirs) /\ queue' # <<>>
  <2>1. PICK order \in [1 .. Cardinality(Finished) -> Finished] : queue' = order
    BY DEF StartMerge
  <2>2. order \in Seq(Dirs) /\ Len(order) = Cardinality(Finished)
    BY <1>1, <1>2
  <2>. QED  BY <1>2, <2>1, <2>2
<1>4. mpc' = "manifest" /\ merged' = {}
  BY DEF StartMerge, MInv, MergeInv
<1>. QED  BY <1>3, <1>4 DEF MergeInv, MergingPcs, VerifiedPcs

\* What is already merged stays verified.
LEMMA MergedKept ==
    ASSUME MInv, UNCHANGED <<entry, copies, merged>>
    PROVE  /\ \A artifact \in merged' : \E d \in Dirs :
                ManifestOf(d, artifact)' /\ WheelOf(d, artifact)'
           /\ \A artifact, other \in merged' : artifact # other => ~Clashes(artifact, other)
BY DEF MInv, MergeInv, ManifestOf, WheelOf

LEMMA ReadMerged ==
    ASSUME MInv, ReadManifest
    PROVE  MergeInv'
<1>. DEFINE file == Copy("manifest")
            ok == file # Absent /\ file.whole
<1>1. mpc = "manifest" /\ mpc' = (IF ok THEN "wheel" ELSE "failed")
      /\ manifest' = (IF ok THEN ArtifactOf(entry[file.by], file.by) ELSE Absent)
      /\ UNCHANGED <<entry, copies, queue, merged>>
  BY DEF ReadManifest, MergeStep, builders
<1>2. queue \in Seq(Dirs) /\ queue # <<>> /\ Head(queue) \in Dirs
  BY <1>1 DEF MInv, MergeInv, MergingPcs
<1>3. file \in Files \cup {Absent}
  BY <1>2 DEF MInv, FilesInv, FileSets, Names, Copy
<1>4. CASE ok
  <2>1. file \in Files /\ file = [by |-> file.by, whole |-> TRUE] /\ file.by \in Builds
    BY <1>3, <1>4 DEF Files
  <2>2. manifest' = ArtifactOf(entry[file.by], file.by) /\ manifest'.digest = file.by
    BY <1>1, <1>4 DEF ArtifactOf
  <2>3. copies'[Head(queue')]["manifest"] = file /\ Head(queue') \in Dirs /\ mpc' = "wheel"
    BY <1>1, <1>2, <1>4 DEF Copy
  <2>4. ManifestOf(Head(queue), manifest)'
    BY <1>1, <2>1, <2>2, <2>3 DEF ManifestOf
  <2>. QED  BY <1>1, <1>2, <2>3, <2>4, MergedKept DEF MergeInv
<1>5. CASE ~ok
  <2>1. mpc' = "failed"
    BY <1>1, <1>5
  <2>. QED  BY <1>1, <2>1, MergedKept DEF MergeInv, MergingPcs, VerifiedPcs
<1>. QED  BY <1>4, <1>5

LEMMA VerifyMerged ==
    ASSUME MInv, VerifyWheel \/ VerifySums
    PROVE  MergeInv'
<1>1. UNCHANGED <<entry, copies, queue, manifest, merged>>
  BY DEF VerifyWheel, VerifySums, builders
<1>2. CASE VerifyWheel
  <2>1. mpc = "wheel" /\ mpc' \in {"sums", "failed"}
        /\ (mpc' = "sums" => WheelOf(Head(queue), manifest))
    BY <1>2 DEF VerifyWheel, MergeStep, Copy, WheelOf
  <2>. QED  BY <1>1, <2>1, MergedKept DEF MInv, MergeInv, MergingPcs, VerifiedPcs, ManifestOf, WheelOf
<1>3. CASE VerifySums
  <2>1. mpc = "sums" /\ mpc' \in {"join", "failed"}
    BY <1>3 DEF VerifySums, MergeStep
  <2>. QED  BY <1>1, <2>1, MergedKept DEF MInv, MergeInv, MergingPcs, VerifiedPcs, ManifestOf, WheelOf
<1>. QED  BY <1>2, <1>3

LEMMA ClashesSymmetric ==
    ASSUME NEW a, NEW b, Clashes(a, b)
    PROVE  Clashes(b, a)
BY DEF Clashes, SameRuntime

LEMMA JoinMerged ==
    ASSUME MInv, Join
    PROVE  MergeInv'
<1>1. mpc = "join" /\ UNCHANGED <<entry, copies>> /\ queue' = Tail(queue)
      /\ mpc' = (IF CanJoin(manifest, merged) THEN IF Len(queue) = 1 THEN "merged" ELSE "manifest"
                 ELSE "failed")
      /\ merged' = (IF CanJoin(manifest, merged) THEN merged \cup {manifest} ELSE merged)
  BY DEF Join, MergeStep, builders
<1>2. queue \in Seq(Dirs) /\ queue # <<>> /\ Head(queue) \in Dirs
  BY <1>1 DEF MInv, MergeInv, MergingPcs
<1>3. ManifestOf(Head(queue), manifest) /\ WheelOf(Head(queue), manifest)
  BY <1>1 DEF MInv, MergeInv, VerifiedPcs
<1>4. CASE ~CanJoin(manifest, merged)
  <2>1. mpc' = "failed" /\ merged' = merged
    BY <1>1, <1>4
  <2>. QED  BY <1>1, <2>1, MergedKept DEF MergeInv, MergingPcs, VerifiedPcs
<1>5. CASE CanJoin(manifest, merged)
  <2>1. merged' = merged \cup {manifest} /\ mpc' \in {"merged", "manifest"}
    BY <1>1, <1>5
  <2>2. ASSUME mpc' = "manifest" PROVE queue' \in Seq(Dirs) /\ queue' # <<>>
    <3>1. Len(queue) # 1 /\ Len(queue) \in Nat \ {0}
      BY <1>1, <1>2, <1>5, <2>2
    <3>2. queue' \in Seq(Dirs) /\ Len(queue') = Len(queue) - 1
      BY <1>1, <1>2
    <3>. QED  BY <3>1, <3>2
  <2>3. \A artifact \in merged' : \E d \in Dirs : ManifestOf(d, artifact) /\ WheelOf(d, artifact)
    BY <1>2, <1>3, <2>1 DEF MInv, MergeInv
  <2>4. \A artifact \in merged' : \E d \in Dirs : ManifestOf(d, artifact)' /\ WheelOf(d, artifact)'
    BY <1>1, <2>3 DEF ManifestOf, WheelOf
  <2>5. \A artifact, other \in merged' : artifact # other => ~Clashes(artifact, other)
    BY <1>5, <2>1, ClashesSymmetric DEF MInv, MergeInv, CanJoin
  <2>. QED  BY <2>1, <2>2, <2>4, <2>5 DEF MergeInv, VerifiedPcs, MergingPcs
<1>. QED  BY <1>4, <1>5

-----------------------------------------------------------------------------
LEMMA MergeStepInv == MInv /\ [Next]_vars => MInv'
<1>. SUFFICES ASSUME MInv, [Next]_vars PROVE MInv'
  OBVIOUS
<1>1. FilesInv
  BY DEF MInv
<1>2. CASE \E b \in Builds : CheckEmpty(b) \/ Validated(b) \/ Open(b) \/ Close(b) \/ Die(b)
  <2>1. FilesInv'
    BY <1>1, <1>2, BeforeInstallFiles, OpenFiles, CloseFiles, DieFiles
  <2>2. UNCHANGED <<entry, merger, copies>>
    BY <1>2 DEF CheckEmpty, Validated, Open, Close, Die
  <2>. QED  BY <2>1, <2>2, BuildMerge DEF MInv
<1>3. CASE \E d \in Dirs, name \in Names : Transfer(d, name)
  <2>1. FilesInv'
    BY <1>1, <1>3, TransferFiles
  <2>2. mpc = "idle" /\ UNCHANGED <<entry, merger>>
    BY <1>3 DEF Transfer, builders
  <2>. QED  BY <2>1, <2>2, BuildMerge DEF MInv
<1>4. CASE StartMerge \/ ReadManifest \/ VerifyWheel \/ VerifySums \/ Join
  <2>1. FilesInv'
    BY <1>1, <1>4, MergeFiles DEF StartMerge, ReadManifest, VerifyWheel, VerifySums, Join
  <2>2. MergeInv'
    BY <1>4, StartMerged, ReadMerged, VerifyMerged, JoinMerged
  <2>. QED  BY <2>1, <2>2 DEF MInv
<1>5. CASE UNCHANGED vars
  BY <1>1, <1>5, MergeFiles, BuildMerge DEF MInv, vars, builders
<1>. QED  BY <1>2, <1>3, <1>4, <1>5 DEF Next

LEMMA AlwaysMerge == Spec => []MInv
<1>1. Init => MInv
  BY InitFiles DEF Init, MInv, MergeInv, MergingPcs, VerifiedPcs
<1>. QED  BY <1>1, MergeStepInv, PTL DEF Spec

\* Whatever builds died or overlapped, a merged manifest describes whole
\* wheels, each copied with the manifest of its own build.
THEOREM MergedTheorem == Spec => []MergedIsOneBuild
<1>1. MInv => MergedIsOneBuild
  BY DEF MInv, MergeInv, ManifestOf, WheelOf, MergedIsOneBuild
<1>. QED  BY <1>1, AlwaysMerge, PTL

\* Selection from a merged manifest gives an environment the wheel that was
\* built for it, if there is one, and otherwise none (merge, select_artifact).
THEOREM ExactTheorem == Spec => []SelectionIsExact
<1>1. ASSUME MInv PROVE SelectionIsExact
  <2>1. SUFFICES ASSUME NEW environment \in Environments
        PROVE  LET found == Selectable(merged, environment)
               IN  /\ \A a, other \in found : a = other
                   /\ \A a \in found : BuiltFor(a.digest, environment)
                   /\ \A a \in merged :
                         BuiltFor(a.digest, environment) /\ a.cuda = a.torchCuda => found = {a}
    BY DEF SelectionIsExact
  <2>. DEFINE matching == Matches(merged, environment)
              found == Selectable(merged, environment)
  <2>2. \A a, other \in matching : a = other
    BY <1>1 DEF MInv, MergeInv, Clashes, SameRuntime, Matches
  <2>3. found \subseteq matching /\ matching \subseteq merged
    BY DEF Selectable, Matches
  <2>4. ASSUME NEW a \in merged
        PROVE  /\ a.runtime = entry[a.digest].runtime
               /\ a.torchCuda = entry[a.digest].torchCuda
               /\ a.gpus = entry[a.digest].gpus
    <3>1. a = ArtifactOf(entry[a.digest], a.digest)
      BY <1>1, <2>4 DEF MInv, MergeInv, ManifestOf
    <3>2. QED
      BY <3>1 DEF ArtifactOf
  <2>5. ASSUME NEW a \in found PROVE BuiltFor(a.digest, environment)
    BY <2>3, <2>4, <2>5 DEF BuiltFor, Selectable, Matches
  <2>6. ASSUME NEW a \in merged, BuiltFor(a.digest, environment), a.cuda = a.torchCuda
        PROVE  found = {a}
    <3>1. a \in matching /\ environment.gpus \subseteq a.gpus
      BY <2>4, <2>6 DEF BuiltFor, Matches
    <3>2. matching = {a}
      BY <2>2, <3>1
    <3>3. Cardinality(matching) = 1
      BY <3>2, FS_Singleton
    <3>4. QED
      BY <3>1, <3>2, <3>3 DEF Selectable
  <2>7. QED
    BY <2>2, <2>3, <2>5, <2>6
<1>2. QED
  BY <1>1, AlwaysMerge, PTL

-----------------------------------------------------------------------------
(* When a merge fails.  A directory whose builds never overlap holds the   *)
(* files of one build, complete once it is done; and from then on they do  *)
(* not change, so that what was transferred is what is there.              *)

Began(b) == pc[b] \notin {"start", "refused"}
Apart == \A b, c \in Builds : ~Overlapped(b, c)

Whole(b) == [by |-> b, whole |-> TRUE]
Before == [sums |-> {"wheel", "manifest"}, manifest |-> {"wheel"}]
Installed(b) ==
    IF pc[b] = "done" THEN Kinds
    ELSE IF pc[b] \in {"sums", "manifest"} THEN Before[pc[b]] ELSE {}

(* Every file was written by a build that is past its check.               *)
WrittenInv ==
    /\ \A d \in Dirs, n \in Names : files[d][n] # Absent =>
          \E b \in Builds : /\ target[b] = d /\ files[d][n].by = b
                            /\ pc[b] \notin {"start", "refused", "building"}
    /\ \A d \in Dirs, n \in Names : copies[d][n] # Absent => d \in Finished

(* Where no two overlap, they are the files of the one build there.        *)
AloneInv ==
    /\ \A b \in Builds : \A kind \in Installed(b) :
          files[target[b]][NameOf(b, kind)] = Whole(b)
    /\ \A b \in Builds : opened[b] /\ pc[b] \in Kinds =>
          files[target[b]][NameOf(b, pc[b])].by = b
    /\ \A d \in Dirs, n \in Names : copies[d][n] # Absent => copies[d][n] = files[d][n]

OutInv == FilesInv /\ WrittenInv /\ (Apart => AloneInv)

LEMMA InstalledKinds == \A b : Installed(b) \subseteq Kinds
BY DEF Installed, Before, Kinds

LEMMA InitOut == Init => OutInv
<1> SUFFICES ASSUME Init PROVE OutInv
  OBVIOUS
<1>1. FilesInv
  BY InitFiles
<1>2. \A d \in Dirs, n \in Names : files[d][n] = Absent /\ copies[d][n] = Absent
  BY DEF Init, EmptyDirs
<1>3. \A b \in Builds : Installed(b) = {} /\ ~opened[b]
  BY DEF Init, Installed, Before
<1>. QED  BY <1>1, <1>2, <1>3 DEF OutInv, WrittenInv, AloneInv

(* Overlapping builds stay so, and a build that is done stays done.        *)
LEMMA StaysBegun ==
    ASSUME FilesInv, Next
    PROVE  /\ UNCHANGED <<entry, target>>
           /\ \A b \in Builds : Began(b) => pc'[b] \notin {"start", "refused"}
           /\ \A b \in Builds : pc[b] = "done" => pc'[b] = "done"
<1>1. CASE \E b \in Builds : CheckEmpty(b) \/ Validated(b) \/ Open(b) \/ Close(b) \/ Die(b)
  <2>1. PICK b \in Builds : CheckEmpty(b) \/ Validated(b) \/ Open(b) \/ Close(b) \/ Die(b)
    BY <1>1
  <2>2. UNCHANGED <<entry, target>>
    BY <2>1 DEF CheckEmpty, Validated, Open, Close, Die
  <2>3. /\ pc \in [Builds -> BuilderPcs]
        /\ \E v : pc' = [pc EXCEPT ![b] = v] /\ (Began(b) => v \notin {"start", "refused"})
        /\ pc[b] # "done"
    BY <2>1 DEF CheckEmpty, Validated, Open, Close, Die, Began, FilesInv, Kinds, Following
  <2>. QED  BY <2>2, <2>3 DEF Began
<1>2. CASE ~\E b \in Builds : CheckEmpty(b) \/ Validated(b) \/ Open(b) \/ Close(b) \/ Die(b)
  <2>1. UNCHANGED builders
    BY <1>2 DEF Next, Transfer, StartMerge, ReadManifest, VerifyWheel, VerifySums, Join
  <2>. QED  BY <2>1 DEF builders, Began
<1>. QED  BY <1>1, <1>2

LEMMA ApartBefore ==
    ASSUME FilesInv, Next, Apart' PROVE Apart
<1>1. ASSUME NEW b \in Builds, NEW c \in Builds, Overlapped(b, c)
      PROVE  Overlapped(b, c)'
  BY <1>1, StaysBegun DEF Overlapped, Began
<1>. QED  BY <1>1 DEF Apart

(* Where b works, no other build of its directory is done or has a file.   *)
LEMMA AloneThere ==
    ASSUME OutInv, Apart, NEW b \in Builds, Began(b),
           NEW c \in Builds, c # b, target[c] = target[b]
    PROVE  pc[c] \in {"start", "refused"} /\ Installed(c) = {} /\ ~(pc[c] \in Kinds)
<1>1. pc[c] \in {"start", "refused"}
  BY DEF Apart, Overlapped, Began
<1>. QED  BY <1>1 DEF Installed, Before, Kinds

LEMMA NotFinished ==
    ASSUME OutInv, Apart, NEW b \in Builds, Began(b), pc[b] # "done"
    PROVE  target[b] \notin Finished /\ \A n \in Names : copies[target[b]][n] = Absent
<1>1. target[b] \in Dirs
  BY DEF OutInv, FilesInv
<1>2. target[b] \notin Finished
  BY AloneThere DEF Finished
<1>. QED  BY <1>1, <1>2 DEF OutInv, WrittenInv

LEMMA NamesDiffer ==
    ASSUME FilesInv, NEW b \in Builds, NEW kind \in Kinds, NEW other \in Kinds,
           NameOf(b, kind) = NameOf(b, other)
    PROVE  kind = other
<1>1. entry[b].asset \in Assets
  BY DEF FilesInv, Assets
<1>2. entry[b].asset \notin {"manifest", "sums"}
  BY <1>1, OutputAssumption
<1>. QED  BY <1>2 DEF NameOf, Kinds

LEMMA BeforeInstallOut ==
    ASSUME OutInv, NEW b \in Builds, CheckEmpty(b) \/ Validated(b), Next
    PROVE  OutInv'
<1>1. /\ FilesInv /\ FilesInv' /\ UNCHANGED <<entry, target, opened, files, copies>>
      /\ pc \in [Builds -> BuilderPcs]
  BY BeforeInstallFiles DEF OutInv, FilesInv, CheckEmpty, Validated
<1>2. /\ pc[b] \in {"start", "building"} /\ pc'[b] \in {"building", "refused", "wheel"}
      /\ \A c \in Builds : c # b => pc'[c] = pc[c]
  BY <1>1 DEF CheckEmpty, Validated
<1>3. ~opened[b]
  BY <1>1, <1>2 DEF FilesInv, Kinds
<1>4. Finished' = Finished
  BY <1>1, <1>2 DEF Finished
<1>5. WrittenInv'
  BY <1>1, <1>2, <1>4 DEF OutInv, WrittenInv
<1>6. ASSUME Apart' PROVE AloneInv'
  <2>1. AloneInv
    BY <1>1, <1>6, ApartBefore DEF OutInv
  <2>2. Installed(b)' = {} /\ \A c \in Builds : c # b => Installed(c)' = Installed(c)
    BY <1>2 DEF Installed, Before, Kinds
  <2>. QED  BY <1>1, <1>2, <1>3, <2>1, <2>2 DEF AloneInv, NameOf, Whole
<1>. QED  BY <1>1, <1>5, <1>6 DEF OutInv

LEMMA OpenOut ==
    ASSUME OutInv, NEW b \in Builds, Open(b), Next
    PROVE  OutInv'
<1> DEFINE d == target[b]
           name == NameOf(b, pc[b])
           file == [by |-> b, whole |-> FALSE]
<1>1. /\ FilesInv /\ FilesInv' /\ d \in Dirs /\ name \in Names /\ pc[b] \in Kinds
  BY OpenFiles, KindNames DEF OutInv, FilesInv, Open
<1>2. /\ UNCHANGED <<entry, target, pc, copies>> /\ files' = [files EXCEPT ![d][name] = file]
      /\ opened' = [opened EXCEPT ![b] = TRUE]
  BY DEF Open
<1>3. \A e \in Dirs, n \in Names : files'[e][n] = IF e = d /\ n = name THEN file ELSE files[e][n]
  BY <1>1, <1>2 DEF FilesInv, FileSets
<1>4. Finished' = Finished /\ \A c \in Builds : Installed(c)' = Installed(c)
  BY <1>2 DEF Finished, Installed, Before
<1>5. pc[b] \notin {"start", "refused", "building", "done"} /\ Began(b)
  BY <1>1 DEF Kinds, Began
<1>6. \A c \in Builds : opened'[c] => c = b \/ opened[c]
  BY <1>1, <1>2 DEF FilesInv
<1>7. WrittenInv'
  <2>1. ASSUME NEW e \in Dirs, NEW n \in Names, files'[e][n] # Absent
        PROVE  \E c \in Builds : /\ target[c] = e /\ files'[e][n].by = c
                                 /\ pc[c] \notin {"start", "refused", "building"}
    <3>1. CASE e = d /\ n = name
      BY <1>3, <1>5, <3>1
    <3>2. CASE ~(e = d /\ n = name)
      <4>1. files'[e][n] = files[e][n]
        BY <1>3, <3>2
      <4>. QED  BY <2>1, <4>1 DEF OutInv, WrittenInv
    <3>. QED  BY <3>1, <3>2
  <2>. QED  BY <1>2, <1>4, <2>1 DEF OutInv, WrittenInv
<1>8. ASSUME Apart' PROVE AloneInv'
  <2>1. Apart /\ AloneInv
    BY <1>1, <1>8, ApartBefore DEF OutInv
  <2>2. ASSUME NEW c \in Builds, NEW kind \in Installed(c)
        PROVE  files'[target[c]][NameOf(c, kind)] = Whole(c)
    <3>1. /\ files[target[c]][NameOf(c, kind)] = Whole(c)
          /\ target[c] \in Dirs /\ kind \in Kinds /\ NameOf(c, kind) \in Names
      BY <1>1, <2>1, KindNames, InstalledKinds DEF AloneInv, FilesInv
    <3>2. CASE c = b
      <4>1. kind # pc[b]
        BY <1>1, <2>2, <3>2 DEF Installed, Before, Kinds
      <4>2. NameOf(c, kind) # name
        BY <1>1, <3>1, <3>2, <4>1, NamesDiffer
      <4>. QED  BY <1>3, <3>1, <4>2
    <3>3. CASE c # b
      <4>1. target[c] # d
        BY <1>5, <2>1, <2>2, <3>3, AloneThere
      <4>. QED  BY <1>3, <3>1, <4>1
    <3>. QED  BY <3>2, <3>3
  <2>3. ASSUME NEW c \in Builds, opened'[c], pc[c] \in Kinds
        PROVE  files'[target[c]][NameOf(c, pc[c])].by = c
    <3>1. target[c] \in Dirs /\ NameOf(c, pc[c]) \in Names
      BY <1>1, <2>3, KindNames DEF FilesInv
    <3>2. CASE c = b
      BY <1>3, <3>1, <3>2
    <3>3. CASE c # b
      <4>1. target[c] # d
        BY <1>5, <2>1, <2>3, <3>3, AloneThere
      <4>2. opened[c]
        BY <1>6, <2>3, <3>3
      <4>. QED  BY <1>3, <2>1, <2>3, <3>1, <4>1, <4>2 DEF AloneInv
    <3>. QED  BY <3>2, <3>3
  <2>4. ASSUME NEW e \in Dirs, NEW n \in Names, copies[e][n] # Absent
        PROVE  copies[e][n] = files'[e][n]
    <3>1. e # d
      BY <1>5, <2>1, <2>4, NotFinished
    <3>. QED  BY <1>3, <2>1, <2>4, <3>1 DEF AloneInv
  <2>5. \A c \in Builds : \A kind : NameOf(c, kind)' = NameOf(c, kind) /\ Whole(c)' = Whole(c)
    BY <1>2 DEF NameOf, Whole
  <2>6. \A c \in Builds : \A kind \in Installed(c)' :
           files'[target'[c]][NameOf(c, kind)'] = Whole(c)'
    BY <1>2, <1>4, <2>2, <2>5
  <2>7. \A c \in Builds : opened'[c] /\ pc'[c] \in Kinds =>
           files'[target'[c]][NameOf(c, pc[c])'].by = c
    BY <1>2, <2>3, <2>5
  <2>. QED  BY <1>2, <2>4, <2>6, <2>7 DEF AloneInv
<1>. QED  BY <1>1, <1>7, <1>8 DEF OutInv

LEMMA CloseOut ==
    ASSUME OutInv, NEW b \in Builds, Close(b), Next
    PROVE  OutInv'
<1> DEFINE d == target[b]
           name == NameOf(b, pc[b])
           file == files[d][name]
<1>1. /\ FilesInv /\ FilesInv' /\ d \in Dirs /\ pc[b] \in Kinds /\ opened[b]
      /\ name \in Names /\ file \in Files
  <2>1. FilesInv /\ FilesInv' /\ pc[b] \in Kinds /\ opened[b]
    BY CloseFiles DEF OutInv, Close
  <2>. QED  BY <2>1, KindNames DEF FilesInv, FileSets
<1>2. /\ UNCHANGED <<entry, target, copies>> /\ opened' = [opened EXCEPT ![b] = FALSE]
      /\ pc' = [pc EXCEPT ![b] = Following[pc[b]]]
      /\ files' = IF file.by = b THEN [files EXCEPT ![d][name].whole = TRUE] ELSE files
  BY DEF Close
<1>3. \A e \in Dirs, n \in Names :
         files'[e][n] = IF e = d /\ n = name /\ file.by = b THEN Whole(b) ELSE files[e][n]
  <2>1. CASE file.by # b
    BY <1>2, <2>1
  <2>2. CASE file.by = b
    <3>1. files' = [files EXCEPT ![d] = [files[d] EXCEPT ![name] = [file EXCEPT !.whole = TRUE]]]
      BY <1>1, <1>2, <2>2
    <3>2. [file EXCEPT !.whole = TRUE] = Whole(b)
      <4>1. ASSUME NEW f \in Files, f.by = b
            PROVE  [f EXCEPT !.whole = TRUE] = [by |-> b, whole |-> TRUE]
        <5> DEFINE g == [f EXCEPT !.whole = TRUE]
        <5>1. g \in Files /\ g.by = b /\ g.whole = TRUE
          BY <4>1 DEF Files
        <5> HIDE DEF g
        <5>2. g = [by |-> b, whole |-> TRUE]
          BY <5>1 DEF Files
        <5>. QED  BY <5>2 DEF g
      <4> HIDE DEF file
      <4>. QED  BY <1>1, <2>2, <4>1 DEF Whole
    <3> HIDE DEF d, name, file
    <3>. QED  BY <1>1, <2>2, <3>1, <3>2 DEF FilesInv, FileSets
  <2>. QED  BY <2>1, <2>2
<1>4. /\ \A c \in Builds : c # b => pc'[c] = pc[c] /\ opened'[c] = opened[c]
      /\ pc'[b] = Following[pc[b]] /\ ~opened'[b]
  BY <1>1, <1>2 DEF FilesInv
<1>5. pc[b] \notin {"start", "refused", "building", "done"} /\ Began(b)
      /\ pc'[b] \notin {"start", "refused", "building"}
  BY <1>1, <1>4 DEF Kinds, Began, Following
<1>6. Finished \subseteq Finished'
  BY <1>2, <1>4, <1>5 DEF Finished
<1>7. \A c \in Builds : \A kind \in Installed(c)' : kind \in Installed(c) \/ (c = b /\ kind = pc[b])
  BY <1>1, <1>4 DEF Installed, Before, Kinds, Following
<1>8. WrittenInv'
  <2>1. ASSUME NEW e \in Dirs, NEW n \in Names, files'[e][n] # Absent
        PROVE  \E c \in Builds : /\ target[c] = e /\ files'[e][n].by = c
                                 /\ pc'[c] \notin {"start", "refused", "building"}
    <3>1. CASE e = d /\ n = name /\ file.by = b
      BY <1>3, <1>5, <3>1 DEF Whole
    <3>2. CASE ~(e = d /\ n = name /\ file.by = b)
      <4>1. files'[e][n] = files[e][n]
        BY <1>3, <3>2
      <4>. QED  BY <1>4, <1>5, <2>1, <4>1 DEF OutInv, WrittenInv
    <3>. QED  BY <3>1, <3>2
  <2>2. \A e \in Dirs, n \in Names : copies[e][n] # Absent => e \in Finished
    BY DEF OutInv, WrittenInv
  <2>. QED  BY <1>2, <1>6, <2>1, <2>2 DEF WrittenInv
<1>9. ASSUME Apart' PROVE AloneInv'
  <2>1. Apart /\ AloneInv
    BY <1>1, <1>9, ApartBefore DEF OutInv
  <2>2. file.by = b
    BY <1>1, <2>1 DEF AloneInv
  <2>3. ASSUME NEW c \in Builds, NEW kind \in Installed(c)'
        PROVE  files'[target[c]][NameOf(c, kind)] = Whole(c)
    <3>0. kind \in Kinds
      BY <2>3, <1>7, <1>1, InstalledKinds
    <3>1. kind \in Kinds /\ target[c] \in Dirs /\ NameOf(c, kind) \in Names
      BY <1>1, <3>0, KindNames DEF FilesInv
    <3>2. CASE kind \in Installed(c)
      BY <1>3, <2>1, <2>2, <3>1, <3>2 DEF AloneInv, Whole
    <3>3. CASE c = b /\ kind = pc[b]
      BY <1>3, <2>2, <3>1, <3>3
    <3>. QED  BY <1>7, <2>3, <3>2, <3>3
  <2>4. ASSUME NEW c \in Builds, opened'[c], pc'[c] \in Kinds
        PROVE  files'[target[c]][NameOf(c, pc'[c])].by = c
    <3>1. c # b /\ opened[c] /\ pc'[c] = pc[c]
      BY <1>4, <2>4
    <3>2. target[c] \in Dirs /\ NameOf(c, pc[c]) \in Names
      BY <1>1, <2>4, <3>1, KindNames DEF FilesInv
    <3>3. target[c] # d
      BY <1>5, <2>1, <2>4, <3>1, AloneThere
    <3>. QED  BY <1>3, <2>1, <2>4, <3>1, <3>2, <3>3 DEF AloneInv
  <2>5. ASSUME NEW e \in Dirs, NEW n \in Names, copies[e][n] # Absent
        PROVE  copies[e][n] = files'[e][n]
    <3>1. e # d
      BY <1>5, <2>1, <2>5, NotFinished
    <3>. QED  BY <1>3, <2>1, <2>5, <3>1 DEF AloneInv
  <2>6. \A c \in Builds : \A kind : NameOf(c, kind)' = NameOf(c, kind) /\ Whole(c)' = Whole(c)
    BY <1>2 DEF NameOf, Whole
  <2>7. \A c \in Builds : \A kind \in Installed(c)' :
           files'[target'[c]][NameOf(c, kind)'] = Whole(c)'
    BY <1>2, <2>3, <2>6
  <2>8. \A c \in Builds : opened'[c] /\ pc'[c] \in Kinds =>
           files'[target'[c]][NameOf(c, pc[c])'].by = c
    <3>1. \A c \in Builds : NameOf(c, pc[c])' = NameOf(c, pc'[c])
      BY <1>2 DEF NameOf
    <3>. QED  BY <1>2, <2>4, <3>1
  <2>9. \A e \in Dirs, n \in Names : copies'[e][n] # Absent => copies'[e][n] = files'[e][n]
    BY <1>2, <2>5
  <2>. QED  BY <2>7, <2>8, <2>9 DEF AloneInv
<1>. QED  BY <1>1, <1>8, <1>9 DEF OutInv

LEMMA DieOut ==
    ASSUME OutInv, NEW b \in Builds, Die(b), Next
    PROVE  OutInv'
<1>1. /\ FilesInv /\ FilesInv' /\ UNCHANGED <<entry, target, opened, files, copies>>
      /\ pc[b] \notin {"start", "refused", "done"} /\ pc'[b] = "died"
      /\ \A c \in Builds : c # b => pc'[c] = pc[c]
  BY DieFiles DEF OutInv, FilesInv, Die
<1>2. Finished' = Finished
  BY <1>1 DEF Finished
<1>3. WrittenInv'
  BY <1>1, <1>2 DEF OutInv, WrittenInv
<1>4. ASSUME Apart' PROVE AloneInv'
  <2>1. AloneInv
    BY <1>1, <1>4, ApartBefore DEF OutInv
  <2>2. Installed(b)' = {} /\ \A c \in Builds : c # b => Installed(c)' = Installed(c)
    BY <1>1 DEF Installed, Before
  <2>. QED  BY <1>1, <2>1, <2>2 DEF AloneInv, NameOf, Whole, Kinds
<1>. QED  BY <1>1, <1>3, <1>4 DEF OutInv

LEMMA TransferOut ==
    ASSUME OutInv, NEW d \in Dirs, NEW name \in Names, Transfer(d, name), Next
    PROVE  OutInv'
<1>1. /\ FilesInv /\ FilesInv' /\ UNCHANGED builders /\ d \in Finished
      /\ copies' = [copies EXCEPT ![d][name] = files[d][name]]
  BY TransferFiles DEF OutInv, Transfer, Finished
<1>2. \A e \in Dirs, n \in Names :
         copies'[e][n] = IF e = d /\ n = name THEN files[d][name] ELSE copies[e][n]
  BY <1>1 DEF FilesInv, FileSets
<1>3. WrittenInv'
  BY <1>1, <1>2 DEF OutInv, WrittenInv, builders, Finished
<1>4. ASSUME Apart' PROVE AloneInv'
  <2>1. AloneInv
    BY <1>1, <1>4, ApartBefore DEF OutInv
  <2>. QED  BY <1>1, <1>2, <2>1 DEF AloneInv, NameOf, Whole, Installed, Before, builders
<1>. QED  BY <1>1, <1>3, <1>4 DEF OutInv

LEMMA RestOut ==
    ASSUME OutInv, UNCHANGED <<builders, copies>>
    PROVE  OutInv'
BY MergeFiles DEF OutInv, WrittenInv, AloneInv, Apart, Overlapped, Finished, NameOf, Whole,
                  Installed, builders

LEMMA OutStep == OutInv /\ [Next]_vars => OutInv'
<1> SUFFICES ASSUME OutInv, [Next]_vars PROVE OutInv'
  OBVIOUS
<1>1. CASE UNCHANGED vars
  BY <1>1, RestOut DEF vars, builders
<1>2. CASE Next
  <2>1. CASE \E b \in Builds : CheckEmpty(b) \/ Validated(b) \/ Open(b) \/ Close(b) \/ Die(b)
    BY <1>2, <2>1, BeforeInstallOut, OpenOut, CloseOut, DieOut
  <2>2. CASE \E d \in Dirs, name \in Names : Transfer(d, name)
    BY <1>2, <2>2, TransferOut
  <2>3. CASE StartMerge \/ ReadManifest \/ VerifyWheel \/ VerifySums \/ Join
    BY <2>3, RestOut DEF StartMerge, ReadManifest, VerifyWheel, VerifySums, Join
  <2>. QED  BY <1>2, <2>1, <2>2, <2>3 DEF Next
<1>. QED  BY <1>1, <1>2

(* The merge takes every finished directory once, and under Apart finds in *)
(* each of them the files of its one build.                                *)
Copied(d) ==
    \A b \in Builds : target[b] = d /\ pc[b] = "done" =>
        \A kind \in Kinds : copies[d][NameOf(b, kind)] = Whole(b)

QueueInv ==
    mpc \in MergingPcs =>
        /\ \A i \in DOMAIN queue : queue[i] \in Finished
        /\ \A i, j \in DOMAIN queue : queue[i] = queue[j] => i = j

Describes(b, artifact) == pc[b] = "done" /\ artifact = ArtifactOf(entry[b], b)

TakenInv ==
    /\ mpc \in MergingPcs => \A i \in DOMAIN queue : Copied(queue[i])
    /\ mpc \in VerifiedPcs =>
          \E b \in Builds : Describes(b, manifest) /\ target[b] = Head(queue)
    /\ \A artifact \in merged : \E b \in Builds :
          /\ Describes(b, artifact)
          /\ mpc \in MergingPcs => \A i \in DOMAIN queue : queue[i] # target[b]
    /\ mpc = "failed" => \E b, c \in Builds : Clashing(b, c)

FailInv == MInv /\ OutInv /\ QueueInv /\ (Apart => TakenInv)

(* Builds and transfers: a merge under way does not notice.                *)
LEMMA BuildFail ==
    ASSUME FailInv, UNCHANGED merger, mpc # "idle" => UNCHANGED copies, Next
    PROVE  QueueInv' /\ (Apart' => TakenInv')
<1>1. /\ UNCHANGED <<entry, target, mpc, queue, manifest, merged>> /\ FilesInv
      /\ \A b \in Builds : pc[b] = "done" => pc'[b] = "done"
      /\ \A b \in Builds : Began(b) => pc'[b] \notin {"start", "refused"}
  BY StaysBegun DEF FailInv, OutInv, merger
<1>2. Finished \subseteq Finished'
  BY <1>1 DEF Finished
<1>3. QueueInv'
  BY <1>1, <1>2 DEF FailInv, QueueInv
<1>4. ASSUME Apart' PROVE TakenInv'
  <2>1. Apart /\ TakenInv
    BY <1>1, <1>4, ApartBefore DEF FailInv
  <2>2. ASSUME mpc \in MergingPcs, NEW i \in DOMAIN queue
        PROVE  Copied(queue[i])'
    <3>1. PICK b \in Builds : target[b] = queue[i] /\ pc[b] = "done"
      BY <2>2 DEF FailInv, QueueInv, Finished
    <3>2. ASSUME NEW c \in Builds, target[c] = queue[i], pc'[c] = "done" PROVE c = b
      <4>1. pc'[b] = "done" /\ target' = target
        BY <1>1, <3>1
      <4>. QED  BY <1>4, <3>1, <3>2, <4>1 DEF Apart, Overlapped
    <3>3. \A kind \in Kinds : copies[queue[i]][NameOf(b, kind)] = Whole(b)
      BY <2>1, <2>2, <3>1 DEF TakenInv, Copied
    <3>4. copies' = copies
      BY <2>2 DEF MergingPcs
    <3>. QED  BY <1>1, <3>2, <3>3, <3>4 DEF Copied, NameOf, Whole
  <2>3. mpc \in VerifiedPcs =>
           \E b \in Builds : Describes(b, manifest)' /\ target[b] = Head(queue)
    BY <1>1, <2>1 DEF TakenInv, Describes
  <2>4. \A artifact \in merged : \E b \in Builds :
          /\ Describes(b, artifact)'
          /\ mpc \in MergingPcs => \A i \in DOMAIN queue : queue[i] # target[b]
    BY <1>1, <2>1 DEF TakenInv, Describes
  <2>5. mpc = "failed" => \E b, c \in Builds : Clashing(b, c)'
    BY <1>1, <2>1 DEF TakenInv, Clashing
  <2>. QED  BY <1>1, <2>2, <2>3, <2>4, <2>5 DEF TakenInv
<1>. QED  BY <1>3, <1>4

LEMMA StartFail ==
    ASSUME FailInv, StartMerge
    PROVE  QueueInv' /\ (Apart' => TakenInv')
<1>1. /\ UNCHANGED <<entry, target, pc, files, copies, manifest, merged>>
      /\ mpc = "idle" /\ mpc' = "manifest" /\ merged = {}
      /\ \A d \in Finished : Transferred(d)
  BY DEF StartMerge, builders, FailInv, MInv, MergeInv
<1>2. PICK order \in [1 .. Cardinality(Finished) -> Finished] :
         /\ \A d \in Finished : \E i \in DOMAIN order : order[i] = d
         /\ queue' = order
  BY DEF StartMerge
<1>3. \A i, j \in DOMAIN order : order[i] = order[j] => i = j
  <2> DEFINE n == Cardinality(Finished)
  <2>1. IsFiniteSet(Finished) /\ n \in Nat
    BY FS_Subset, FS_CardinalityType, OutputAssumption DEF Finished
  <2>2. IsFiniteSet(1 .. n) /\ Cardinality(1 .. n) = n
    BY <2>1, FS_Interval
  <2>3. order \in Surjection(1 .. n, Finished)
    BY <1>2 DEF Surjection
  <2>4. order \in Injection(1 .. n, Finished)
    BY <2>1, <2>2, <2>3, FS_SurjSameCardinalityImpliesInj
  <2>. QED  BY <1>2, <2>4 DEF Injection, IsInjective
<1>4. Finished' = Finished
  BY <1>1 DEF Finished
<1>5. QueueInv'
  BY <1>2, <1>3, <1>4 DEF QueueInv
<1>6. ASSUME Apart' PROVE TakenInv'
  <2>1. AloneInv
    BY <1>1, <1>6 DEF FailInv, OutInv, Apart, Overlapped
  <2>2. ASSUME NEW d \in Finished PROVE Copied(d)'
    <3>1. ASSUME NEW b \in Builds, target[b] = d, pc[b] = "done", NEW kind \in Kinds
          PROVE  copies[d][NameOf(b, kind)] = Whole(b)
      <4>1. files[d][NameOf(b, kind)] = Whole(b)
        BY <2>1, <3>1 DEF AloneInv, Installed, Before
      <4>2. NameOf(b, kind) \in Names /\ d \in Dirs /\ Whole(b) # Absent
        <5>1. FilesInv /\ Whole(b) \in Files
          BY DEF FailInv, OutInv, Whole, Files
        <5>. QED  BY <5>1, KindNames, OutputAssumption DEF Finished
      <4>3. copies[d][NameOf(b, kind)] # Absent
        BY <1>1, <4>1, <4>2 DEF Transferred
      <4>. QED  BY <2>1, <4>1, <4>2, <4>3 DEF AloneInv
    <3>. QED  BY <1>1, <3>1 DEF Copied, NameOf, Whole
  <2>. QED  BY <1>1, <1>2, <2>2 DEF TakenInv, VerifiedPcs
<1>. QED  BY <1>5, <1>6

(* A directory whose manifest is read has one finished build, and its copy *)
(* is that build's: reading and verifying it cannot fail.                  *)
LEMMA HeadCopied ==
    ASSUME FailInv, TakenInv, mpc \in MergingPcs
    PROVE  \E b \in Builds : /\ pc[b] = "done" /\ target[b] = Head(queue)
                             /\ \A kind \in Kinds : Copy(NameOf(b, kind)) = Whole(b)
<1>1. queue \in Seq(Dirs) /\ queue # <<>>
  BY DEF FailInv, MInv, MergeInv
<1>2. 1 \in DOMAIN queue /\ Head(queue) = queue[1]
  BY <1>1
<1>3. queue[1] \in Finished /\ Copied(queue[1])
  BY <1>2 DEF FailInv, QueueInv, TakenInv
<1>4. PICK b \in Builds : target[b] = queue[1] /\ pc[b] = "done"
  BY <1>3 DEF Finished
<1>. QED  BY <1>2, <1>3, <1>4 DEF Copied, Copy

LEMMA ReadFail ==
    ASSUME FailInv, ReadManifest
    PROVE  QueueInv' /\ (Apart' => TakenInv')
<1> DEFINE file == Copy("manifest")
           ok == file # Absent /\ file.whole
<1>1. /\ mpc = "manifest" /\ mpc' = (IF ok THEN "wheel" ELSE "failed")
      /\ manifest' = (IF ok THEN ArtifactOf(entry[file.by], file.by) ELSE Absent)
      /\ UNCHANGED <<entry, target, pc, opened, files, copies, queue, merged>>
  BY DEF ReadManifest, MergeStep, builders
<1>2. QueueInv'
  BY <1>1 DEF FailInv, QueueInv, MergingPcs, Finished
<1>3. ASSUME Apart' PROVE TakenInv'
  <2>1. TakenInv
    BY <1>1, <1>3 DEF FailInv, Apart, Overlapped
  <2>2. PICK b \in Builds : /\ pc[b] = "done" /\ target[b] = Head(queue)
                           /\ \A kind \in Kinds : Copy(NameOf(b, kind)) = Whole(b)
    BY <1>1, <2>1, HeadCopied DEF MergingPcs
  <2>3. file = Whole(b) /\ Whole(b) # Absent
    <3>1. Whole(b) \in Files /\ "manifest" \in Kinds /\ NameOf(b, "manifest") = "manifest"
      BY DEF Kinds, NameOf, Whole, Files
    <3>. QED  BY <2>2, <3>1, OutputAssumption
  <2>4. mpc' = "wheel" /\ manifest' = ArtifactOf(entry[b], b)
    BY <1>1, <2>3 DEF Whole
  <2>5. \E c \in Builds : Describes(c, manifest)' /\ target'[c] = Head(queue')
    BY <1>1, <2>2, <2>4 DEF Describes
  <2>. QED  BY <1>1, <2>1, <2>4, <2>5
            DEF TakenInv, MergingPcs, VerifiedPcs, Copied, Describes, NameOf, Whole
<1>. QED  BY <1>2, <1>3

(* The build whose manifest was read is the one whose files were copied.   *)
LEMMA HeadDescribed ==
    ASSUME FailInv, TakenInv, Apart, mpc \in VerifiedPcs
    PROVE  \E b \in Builds : /\ Describes(b, manifest) /\ target[b] = Head(queue)
                             /\ \A kind \in Kinds : Copy(NameOf(b, kind)) = Whole(b)
<1>1. PICK b \in Builds : Describes(b, manifest) /\ target[b] = Head(queue)
  BY DEF TakenInv
<1>2. PICK c \in Builds : /\ pc[c] = "done" /\ target[c] = Head(queue)
                         /\ \A kind \in Kinds : Copy(NameOf(c, kind)) = Whole(c)
  BY HeadCopied DEF MergingPcs, VerifiedPcs
<1>3. b = c
  BY <1>1, <1>2 DEF Apart, Overlapped, Describes
<1>. QED  BY <1>1, <1>2, <1>3

LEMMA VerifyFail ==
    ASSUME FailInv, VerifyWheel \/ VerifySums
    PROVE  QueueInv' /\ (Apart' => TakenInv')
<1>1. /\ mpc \in {"wheel", "sums"} /\ mpc' \in {"sums", "join", "failed"}
      /\ UNCHANGED <<entry, target, pc, opened, files, copies, queue, manifest, merged>>
  BY DEF VerifyWheel, VerifySums, MergeStep, builders
<1>2. QueueInv'
  BY <1>1 DEF FailInv, QueueInv, MergingPcs, Finished
<1>3. ASSUME Apart' PROVE TakenInv'
  <2>1. TakenInv /\ Apart
    BY <1>1, <1>3 DEF FailInv, Apart, Overlapped
  <2>2. PICK b \in Builds : /\ Describes(b, manifest) /\ target[b] = Head(queue)
                           /\ \A kind \in Kinds : Copy(NameOf(b, kind)) = Whole(b)
    BY <1>1, <2>1, HeadDescribed DEF VerifiedPcs
  <2>3. manifest.digest = b /\ manifest.asset = NameOf(b, "wheel")
    BY <2>2 DEF Describes, ArtifactOf, NameOf
  <2>4. Copy(manifest.asset) = Whole(b) /\ Copy("sums") = Whole(b)
    BY <2>2, <2>3 DEF Kinds, NameOf
  <2>5. mpc' \in {"sums", "join"}
    BY <2>3, <2>4 DEF VerifyWheel, VerifySums, MergeStep, Whole
  <2>. QED  BY <1>1, <2>1, <2>5
            DEF TakenInv, MergingPcs, VerifiedPcs, Copied, Describes, NameOf, Whole
<1>. QED  BY <1>2, <1>3

LEMMA JoinFail ==
    ASSUME FailInv, Join
    PROVE  QueueInv' /\ (Apart' => TakenInv')
<1>1. /\ mpc = "join" /\ UNCHANGED <<entry, target, pc, opened, files, copies>>
      /\ queue' = Tail(queue)
      /\ mpc' = (IF CanJoin(manifest, merged) THEN IF Len(queue) = 1 THEN "merged" ELSE "manifest"
                 ELSE "failed")
      /\ merged' = (IF CanJoin(manifest, merged) THEN merged \cup {manifest} ELSE merged)
  BY DEF Join, MergeStep, builders
<1>2. queue \in Seq(Dirs) /\ queue # <<>>
  BY <1>1 DEF FailInv, MInv, MergeInv, MergingPcs
<1>3. /\ \A i \in DOMAIN queue' : i + 1 \in DOMAIN queue /\ queue'[i] = queue[i + 1] /\ i + 1 # 1
      /\ 1 \in DOMAIN queue /\ Head(queue) = queue[1] /\ DOMAIN queue \subseteq Int
      /\ DOMAIN queue' \subseteq Int
  BY <1>1, <1>2
<1>4. /\ \A i \in DOMAIN queue : queue[i] \in Finished
      /\ \A i, j \in DOMAIN queue : queue[i] = queue[j] => i = j
  BY <1>1 DEF FailInv, QueueInv, MergingPcs
<1>5. QueueInv'
  <2>1. \A i, j \in DOMAIN queue' : queue'[i] = queue'[j] => i + 1 = j + 1
    BY <1>3, <1>4
  <2>2. \A i, j \in DOMAIN queue' : i + 1 = j + 1 => i = j
    BY <1>3
  <2>. QED  BY <1>1, <1>3, <1>4, <2>1, <2>2 DEF QueueInv, Finished
<1>6. ASSUME Apart' PROVE TakenInv'
  <2>1. TakenInv /\ Apart
    BY <1>1, <1>6 DEF FailInv, Apart, Overlapped
  <2>2. PICK b \in Builds : Describes(b, manifest) /\ target[b] = Head(queue)
    BY <1>1, <2>1 DEF TakenInv, VerifiedPcs
  <2>3. \A i \in DOMAIN queue' : queue'[i] # target[b]
    BY <1>3, <1>4, <2>2
  <2>4. \A artifact \in merged : \E c \in Builds :
          Describes(c, artifact) /\ \A i \in DOMAIN queue : queue[i] # target[c]
    BY <1>1, <2>1 DEF TakenInv, MergingPcs
  <2>5. \A artifact \in merged' : \E c \in Builds :
          Describes(c, artifact) /\ \A i \in DOMAIN queue' : queue'[i] # target[c]
    BY <1>1, <1>3, <2>2, <2>3, <2>4
  <2>6. ASSUME ~CanJoin(manifest, merged) PROVE \E c, e \in Builds : Clashing(c, e)
    <3>1. PICK artifact \in merged : Clashes(manifest, artifact)
      BY <2>6 DEF CanJoin
    <3>2. PICK c \in Builds :
             Describes(c, artifact) /\ \A i \in DOMAIN queue : queue[i] # target[c]
      BY <2>4
    <3>3. c # b
      BY <1>3, <2>2, <3>2
    <3>. QED  BY <2>2, <3>1, <3>2, <3>3 DEF Clashing, Describes
  <2>7. \A i \in DOMAIN queue' : Copied(queue'[i])
    BY <1>1, <1>3, <2>1 DEF TakenInv, MergingPcs
  <2>9. \A i \in DOMAIN queue' : Copied(queue[i])'
    BY <1>1, <2>7 DEF Copied, NameOf, Whole
  <2>10. mpc' = "failed" => \E c, e \in Builds : Clashing(c, e)'
    BY <1>1, <2>6 DEF Clashing
  <2>11. mpc' \notin VerifiedPcs
    BY <1>1 DEF VerifiedPcs
  <2>. QED  BY <1>1, <2>5, <2>9, <2>10, <2>11 DEF TakenInv, Describes
<1>. QED  BY <1>5, <1>6

LEMMA FailStep == FailInv /\ [Next]_vars => FailInv'
<1> SUFFICES ASSUME FailInv, [Next]_vars PROVE FailInv'
  OBVIOUS
<1>1. MInv' /\ OutInv'
  BY MergeStepInv, OutStep DEF FailInv
<1>2. QueueInv' /\ (Apart' => TakenInv')
  <2>1. CASE \E b \in Builds : CheckEmpty(b) \/ Validated(b) \/ Open(b) \/ Close(b) \/ Die(b)
    <3>1. UNCHANGED merger /\ UNCHANGED copies /\ Next
      BY <2>1 DEF CheckEmpty, Validated, Open, Close, Die, Next
    <3>. QED  BY <3>1, BuildFail
  <2>2. CASE \E d \in Dirs, name \in Names : Transfer(d, name)
    <3>1. UNCHANGED merger /\ mpc = "idle" /\ Next
      BY <2>2 DEF Transfer, Next
    <3>. QED  BY <3>1, BuildFail
  <2>3. CASE StartMerge \/ ReadManifest \/ VerifyWheel \/ VerifySums \/ Join
    BY <2>3, StartFail, ReadFail, VerifyFail, JoinFail
  <2>4. CASE UNCHANGED vars
    BY <2>4 DEF vars, builders, merger, FailInv, QueueInv, TakenInv, Apart, Overlapped, Finished,
                Copied, Describes, Clashing, NameOf, Whole
  <2>. QED  BY <2>1, <2>2, <2>3, <2>4 DEF Next
<1>. QED  BY <1>1, <1>2 DEF FailInv

(* A merge says no only where two builds found the same directory empty,   *)
(* or two that succeeded clash: for any number of builds and directories,  *)
(* in whatever order their files are copied and merged.                    *)
THEOREM ReasonTheorem == Spec => []MergeFailsForAReason
<1>1. Init => FailInv
  <2> SUFFICES ASSUME Init PROVE FailInv
    OBVIOUS
  <2>1. MInv /\ OutInv
    BY InitFiles, InitOut DEF Init, MInv, MergeInv, MergingPcs, VerifiedPcs
  <2>2. QueueInv /\ TakenInv
    BY DEF Init, QueueInv, TakenInv, MergingPcs, VerifiedPcs
  <2>. QED  BY <2>1, <2>2 DEF FailInv
<1>2. FailInv => MergeFailsForAReason
  BY DEF FailInv, TakenInv, Apart, MergeFailsForAReason
<1>. QED  BY <1>1, <1>2, FailStep, PTL DEF Spec

-----------------------------------------------------------------------------
(* The merge ends.  Each of its steps leaves less to be done: the manifests*)
(* still to be read, and the checks of the one it is at.                   *)
ChecksDone == [manifest |-> 0, wheel |-> 1, sums |-> 2, join |-> 3]
MergeWork == IF mpc \in MergingPcs THEN 4 * Len(queue) - ChecksDone[mpc] ELSE 0
MergeAdvances == mpc # "idle" /\ merger' # merger => MergeWork' < MergeWork

(* What MergeDecides rests on besides fairness: every step of a merge      *)
(* leaves less of this work, which is a natural number.                    *)
THEOREM MergeWorkTheorem == Spec => [][MergeAdvances]_vars /\ [](MergeWork \in Nat)
<1>1. ASSUME MInv PROVE MergeWork \in Nat
  <2>1. mpc \in MergingPcs => Len(queue) \in Nat /\ Len(queue) > 0
    BY <1>1 DEF MInv, MergeInv
  <2>2. mpc \in MergingPcs => ChecksDone[mpc] \in 0 .. 3
    BY DEF MergingPcs, ChecksDone
  <2>. QED  BY <2>1, <2>2 DEF MergeWork
<1>2. ASSUME MInv, [Next]_vars PROVE [MergeAdvances]_vars
  <2> SUFFICES ASSUME mpc # "idle", merger' # merger PROVE MergeWork' < MergeWork
    BY DEF MergeAdvances
  <2>1. ReadManifest \/ VerifyWheel \/ VerifySums \/ Join
    BY <1>2 DEF Next, CheckEmpty, Validated, Open, Close, Die, Transfer, StartMerge, vars
  <2>2. mpc \in MergingPcs
    BY <2>1 DEF ReadManifest, VerifyWheel, VerifySums, Join, MergeStep, MergingPcs
  <2>3. queue \in Seq(Dirs) /\ queue # <<>> /\ Len(queue) \in Nat /\ Len(queue) > 0
    BY <1>2, <2>2 DEF MInv, MergeInv
  <2>4. CASE ReadManifest
    BY <2>3, <2>4 DEF ReadManifest, MergeStep, MergeWork, MergingPcs, ChecksDone
  <2>5. CASE VerifyWheel
    BY <2>3, <2>5 DEF VerifyWheel, MergeStep, MergeWork, MergingPcs, ChecksDone
  <2>6. CASE VerifySums
    BY <2>3, <2>6 DEF VerifySums, MergeStep, MergeWork, MergingPcs, ChecksDone
  <2>7. CASE Join
    <3>1. Len(queue') = Len(queue) - 1 /\ mpc = "join" /\ mpc' \in {"merged", "manifest", "failed"}
      BY <2>3, <2>7 DEF Join, MergeStep
    <3>. QED  BY <2>3, <3>1 DEF MergeWork, MergingPcs, ChecksDone
  <2>. QED  BY <2>1, <2>4, <2>5, <2>6, <2>7
<1>. QED  BY <1>1, <1>2, AlwaysMerge, PTL DEF Spec

(* The types.                                                              *)
THEOREM TypeCorrect == Spec => []TypeOK
<1> DEFINE phase == mpc \in {"idle", "manifest", "wheel", "sums", "join", "merged", "failed"}
<1>1. Init => phase
  BY DEF Init
<1>2. phase /\ [Next]_vars => phase'
  BY DEF Next, CheckEmpty, Validated, Open, Close, Die, Transfer, StartMerge, ReadManifest,
         VerifyWheel, VerifySums, Join, MergeStep, vars, merger
<1>3. ASSUME MInv, phase PROVE TypeOK
  <2>1. merged \subseteq {ArtifactOf(entry[b], b) : b \in Builds}
    BY <1>3 DEF MInv, MergeInv, ManifestOf
  <2>. QED  BY <1>3, <2>1 DEF MInv, FilesInv, FileSets, MergeInv, ManifestOf, VerifiedPcs, TypeOK
<1>. QED  BY <1>1, <1>2, <1>3, AlwaysMerge, PTL DEF Spec

=============================================================================
