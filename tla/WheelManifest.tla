--------------------------- MODULE WheelManifest ---------------------------
(***************************************************************************)
(* Manifests of wheels: what scripts/inspect-wheel.py puts into one, what  *)
(* scripts/merge-manifests.py lets into a merged one, and which artifact   *)
(* scripts/select-wheel.py takes from it for an environment.               *)
(*                                                                         *)
(* A matrix entry is [id, asset, runtime, torchCuda, cuda, gpus]: its build*)
(* id, wheel filename, the Python, ABI, platform and torch tags, the CUDA  *)
(* version of torch and that of the toolkit, and the compute capabilities. *)
(* An artifact is an entry with a digest; digests stand for contents.      *)
(***************************************************************************)
EXTENDS Naturals, FiniteSets, Sequences

ArtifactOf(entry, digest) ==
    [id |-> entry.id, asset |-> entry.asset, runtime |-> entry.runtime,
     torchCuda |-> entry.torchCuda, cuda |-> entry.cuda, gpus |-> entry.gpus,
     digest |-> digest]

-----------------------------------------------------------------------------
(* merge: artifacts are taken up in turn; a repeated asset, runtime tuple  *)
(* or build id stops the merge.                                            *)

SameRuntime(artifact, other) ==
    artifact.runtime = other.runtime /\ artifact.torchCuda = other.torchCuda

\* Mutant of Clashes: wheels for other GPUs are no rivals.
ClashesOnAGpu(artifact, other) ==
    \/ artifact.asset = other.asset
    \/ SameRuntime(artifact, other) /\ artifact.gpus = other.gpus
    \/ artifact.id = other.id
Clashes(artifact, other) ==
    \/ artifact.asset = other.asset
    \/ SameRuntime(artifact, other)
    \/ artifact.id = other.id

CanJoin(artifact, merged) == \A other \in merged : ~Clashes(artifact, other)

-----------------------------------------------------------------------------
(* select_artifact for an environment [runtime, cuda, gpus]: exactly one   *)
(* match, whose GPUs include the visible ones.  Both CUDA versions of an   *)
(* artifact are compared with that of the installed torch.                 *)

Matches(artifacts, environment) ==
    {a \in artifacts : /\ a.runtime = environment.runtime
                       /\ a.torchCuda = environment.cuda /\ a.cuda = environment.cuda}

Selectable(artifacts, environment) ==
    {a \in Matches(artifacts, environment) :
        /\ Cardinality(Matches(artifacts, environment)) = 1
        /\ environment.gpus \subseteq a.gpus}

=============================================================================
