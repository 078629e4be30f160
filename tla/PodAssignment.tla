--------------------------- MODULE PodAssignment ---------------------------
(***************************************************************************)
(* verify_pod_assignment of tools/runpod_job.py: the decision whether the   *)
(* Pod that Runpod really assigned may receive the repository.  Pure: it    *)
(* maps the details the REST API reports, and the requested gpuId, to a     *)
(* verdict.                                                                 *)
(*                                                                          *)
(* A numeric field of the response is abstracted to what Decimal(str(v))    *)
(* tells the code about it: whether it is a finite number at all (a missing *)
(* field, a boolean, text, NaN and infinity are not), and its value in      *)
(* thousandths, so that 64.5 GB and 3.5 vCPUs stay distinguishable.         *)
(***************************************************************************)
EXTENDS Integers

CONSTANTS
    Mode,             \* "CPU", "GPU_BUILD" or "GPU_VALIDATION": compute_type and gpu_workload
    RequestImage,     \* PodRequest.image
    MinVcpuCount,     \* gpu_min_vcpu_count, or cpu_vcpu_count for a CPU Pod
    MinMemoryGb,      \* gpu_min_memory_gb, or cpu_min_memory_gb for a CPU Pod
    ContainerDiskGb,  \* container_disk_gb
    CpuFlavorIds,     \* cpu_flavor_ids
    None              \* Python's None

ASSUME ModeAssumption == Mode \in {"CPU", "GPU_BUILD", "GPU_VALIDATION"}

ASSUME RequestAssumption ==
    /\ MinVcpuCount \in Nat
    /\ MinMemoryGb \in Nat
    /\ ContainerDiskGb \in Nat

Assignments == [vcpuCount : Int, assignedMemory : Int]

ASSUME NoneAssumption == None \notin Assignments

IsGpu == Mode # "CPU"

IsBuildJob == Mode # "GPU_VALIDATION"

\* A field that is not a finite number, and one that is, in thousandths.
Unreadable == [finite |-> FALSE, milli |-> 0]

Number(milli) == [finite |-> TRUE, milli |-> milli]

\* _integer(details, name) >= bound: a fractional or unreadable count fails.
IntegerAtLeast(field, bound) ==
    /\ field.finite
    /\ field.milli % 1000 = 0
    /\ field.milli \div 1000 >= bound

\* _memory_bytes(details, "memoryInGb"): positive, and at least the request.
\* (A number of thousandths of a GB is always one of whole bytes, which is the
\* other thing the code asks for.)
MemoryAtLeast(field, gb) ==
    /\ field.finite
    /\ field.milli > 0
    /\ field.milli >= 1000 * gb

\* Mutant of GpuMatches: any reported GPU will do.
GpuReported(details, gpuId) == details.gpuTypeIds # {}

\* _gpu_type_ids: every place that names a GPU must name the requested one.
GpuMatches(details, gpuId) ==
    /\ details.gpuTypeIds # {}
    /\ \A id \in details.gpuTypeIds : id = gpuId

\* Mutant of ResourcesMatch: a paid Pod volume goes unnoticed.
ResourcesMatchAnyVolume(details) ==
    /\ IntegerAtLeast(details.vcpuCount, MinVcpuCount)
    /\ MemoryAtLeast(details.memoryInGb, MinMemoryGb)
    /\ IntegerAtLeast(details.containerDiskInGb, ContainerDiskGb)

ResourcesMatch(details) ==
    /\ IntegerAtLeast(details.vcpuCount, MinVcpuCount)
    /\ MemoryAtLeast(details.memoryInGb, MinMemoryGb)
    /\ IntegerAtLeast(details.containerDiskInGb, ContainerDiskGb)
    /\ details.volumeInGb = Number(0)

Verdicts == {"verified", "JobError", "GpuPlacementError"}

\* The verdict; only GpuPlacementError lets the caller try another candidate.
VerifyPodAssignment(details, gpuId) ==
    CASE details.image # RequestImage -> "JobError"
      [] details.image = RequestImage /\ IsGpu ->
           IF /\ GpuMatches(details, gpuId)
              /\ IsBuildJob => ResourcesMatch(details)
           THEN "verified"
           ELSE "GpuPlacementError"
      [] OTHER ->
           IF /\ details.cpuFlavorId \in CpuFlavorIds
              /\ ResourcesMatch(details)
           THEN "verified"
           ELSE "JobError"

\* VerifiedBuildAssignment: None for a validation Pod, whose size is not read.
\* Memory is memory_gb * 10^9 bytes, kept in units of 10^6 bytes.
VerifiedBuildAssignment(details) ==
    IF IsBuildJob
    THEN [vcpuCount |-> details.vcpuCount.milli \div 1000,
          assignedMemory |-> details.memoryInGb.milli]
    ELSE None
=============================================================================
