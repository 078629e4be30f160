-------------------------- MODULE ResourceEvidence --------------------------
(***************************************************************************)
(* What scripts/build-wheel.sh asks of the resource snapshots before,      *)
(* during and after a build, and what the evidence gate                    *)
(* (validate_resource_evidence of scripts/validate-wheel.py) asks again of *)
(* the evidence the build leaves.  Snapshots are those of PodResources.    *)
(*                                                                         *)
(* A build's options are [maxJobs, ext, low, unsafe]: MAX_JOBS and         *)
(* EXT_PARALLEL or Unset, ALLOW_LOW_RESOURCES, ALLOW_UNSAFE_PARALLELISM.   *)
(***************************************************************************)
EXTENDS PodResources

CONSTANTS MinimumCpus, MinimumMemory, RecommendedMemory,
          MatrixMaxJobs, MatrixExtParallel    \* resources of build/matrix.json

ASSUME MatrixAssumption ==
    /\ MinimumCpus \in Nat \ {0}
    /\ MinimumMemory \in Nat \ {0}
    /\ RecommendedMemory \in Nat /\ RecommendedMemory >= MinimumMemory
    /\ MatrixMaxJobs \in Nat \ {0}
    /\ MatrixExtParallel \in Nat \ {0}

-----------------------------------------------------------------------------
(* Before the snapshot: a cap above the reviewed one needs the override.   *)

OptionsAllowed(options) ==
    options.maxJobs > MatrixMaxJobs => options.unsafe
JobsCapFor(options) == Or(options.maxJobs, MatrixMaxJobs)

-----------------------------------------------------------------------------
(* The preflight.                                                          *)

CapacityEstablished(snapshot) ==
    LET memory == snapshot.memory
    IN  /\ memory.capacity >= MinimumMemory
        /\ memory.assigned > 0
        /\ \/ memory.source = "assignment" /\ memory.capacity = memory.assigned
           \/ /\ memory.source = "cgroup" /\ memory.limited
              /\ memory.limit = memory.capacity
              /\ memory.capacity <= memory.assigned

Overridden(options) == options.low \/ options.unsafe

RssAcceptable(snapshot) ==
    LET memory == snapshot.memory
    IN  /\ memory.source = "assignment" /\ memory.capacity = memory.assigned
        /\ memory.usage = Unset /\ memory.usageDir = 0
        /\ memory.scope = "unavailable"
        /\ ~memory.peakEligible /\ ~memory.trustworthy
        /\ memory.capacity >= RecommendedMemory
        /\ snapshot.forced /\ snapshot.suggested = 1

PeakMeasurable(snapshot, options) ==
    \/ /\ snapshot.memory.peakMode = "cgroup"
       /\ snapshot.memory.peakEligible /\ snapshot.memory.usageDir # 0
    \/ /\ snapshot.memory.peakMode = "process-group-rss"
       /\ RssAcceptable(snapshot) /\ ~Overridden(options)

HeadroomForOne(snapshot) ==
    snapshot.memory.peakMode = "cgroup" =>
        snapshot.memory.available >= snapshot.reserve + snapshot.perJob

\* Mutant of Preflight: a cgroup limit without an assignment is enough.
LocalPreflight(snapshot, options) ==
    /\ snapshot.memory.capacity >= MinimumMemory
    /\ snapshot.cpus >= MinimumCpus
    /\ PeakMeasurable(snapshot, options)
    /\ HeadroomForOne(snapshot) \/ options.low

Preflight(snapshot, options) ==
    /\ CapacityEstablished(snapshot)
    /\ snapshot.cpus >= MinimumCpus
    /\ PeakMeasurable(snapshot, options)
    /\ HeadroomForOne(snapshot) \/ options.low

(* What the build runs with: one job each where the snapshot forces it.    *)
\* Mutant of SelectedJobs: MAX_JOBS wins over an untrusted snapshot.
JobsAsAsked(snapshot, options) == Or(options.maxJobs, snapshot.suggested)
SelectedJobs(snapshot, options) ==
    IF snapshot.forced THEN 1 ELSE Or(options.maxJobs, snapshot.suggested)
SelectedExt(snapshot, options) ==
    IF snapshot.forced THEN 1 ELSE Or(options.ext, MatrixExtParallel)
ExtAllowed(ext, options) == ext > MatrixExtParallel => options.unsafe

-----------------------------------------------------------------------------
(* After the build.  RSS samples are those the supervisor accepts; what is *)
(* left to compare is the sampled peak.                                    *)

RssFits(snapshot, rss) ==
    /\ rss.peak >= rss.first /\ rss.peak >= rss.last
    /\ rss.peak + snapshot.reserve <= snapshot.memory.capacity

PeakPossible(snapshot, peak) == peak > 0 /\ peak <= snapshot.memory.capacity

\* Mutant of SameAssignment: capacity_bytes is missing from the list.
SameSources(start, end) ==
    /\ end.memory.assigned = start.memory.assigned
    /\ end.memory.source = start.memory.source
    /\ end.memory.usageDir = start.memory.usageDir
    /\ end.memory.scope = start.memory.scope
    /\ end.memory.peakMode = start.memory.peakMode
    /\ end.forced = start.forced

SameAssignment(start, end) ==
    /\ end.memory.assigned = start.memory.assigned
    /\ end.memory.capacity = start.memory.capacity
    /\ end.memory.source = start.memory.source
    /\ end.memory.usageDir = start.memory.usageDir
    /\ end.memory.scope = start.memory.scope
    /\ end.memory.peakEligible = start.memory.peakEligible
    /\ end.memory.peakMode = start.memory.peakMode
    /\ end.memory.trustworthy = start.memory.trustworthy
    /\ end.forced = start.forced

-----------------------------------------------------------------------------
(* The gate, on evidence [start, end, jobs, ext, options, peak, rss].      *)

GateMode(snapshot) ==
    LET memory == snapshot.memory
    IN  \/ /\ memory.peakMode = "cgroup"
           /\ memory.usageDir # 0 /\ memory.peakEligible
           /\ memory.scope \in {"cgroup-capacity", "pod-cgroup", "ambiguous-cgroup-root"}
           /\ \/ memory.trustworthy
              \/ memory.scope = "ambiguous-cgroup-root" /\ snapshot.forced
        \/ /\ memory.peakMode = "process-group-rss"
           /\ RssAcceptable(snapshot) /\ snapshot.maxJobsCap = 1

GateCpus(snapshot) ==
    /\ snapshot.cpus >= MinimumCpus
    /\ snapshot.runpodCpus >= MinimumCpus
    /\ snapshot.cpus <= snapshot.runpodCpus

GateSnapshot(snapshot) ==
    /\ CapacityEstablished(snapshot)
    /\ GateCpus(snapshot)
    /\ GateMode(snapshot)

GateCgroupPeak(evidence) ==
    /\ PeakPossible(evidence.start, evidence.peak.first)
    /\ PeakPossible(evidence.start, evidence.peak.last)
    /\ evidence.peak.last >= evidence.peak.first

GateRssPolicy(evidence) ==
    /\ evidence.start.reserve > 0
    /\ evidence.end.suggested = evidence.start.suggested
    /\ evidence.end.maxJobsCap = evidence.start.maxJobsCap
    /\ evidence.end.reserve = evidence.start.reserve
    /\ evidence.end.perJob = evidence.start.perJob
    /\ ~Overridden(evidence.options)

GateRssPeak(evidence) == RssFits(evidence.start, evidence.rss)

GatePeak(evidence) ==
    IF evidence.start.memory.peakMode = "cgroup" THEN GateCgroupPeak(evidence)
    ELSE GateRssPolicy(evidence) /\ GateRssPeak(evidence)

GateParallelism(evidence) ==
    /\ evidence.start.forced => evidence.jobs = 1 /\ evidence.ext = 1
    /\ (evidence.jobs > MatrixMaxJobs \/ evidence.ext > MatrixExtParallel)
          => evidence.options.unsafe

ValidateResourceEvidence(evidence) ==
    /\ GateSnapshot(evidence.start) /\ GateSnapshot(evidence.end)
    /\ SameAssignment(evidence.start, evidence.end)
    /\ evidence.end.runpodCpus = evidence.start.runpodCpus
    /\ GateParallelism(evidence)
    /\ GatePeak(evidence)

=============================================================================
