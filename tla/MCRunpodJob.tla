---------------------------- MODULE MCRunpodJob ----------------------------
(***************************************************************************)
(* Small instances of RunpodJob.  Candidates, resources and the assignments *)
(* the API may report are definitions; times are scaled down so that every  *)
(* cap, the deadline and the grace still come in the order they have in the *)
(* code (poll and delete pauses < calls < transfers < hard timeout).        *)
(***************************************************************************)
EXTENDS RunpodLease, TLC

Fits(gpus, flavor) ==
    [image |-> "builder", gpuTypeIds |-> gpus, vcpuCount |-> Number(4000),
     memoryInGb |-> Number(32500), containerDiskInGb |-> Number(80000),
     volumeInGb |-> Number(0), cpuFlavorId |-> flavor]

MCGpuIds == {"g1", "g2"}
MCCpuFlavors == {"cpu3g"}

TwoCandidates == <<"g1", "g2">>
OneCandidate == <<"g1">>
NoCandidate == <<None>>

\* A fitting Pod for either candidate, one with a fractional vCPU count and
\* one of the wrong image.
GpuDetails ==
    {Fits({"g1"}, None),
     [Fits({"g2"}, None) EXCEPT !.vcpuCount = Number(16000)],
     [Fits({"g1"}, None) EXCEPT !.vcpuCount = Number(4500)],
     [Fits({"g1"}, None) EXCEPT !.image = "other"]}

\* A validation Pod is accepted by image and GPU alone.
SmallGpuDetails ==
    {[Fits({"g1"}, None) EXCEPT !.vcpuCount = Unreadable], Fits({"g2"}, None)}

CpuDetails ==
    {Fits({}, "cpu3g"), Fits({}, "cpu5c"),
     [Fits({}, "cpu3g") EXCEPT !.image = "other"],
     [Fits({}, "cpu3g") EXCEPT !.memoryInGb = Unreadable],
     [Fits({}, "cpu3g") EXCEPT !.volumeInGb = Number(20000)]}

PodSymmetry == Permutations(Pods)
=============================================================================
