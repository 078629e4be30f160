---------------------------- MODULE PodResources ----------------------------
(***************************************************************************)
(* The resource resolver, tools/pod_resources.py, as operators on what it  *)
(* reads.  A view of a Pod is a record                                     *)
(*                                                                         *)
(*   version        the cgroup version located for memory, 0 for none      *)
(*   dirs           the visible directories, leaf first, mount root last:  *)
(*                  [limit, usage, inactive] of each                       *)
(*   hierarchical   hierarchical_memory_limit of the leaf (version 1)      *)
(*   scoped         the membership or the mount root is below "/"          *)
(*   host           [total, available] of /proc/meminfo                    *)
(*   assigned       RUNPOD_ASSIGNED_MEMORY_BYTES                           *)
(*   receipt        the root-owned verified-memory receipt                 *)
(*   cpus           [host, affinity, cpusets, quotas, runpod]              *)
(*   knobs          [perJob, reserve, maxJobs] of the environment          *)
(*                                                                         *)
(* A number the code cannot have is Unset (None, no such file, "max") or   *)
(* Malformed (a file or variable that does not parse).  Memory is counted  *)
(* in a unit of the model's choosing.                                      *)
(***************************************************************************)
EXTENDS Integers, Sequences, FiniteSetsExt

CONSTANTS DefaultPerJob,      \* DEFAULT_MEMORY_PER_JOB_MIB
          DefaultReserve,     \* DEFAULT_RESERVE_BYTES
          DefaultMaxJobs      \* DEFAULT_MAX_JOBS

ASSUME DefaultsAssumption ==
    /\ DefaultPerJob \in Nat \ {0}
    /\ DefaultReserve \in Nat
    /\ DefaultMaxJobs \in Nat \ {0}

Unset == -1
Malformed == -2
Leaf == 1

Known(n) == n >= 0
Or(n, default) == IF Known(n) THEN n ELSE default
Larger(a, b) == IF a >= b THEN a ELSE b
Smaller(a, b) == IF a <= b THEN a ELSE b

-----------------------------------------------------------------------------
(* Limits.  The smallest finite limit from the leaf to the mount root, and *)
(* on equality the outermost directory that sets it: its usage includes    *)
(* the complete constrained subtree.                                       *)

LimitedDirs(view) == {d \in DOMAIN view.dirs : Known(view.dirs[d].limit)}
MemoryBounds(view) ==
    {view.dirs[d].limit : d \in LimitedDirs(view)}
        \cup (IF view.host.total > 0 THEN {view.host.total} ELSE {})

EffectiveLimit(view) ==
    IF MemoryBounds(view) = {} THEN 0 ELSE Min(MemoryBounds(view))

\* Mutant of SupplyingDir: the innermost of equal limits is kept.
FirstSupplyingDir(view) ==
    LET equal == {d \in LimitedDirs(view) :
                     view.dirs[d].limit = EffectiveLimit(view)}
    IN  IF equal = {} THEN 0 ELSE Min(equal)

SupplyingDir(view) ==
    LET equal == {d \in LimitedDirs(view) :
                     view.dirs[d].limit = EffectiveLimit(view)}
    IN  IF equal = {} THEN 0 ELSE Max(equal)

(* Version 1 exposes the inherited bound in the leaf's memory.stat.        *)
\* Mutant of InheritedLimit: only the visible directories count.
NoInheritedLimit(view) == FALSE
InheritedLimit(view) ==
    /\ view.version = 1
    /\ view.hierarchical > 0
    /\ EffectiveLimit(view) = 0 \/ view.hierarchical <= EffectiveLimit(view)

MemoryLimit(view) ==
    IF InheritedLimit(view) THEN view.hierarchical ELSE EffectiveLimit(view)
LimitDir(view) == IF InheritedLimit(view) THEN Leaf ELSE SupplyingDir(view)

-----------------------------------------------------------------------------
(* The memory snapshot before an assignment is applied.                    *)

Readable(view, d) == Known(view.dirs[d].usage)
InactiveFile(view, d) == Smaller(view.dirs[d].inactive, view.dirs[d].usage)

HostMemory(view, leafKnown) ==
    [limited |-> FALSE, limit |-> view.host.total, capacity |-> view.host.total,
     source |-> "host", assigned |-> Unset,
     usageDir |-> IF leafKnown THEN Leaf ELSE 0,
     usage |-> IF leafKnown THEN view.dirs[Leaf].usage ELSE Unset,
     inactive |-> 0,
     available |-> Smaller(view.host.available, view.host.total),
     trustworthy |-> leafKnown /\ view.scoped,
     peakEligible |-> leafKnown,
     scope |-> IF ~leafKnown THEN "unavailable"
               ELSE IF view.scoped THEN "pod-cgroup" ELSE "ambiguous-cgroup-root",
     peakMode |-> IF leafKnown THEN "cgroup" ELSE "unavailable"]

(* A counter that cannot be read is taken to be at the limit.              *)
CgroupMemory(view) ==
    LET d == LimitDir(view)
        limit == MemoryLimit(view)
        known == Readable(view, d)
        inactive == IF known THEN InactiveFile(view, d) ELSE 0
        usage == IF known THEN view.dirs[d].usage ELSE limit
    IN  [limited |-> TRUE, limit |-> limit, capacity |-> limit,
         source |-> "cgroup", assigned |-> Unset,
         usageDir |-> IF known THEN d ELSE 0,
         usage |-> IF known THEN usage ELSE Unset,
         inactive |-> inactive,
         available |-> Larger(0, limit - (usage - inactive)),
         trustworthy |-> known, peakEligible |-> known,
         scope |-> IF known THEN "cgroup-capacity" ELSE "unavailable",
         peakMode |-> IF known THEN "cgroup" ELSE "unavailable"]

CollectMemory(view) ==
    IF view.version = 0 THEN HostMemory(view, FALSE)
    ELSE IF LimitDir(view) = 0 THEN HostMemory(view, Readable(view, Leaf))
    ELSE CgroupMemory(view)

-----------------------------------------------------------------------------
(* The assignment: an environment value is used only if the receipt agrees.*)

AssignmentError(view) ==
    view.assigned # Unset
        /\ \/ view.assigned <= 0
           \/ view.host.total > 0 /\ view.assigned > view.host.total
           \/ view.receipt # view.assigned

LeafEligible(view) ==
    view.version # 0 /\ Readable(view, Leaf) /\ view.dirs[Leaf].usage <= view.assigned

\* Mutant of RssFallback: a malformed counter is taken for a missing one.
LooseRssFallback(view) == view.version = 0 \/ ~Readable(view, Leaf)
RssFallback(view) == view.version = 0 \/ view.dirs[Leaf].usage = Unset

(* Capacity from the assignment.  Unknown usage, and usage above the       *)
(* assignment, leave no headroom; an ambiguous root gets no cache credit.  *)
(* The leaf's counter, which the code reads twice in a row, is read once.  *)
AssignedMemory(view, memory) ==
    LET eligible == LeafEligible(view)
        trusted == eligible /\ view.scoped
        inactive == IF trusted THEN InactiveFile(view, Leaf) ELSE 0
    IN  [limited |-> memory.limited, limit |-> memory.limit,
         capacity |-> view.assigned, source |-> "assignment",
         assigned |-> view.assigned,
         usageDir |-> IF view.version # 0 /\ Readable(view, Leaf) THEN Leaf ELSE 0,
         usage |-> IF view.version # 0 /\ Readable(view, Leaf)
                   THEN view.dirs[Leaf].usage ELSE Unset,
         inactive |-> inactive,
         available |-> IF eligible
                       THEN Larger(0, view.assigned - (view.dirs[Leaf].usage - inactive))
                       ELSE 0,
         trustworthy |-> trusted, peakEligible |-> eligible,
         scope |-> IF trusted THEN "pod-cgroup"
                   ELSE IF eligible THEN "ambiguous-cgroup-root" ELSE "unavailable",
         peakMode |-> IF eligible THEN "cgroup"
                      ELSE IF RssFallback(view) THEN "process-group-rss"
                      ELSE "unavailable"]

ApplyAssignment(view, memory) ==
    IF view.assigned = Unset THEN memory
    ELSE IF memory.limited /\ memory.limit <= view.assigned
         THEN [memory EXCEPT !.assigned = view.assigned]
    ELSE AssignedMemory(view, memory)

-----------------------------------------------------------------------------
(* CPUs: every constraint that is known bounds the count; quotas are       *)
(* floored and count as at least one.                                      *)

QuotaJobs(quota) == Larger(1, quota[1] \div quota[2])
Quotas(view) == {q \in view.cpus.quotas : q[1] > 0 /\ q[2] > 0}
CpuBounds(view) ==
    {Larger(1, view.cpus.host)}
        \cup ({view.cpus.affinity, view.cpus.runpod} \cap (Nat \ {0}))
        \cup {n \in view.cpus.cpusets : n > 0}
        \cup {QuotaJobs(q) : q \in Quotas(view)}
EffectiveCpus(view) == Min(CpuBounds(view))

-----------------------------------------------------------------------------
(* The recommendation.                                                     *)

PerJob(view) == IF view.knobs.perJob > 0 THEN view.knobs.perJob ELSE DefaultPerJob

Reserve(view, memory) ==
    Or(view.knobs.reserve, Larger(DefaultReserve, (memory.capacity * 15 + 99) \div 100))

\* Mutant of Usable: the reserve is forgotten.
UsableWithoutReserve(view, memory) == IF memory.peakEligible THEN memory.available ELSE 0
Usable(view, memory) ==
    Larger(0, (IF memory.peakEligible THEN memory.available ELSE 0) - Reserve(view, memory))

ForcedSingleJob(memory) == memory.assigned # Unset /\ ~memory.trustworthy

MaxJobsCap(view, memory) ==
    IF ForcedSingleJob(memory) THEN 1
    ELSE IF view.knobs.maxJobs > 0 THEN view.knobs.maxJobs ELSE DefaultMaxJobs

JobsByMemory(view, memory) == Larger(1, Usable(view, memory) \div PerJob(view))

SuggestedJobs(view, memory) ==
    Larger(1, Min({EffectiveCpus(view), JobsByMemory(view, memory),
                   MaxJobsCap(view, memory)}))

-----------------------------------------------------------------------------
(* collect_resources: an error, or the snapshot of the view.               *)

ResolvedMemory(view) == ApplyAssignment(view, CollectMemory(view))

Resolved(view) ==
    LET memory == ResolvedMemory(view)
    IN  [error |-> FALSE, memory |-> memory, cpus |-> EffectiveCpus(view),
         runpodCpus |-> IF view.cpus.runpod > 0 THEN view.cpus.runpod ELSE Unset,
         forced |-> ForcedSingleJob(memory), suggested |-> SuggestedJobs(view, memory),
         maxJobsCap |-> MaxJobsCap(view, memory),
         perJob |-> PerJob(view), reserve |-> Reserve(view, memory)]

Refused == [error |-> TRUE]
CollectResources(view) == IF AssignmentError(view) THEN Refused ELSE Resolved(view)

=============================================================================
