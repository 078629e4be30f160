-------------------------- MODULE ResourceResolver --------------------------
(***************************************************************************)
(* The resolver at work on a Pod that does not stand still.  Processes of  *)
(* the Pod, and of its siblings below the same limited ancestor, take and  *)
(* give back memory while tools/pod_resources.py reads first the usage     *)
(* counter, then memory.stat: the view it resolves may be one the Pod was  *)
(* never in.                                                               *)
(*                                                                         *)
(* The Pod is in directory 1; directory 2 is its parent and the mount root.*)
(* An ancestor above the mount root is not visible, but version 1 reports  *)
(* its limit.  The kernel keeps usage within every limit.                  *)
(***************************************************************************)
EXTENDS MemInfoShim

CONSTANTS Versions,      \* cgroup versions a Pod may have, 0 for none
          Limits,        \* finite limits a directory may have
          Assignments,   \* values of RUNPOD_ASSIGNED_MEMORY_BYTES and the receipt
          HostTotal,     \* MemTotal of the host
          Chunk,         \* the unit in which memory is taken
          CpuCounts      \* what the CPU controllers leave

ASSUME ResolverAssumption ==
    /\ Versions \subseteq {0, 1, 2}
    /\ Limits \subseteq Nat \ {0}
    /\ Assignments \subseteq Nat \ {0}
    /\ HostTotal \in Nat \ {0}
    /\ Chunk \in Nat \ {0}
    /\ CpuCounts \subseteq Nat \ {0}

Parent == 2
Dirs == {Leaf, Parent}

VARIABLES pod,        \* what is fixed: limits, counters, assignment, CPUs
          anon, file, \* [Dirs -> memory]: charged by processes of each directory
          pc,         \* the resolver: "start", "counted", "resolved"
          counted,    \* the usage counters as the resolver read them
          view,       \* the view it resolves
          snapshot,   \* what collect_resources makes of that view
          shim        \* what the preloaded shim makes of it

vars == <<pod, anon, file, pc, counted, view, snapshot, shim>>
results == <<view, snapshot, shim>>

-----------------------------------------------------------------------------
(* The kernel's accounting is hierarchical.                                *)

Usage(a, f, dir) ==
    IF dir = Leaf THEN a[Leaf] + f[Leaf]
    ELSE a[Leaf] + f[Leaf] + a[Parent] + f[Parent]
Inactive(f, dir) == IF dir = Leaf THEN f[Leaf] ELSE f[Leaf] + f[Parent]

Allowed(a, f) ==
    /\ \A dir \in Dirs :
          Known(pod.limits[dir]) => Usage(a, f, dir) <= pod.limits[dir]
    /\ Known(pod.hidden) => Usage(a, f, Parent) <= pod.hidden
    /\ Usage(a, f, Parent) <= HostTotal

Counter(dir) == IF pod.counter = 0 THEN Usage(anon, file, dir) ELSE pod.counter

(* What version 1 reports in the leaf: the least limit on the whole path.  *)
Hierarchical ==
    LET bounds == {n \in {pod.limits[Leaf], pod.limits[Parent], pod.hidden} : Known(n)}
    IN  IF bounds = {} THEN Unset ELSE Min(bounds)

-----------------------------------------------------------------------------
Pods == [version : Versions,
         limits : [Dirs -> Limits \cup {Unset}],
         hidden : Limits \cup {Unset},
         counter : {0, Unset, Malformed},    \* 0: the counters can be read
         scoped : BOOLEAN,
         assigned : Assignments \cup {Unset, Malformed},
         receipt : Assignments \cup {Unset},
         cpus : CpuCounts]

Init ==
    /\ pod \in Pods
    /\ pod.version # 1 => pod.hidden = Unset
    /\ pod.version = 0 => /\ pod.limits = [dir \in Dirs |-> Unset]
                          /\ pod.counter = Unset
    /\ anon = [dir \in Dirs |-> 0]
    /\ file = [dir \in Dirs |-> 0]
    /\ pc = "start"
    /\ counted = [dir \in Dirs |-> Unset]
    /\ view = <<>> /\ snapshot = <<>> /\ shim = <<>>

-----------------------------------------------------------------------------
(* Processes and the kernel, until the snapshot is taken.                  *)

Take(dir) ==
    /\ pc # "resolved"
    /\ anon' = [anon EXCEPT ![dir] = @ + Chunk]
    /\ Allowed(anon', file)
    /\ UNCHANGED <<pod, file, pc, counted, results>>

GiveBack(dir) ==
    /\ pc # "resolved"
    /\ anon[dir] >= Chunk
    /\ anon' = [anon EXCEPT ![dir] = @ - Chunk]
    /\ UNCHANGED <<pod, file, pc, counted, results>>

CacheFile(dir) ==
    /\ pc # "resolved"
    /\ file' = [file EXCEPT ![dir] = @ + Chunk]
    /\ Allowed(anon, file')
    /\ UNCHANGED <<pod, anon, pc, counted, results>>

Reclaim(dir) ==
    /\ pc # "resolved"
    /\ file[dir] >= Chunk
    /\ file' = [file EXCEPT ![dir] = @ - Chunk]
    /\ UNCHANGED <<pod, anon, pc, counted, results>>

(* The resolver: _read_integer of the counters, ...                        *)
ReadCounters ==
    /\ pc = "start"
    /\ counted' = [dir \in Dirs |-> Counter(dir)]
    /\ pc' = "counted"
    /\ UNCHANGED <<pod, anon, file, results>>

(* ... then _parse_key_values of memory.stat; the rest is computation.     *)
(* The host has all its memory available, no knob of the resolver is set,  *)
(* and no limit of a Pod is zero: a job in such a cgroup would be killed.  *)
ReadStat ==
    /\ pc = "counted"
    /\ view' = [version |-> pod.version,
                dirs |-> [dir \in Dirs |-> [limit |-> pod.limits[dir],
                                            usage |-> counted[dir],
                                            inactive |-> Inactive(file, dir)]],
                hierarchical |-> Hierarchical, scoped |-> pod.scoped,
                host |-> [total |-> HostTotal, available |-> HostTotal],
                assigned |-> pod.assigned, receipt |-> pod.receipt,
                cpus |-> [host |-> pod.cpus, affinity |-> Unset, cpusets |-> {},
                          quotas |-> {}, runpod |-> Unset],
                knobs |-> [perJob |-> Unset, reserve |-> Unset, maxJobs |-> Unset]]
    /\ snapshot' = CollectResources(view')
    /\ shim' = CollectSnapshot(view')
    /\ pc' = "resolved"
    /\ UNCHANGED <<pod, anon, file, counted>>

Next ==
    \/ \E dir \in Dirs : Take(dir) \/ GiveBack(dir) \/ CacheFile(dir) \/ Reclaim(dir)
    \/ ReadCounters
    \/ ReadStat

Spec == Init /\ [][Next]_vars

-----------------------------------------------------------------------------
Accepted == pc = "resolved" /\ ~snapshot.error
Memory == snapshot.memory

TypeOK ==
    /\ pod \in Pods
    /\ anon \in [Dirs -> Nat] /\ file \in [Dirs -> Nat]
    /\ Allowed(anon, file)
    /\ pc \in {"start", "counted", "resolved"}
    /\ counted \in [Dirs -> Nat \cup {Unset, Malformed}]
    /\ Accepted => Memory.capacity \in Nat

(* The capacity that sizes the build is one the Pod can count on: no limit *)
(* on its path, inherited limits of version 1 included, and no verified    *)
(* assignment is below it, whichever of them the code found first; and an  *)
(* assignment takes part only with a receipt that says the same            *)
(* (collect_memory and apply_assigned_memory_capacity).                    *)
CapacityIsBinding ==
    Accepted =>
        /\ Memory.capacity <= HostTotal
        /\ pod.version # 0 =>
              \A dir \in Dirs : Known(pod.limits[dir]) => Memory.capacity <= pod.limits[dir]
        /\ Known(pod.hidden) => Memory.capacity <= pod.hidden
        /\ pod.assigned # Unset => /\ pod.receipt = pod.assigned
                                   /\ Memory.capacity <= pod.assigned

(* docs/resource-reporting.md:194: when an ancestor supplies the limit,    *)
(* current usage is read from the same ancestor, so that sibling usage     *)
(* inside the constrained subtree is not missed.                           *)
SiblingsCounted ==
    (Accepted /\ Memory.source = "cgroup" /\ Memory.peakEligible) =>
        \A dir \in Dirs :
            pod.limits[dir] = Memory.capacity => counted[dir] <= Memory.usage

(* Whichever directory supplies the limit, on any version, the usage that  *)
(* is compared with it is at least the Pod's own.                          *)
OwnUsageCounted ==
    (Accepted /\ Memory.source = "cgroup" /\ Memory.peakEligible) =>
        counted[Leaf] <= Memory.usage

(* Usage is that of the outermost directory whose limit is the capacity,   *)
(* equal limits included, on version 2 and without a cgroup.  On version 1 *)
(* an ancestor's limit comes back as the leaf's hierarchical limit, and    *)
(* usage is then the leaf's alone (collect_memory,                         *)
(* tools/pod_resources.py:858): there only the Pod's own usage is sure to  *)
(* be counted.                                                             *)
SubtreeUsageCounted ==
    /\ pod.version # 1 => SiblingsCounted
    /\ OwnUsageCounted

(* Whatever the Pod does between the two reads, the headroom lies within   *)
(* the capacity and the cache credit within the usage (the clamps of       *)
(* collect_memory and _read_leaf_usage).                                   *)
HeadroomWithinCapacity ==
    /\ Memory.available \in 0 .. Memory.capacity
    /\ Memory.peakEligible => Memory.inactive \in 0 .. Memory.usage

(* More than one compiler is suggested only if that headroom holds all of  *)
(* them and the reserve besides, the reserve being at least 15 % of the    *)
(* capacity (recommend_build_jobs).                                        *)
ParallelJobsFit ==
    Accepted =>
        /\ HeadroomWithinCapacity
        /\ snapshot.suggested > 1 =>
              /\ snapshot.reserve + snapshot.suggested * snapshot.perJob <= Memory.available
              /\ snapshot.reserve * 100 >= Memory.capacity * 15
              /\ snapshot.suggested <= pod.cpus

(* Process-group RSS replaces the counter only where there is no counter:  *)
(* not for one that is malformed, above the assignment or below a limit.   *)
RssOnlyWithoutCounter ==
    Memory.peakMode = "process-group-rss" =>
        /\ pod.version = 0 \/ counted[Leaf] = Unset
        /\ Memory.source = "assignment"
        /\ ~Memory.peakEligible /\ Memory.usage = Unset
        /\ snapshot.forced

(* A counter that is missing or malformed never lets two compilers run.    *)
(* Under an assignment neither does one above it nor an ambiguous root, and*)
(* the build is told so (forced_single_job).  Without an assignment two    *)
(* may be suggested at such a root; the build's preflight refuses that.    *)
SerialisedWhenUnsure ==
    Accepted =>
        /\ ~Memory.peakEligible => snapshot.suggested = 1
        /\ (pod.assigned # Unset /\ Memory.source = "assignment"
              /\ (pod.counter # 0 \/ ~pod.scoped \/ counted[Leaf] > pod.assigned))
              => snapshot.forced /\ snapshot.suggested = 1
        /\ RssOnlyWithoutCounter

(* What free and top show through the shim is what the build was sized by, *)
(* whenever both decide and environment and receipt are both there or both *)
(* missing: the two implementations choose the same ceiling and the same   *)
(* counter.                                                                *)
ShimShowsCapacity ==
    (Accepted /\ shim.shown
       /\ (pod.assigned = Unset <=> pod.receipt = Unset)) =>
        /\ shim.total = Memory.capacity
        /\ shim.used = Memory.usage
        /\ shim.used <= shim.total

=============================================================================
