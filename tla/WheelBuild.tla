----------------------------- MODULE WheelBuild -----------------------------
(***************************************************************************)
(* scripts/build-wheel.sh from the first resource snapshot to the last     *)
(* check before its artifacts are installed, on a Pod whose counters,      *)
(* limits and CPUs may change while the script runs.  The script decides   *)
(* on what it read at the start, compiles for hours, and reads again.      *)
(***************************************************************************)
EXTENDS ResourceEvidence

CONSTANTS Limits,          \* finite limits the Pod's cgroup may have
          Usages,          \* values of its usage counter
          Assignments,     \* values of RUNPOD_ASSIGNED_MEMORY_BYTES
          RunpodCounts,    \* values of RUNPOD_CPU_COUNT, 0 for none
          Cpus,            \* CPUs the controllers leave
          Reserves,        \* values of POD_BUILD_RESERVE_MIB, if it is set
          MaxJobsOptions,  \* values of MAX_JOBS, if it is set
          ExtOptions,      \* values of EXT_PARALLEL, if it is set
          Overrides,       \* values of the two overrides
          HostTotal, PerJobMemory,
          Peaks,           \* values a peak counter or a peak of RSS samples has
          MaxChanges       \* how often the Pod changes under one build

ASSUME BuildAssumption ==
    /\ Limits \subseteq Nat /\ Usages \subseteq Nat
    /\ Assignments \subseteq Nat \ {0} /\ RunpodCounts \subseteq Nat
    /\ Cpus \subseteq Nat \ {0} /\ Reserves \subseteq Nat
    /\ MaxJobsOptions \subseteq Nat \ {0} /\ ExtOptions \subseteq Nat \ {0}
    /\ Overrides \subseteq BOOLEAN
    /\ HostTotal \in Nat \ {0} /\ PerJobMemory \in Nat \ {0}
    /\ Peaks \subseteq Nat \ {0} /\ MaxChanges \in Nat

VARIABLES pod,       \* what the resolver would read now
          mark,      \* the kernel's high-water mark of the Pod's usage
          options,   \* the build's options
          pc,
          start, end,      \* the resource snapshots
          jobs, ext,       \* selected parallelism
          peak,            \* [first, last] of the kernel's mark
          rss,             \* [first, last, peak] of the supervisor's samples
          changes

vars == <<pod, mark, options, pc, start, end, jobs, ext, peak, rss, changes>>

Nothing == 0

-----------------------------------------------------------------------------
Pods == [version : {0, 2}, limit : Limits \cup {Unset},
         usage : Usages \cup {Unset, Malformed}, scoped : BOOLEAN,
         assigned : Assignments \cup {Unset}, receipt : BOOLEAN,
         cpus : Cpus, runpod : RunpodCounts, reserve : Reserves \cup {Unset}]

Options == [maxJobs : MaxJobsOptions \cup {Unset}, ext : ExtOptions \cup {Unset},
            low : Overrides, unsafe : Overrides]

WellFormed(p) ==
    /\ p.version = 0 => p.limit = Unset /\ p.usage = Unset
    /\ Known(p.limit) /\ Known(p.usage) => p.usage <= p.limit

ViewOf(p, cap) ==
    [version |-> p.version,
     dirs |-> <<[limit |-> p.limit, usage |-> p.usage, inactive |-> 0]>>,
     hierarchical |-> Unset, scoped |-> p.scoped,
     host |-> [total |-> HostTotal, available |-> HostTotal],
     assigned |-> p.assigned, receipt |-> IF p.receipt THEN p.assigned ELSE Unset,
     cpus |-> [host |-> p.cpus, affinity |-> Unset, cpusets |-> {}, quotas |-> {},
               runpod |-> p.runpod],
     knobs |-> [perJob |-> PerJobMemory, reserve |-> p.reserve, maxJobs |-> cap]]

ResourceHelper == CollectResources(ViewOf(pod, JobsCapFor(options)))

Init ==
    /\ pod \in {p \in Pods : WellFormed(p)}
    /\ mark \in Peaks /\ (Known(pod.limit) => mark <= pod.limit)
    /\ Known(pod.usage) => pod.usage <= mark
    /\ options \in Options
    /\ pc = "snapshot"
    /\ start = Refused /\ end = Refused
    /\ jobs = Nothing /\ ext = Nothing
    /\ peak = [first |-> Nothing, last |-> Nothing]
    /\ rss = [first |-> Nothing, last |-> Nothing, peak |-> Nothing]
    /\ changes = 0

-----------------------------------------------------------------------------
(* The Pod: a counter moves, appears or is lost, a limit or the number of  *)
(* CPUs changes.  What the build inherited in its environment does not.    *)

Change(p) ==
    /\ WellFormed(p)
    /\ p # pod
    /\ changes < MaxChanges
    /\ changes' = changes + 1
    /\ pod' = p
    /\ mark' \in {m \in Peaks : /\ m >= mark /\ m >= p.usage
                                /\ Known(p.limit) => m <= Larger(mark, p.limit)}
    /\ UNCHANGED <<options, pc, start, end, jobs, ext, peak, rss>>

PodChanges ==
    /\ pc \notin {"published", "failed"}
    /\ \/ \E n \in Usages \cup {Unset, Malformed} : Change([pod EXCEPT !.usage = n])
       \/ \E n \in Limits \cup {Unset} : Change([pod EXCEPT !.limit = n])
       \/ \E n \in Cpus : Change([pod EXCEPT !.cpus = n])
       \/ Change([pod EXCEPT !.receipt = ~@])

-----------------------------------------------------------------------------
(* The script.                                                             *)

Continue(at, ok, to) == pc = at /\ pc' = (IF ok THEN to ELSE "failed")

(* The snapshot, the preflight on it and on the free disk, and the         *)
(* parallelism it gives.                                                   *)
TakeSnapshot == \E diskFree \in BOOLEAN :
    LET snapshot == ResourceHelper
        ok == /\ OptionsAllowed(options)
              /\ ~snapshot.error
              /\ Preflight(snapshot, options) /\ diskFree
              /\ ExtAllowed(SelectedExt(snapshot, options), options)
    IN  /\ Continue("snapshot", ok, "peak")
        /\ start' = snapshot
        /\ jobs' = IF ok THEN SelectedJobs(snapshot, options) ELSE Nothing
        /\ ext' = IF ok THEN SelectedExt(snapshot, options) ELSE Nothing
        /\ UNCHANGED <<pod, mark, options, end, peak, rss, changes>>

(* cgroup_peak_from_snapshot: the mark of the directory the snapshot named.*)
Mark(snapshot) == IF pod.version = 0 THEN Nothing ELSE mark

(* Then the versions of the toolchain are compared with the matrix.        *)
ReadFirstPeak == \E toolchain \in BOOLEAN :
    LET byCgroup == start.memory.peakMode = "cgroup"
        ok == toolchain /\ (byCgroup => PeakPossible(start, Mark(start)))
    IN  /\ Continue("peak", ok, "compile")
        /\ peak' = IF byCgroup THEN [peak EXCEPT !.first = Mark(start)] ELSE peak
        /\ UNCHANGED <<pod, mark, options, start, end, jobs, ext, rss, changes>>

(* The compiler raises the mark.  Without counters the supervisor reports  *)
(* a sampled peak, which must leave the reserve free.                      *)
Compile ==
    \E sample \in Peaks, raised \in {m \in Peaks : m >= mark}, succeeds \in BOOLEAN :
        LET byRss == start.memory.peakMode = "process-group-rss"
            report == [first |-> Min(Peaks), last |-> Min(Peaks), peak |-> sample]
        IN  /\ Continue("compile", succeeds /\ (byRss => RssFits(start, report)), "end")
            /\ rss' = IF byRss THEN report ELSE rss
            /\ Known(pod.limit) => raised <= Larger(mark, pod.limit)
            /\ mark' = raised
            /\ UNCHANGED <<pod, options, start, end, jobs, ext, peak, changes>>

TakeEndSnapshot ==
    LET snapshot == ResourceHelper
    IN  /\ Continue("end", ~snapshot.error /\ SameAssignment(start, snapshot), "endpeak")
        /\ end' = snapshot
        /\ UNCHANGED <<pod, mark, options, start, jobs, ext, peak, rss, changes>>

ReadLastPeak ==
    LET byCgroup == start.memory.peakMode = "cgroup"
    IN  /\ Continue("endpeak", byCgroup => PeakPossible(end, Mark(end))
                                             /\ Mark(end) >= peak.first, "gate")
        /\ peak' = IF byCgroup THEN [peak EXCEPT !.last = Mark(end)] ELSE peak
        /\ UNCHANGED <<pod, mark, options, start, end, jobs, ext, rss, changes>>

Evidence == [start |-> start, end |-> end, jobs |-> jobs, ext |-> ext,
             options |-> options, peak |-> peak, rss |-> rss]

(* evidence.json, inspect-wheel and validate-wheel, before the installs.   *)
Gate ==
    /\ Continue("gate", ValidateResourceEvidence(Evidence), "published")
    /\ UNCHANGED <<pod, mark, options, start, end, jobs, ext, peak, rss, changes>>

Next ==
    \/ PodChanges
    \/ TakeSnapshot
    \/ ReadFirstPeak
    \/ Compile
    \/ TakeEndSnapshot
    \/ ReadLastPeak
    \/ Gate

Spec == Init /\ [][Next]_vars

-----------------------------------------------------------------------------
Started == pc \in {"peak", "compile", "end", "endpeak", "gate", "published"}
Published == pc = "published"

TypeOK ==
    /\ pod \in Pods /\ WellFormed(pod)
    /\ mark \in Peaks
    /\ pc \in {"snapshot", "peak", "compile", "end", "endpeak", "gate",
               "published", "failed"}
    /\ Started => jobs \in Nat \ {0} /\ ext \in Nat \ {0}
    /\ peak \in [first : Peaks \cup {Nothing}, last : Peaks \cup {Nothing}]
    /\ rss \in [first : Peaks \cup {Nothing}, last : Peaks \cup {Nothing},
                peak : Peaks \cup {Nothing}]
    /\ changes \in 0 .. MaxChanges

(* The Pod that finished the build is the Pod that was measured: nothing   *)
(* the parallelism was derived from differs between the two snapshots,     *)
(* though counters and limits move while the compiler runs.                *)
MeasuredByOneCounter ==
    /\ start.memory.capacity = end.memory.capacity
    /\ start.memory.peakMode = end.memory.peakMode
    /\ peak.last # Nothing <=> rss.peak = Nothing
    /\ peak.last # Nothing => peak.first \in 1 .. peak.last

(* A published wheel was built within what Runpod assigned and what the    *)
(* kernel allowed, as far as anything measured it: the peak at the end     *)
(* lies within the assignment the environment names, RSS samples leave the *)
(* reserve free, usage nobody could trust was met with one compiler, and   *)
(* the CPUs at both ends were enough and within the vCPUs assigned.        *)
PublishedWithinAssignment ==
    Published =>
        /\ MeasuredByOneCounter
        /\ pod.assigned # Unset
        /\ peak.last <= pod.assigned
        /\ rss.peak # Nothing => rss.peak + start.reserve <= pod.assigned
        /\ (~start.memory.trustworthy \/ ~end.memory.trustworthy) => jobs = 1 /\ ext = 1
        /\ \A snapshot \in {start, end} :
              MinimumCpus <= snapshot.cpus /\ snapshot.cpus <= pod.runpod

(* docs/resource-reporting.md:265-269: what the preflight lets compile,    *)
(* the promotion's evidence gate does not refuse for anything that was     *)
(* known at the start, so that hours of compiling are not lost.  After the *)
(* script's own checks of the end, only CPUs lost meanwhile are news to it.*)
GateAgreesWithPreflight ==
    /\ pc = "compile" =>
          /\ GateSnapshot(start)
          /\ GateParallelism(Evidence)
          /\ start.memory.peakMode = "process-group-rss" => start.reserve > 0
    /\ pc = "gate" => (ValidateResourceEvidence(Evidence) <=> end.cpus >= MinimumCpus)

Fits(n) == start.reserve + n * start.perJob <= start.memory.available

(* Whatever MAX_JOBS and EXT_PARALLEL say, parallelism is one somebody     *)
(* answers for: the script's own choice of several compilers fits into     *)
(* the headroom besides the reserve; more than was suggested is the number *)
(* the operator gave, with a counter of the Pod's usage to trust; and more *)
(* than the matrix reviewed has the override.                              *)
SafeParallelism ==
    Started =>
        /\ jobs <= start.suggested => jobs = 1 \/ Fits(jobs)
        /\ jobs > start.suggested => jobs = options.maxJobs /\ ~start.forced
        /\ ext > MatrixExtParallel => ext = options.ext /\ ~start.forced
        /\ (jobs > MatrixMaxJobs \/ ext > MatrixExtParallel) => options.unsafe

(* docs/release-checklist.md:19: the preflight selects safe parallelism or *)
(* refuses an undersized Pod.  Safe is one compiler, or as many as the     *)
(* headroom holds besides the reserve; an override excepts itself.         *)
SafeOrRefused == (Started /\ ~Overridden(options)) => jobs = 1 \/ Fits(jobs)

=============================================================================
