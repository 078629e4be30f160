# A verification project for runpod-sageattention

This directory holds TLA+ specifications of the program, TLC configurations that
check them on small instances, and theorems that TLAPS proves for every instance.
Everything is translated from the source of the repository; line numbers below
refer to it.

## 1. Inventory

The repository builds SageAttention wheels on rented Runpod Pods, tests them on
real GPUs and publishes them. It has these parts.

| Part | Source | State it keeps | Operations |
|---|---|---|---|
| Job orchestrator | `tools/runpod_job.py` (`run_job`, `wait_for_ssh`, `_terminate_strictly`, `main`) | pod id, endpoint, selected GPU, verified resources, upload flag, errors, one hard deadline | place, poll, verify, upload, run commands, download, delete; signal handler |
| Assignment verification | `verify_pod_assignment` | none | verdict on the reported assignment |
| Runpodctl / REST client | `Runpodctl`, `_http_json` | none | create, get, delete, auth |
| SSH transport | `SSHTransport` | a known-hosts file, temporary archives | probe, upload, run, download |
| Builder entrypoint | `docker/builder-entrypoint.sh` | the self-termination watchdog | install keys, arm the watchdog, start sshd |
| RSS supervisor | `tools/pod_resources.py` (`supervise_process_group_rss`) | child, process group, samples, pending signal, evidence file | sample, checkpoint, forward a signal, escalate to SIGKILL |
| Signal relay | `scripts/build-wheel.sh` (`run_rss_supervised_command`) | pending signal, supervisor pid | relay HUP/INT/TERM, wait again |
| Resource resolver | `tools/pod_resources.py` | none | effective cgroup limits, assigned capacity, CPU quota, build jobs |
| `/proc/meminfo` shim | `docker/resource-shim/libpodproc.c` | memfds handed out | snapshot of the budget, fail open |
| Wheel build | `scripts/build-wheel.sh` | work and output directories | preflight, build, evidence checks, publish |
| Selection and merge | `scripts/select-wheel.py`, `scripts/merge-manifests.py` | manifest, cache of assets | merge, select, materialize |
| Workflows | `.github/workflows/{build,release}.yml` | job results, artifacts, tag | plan, build, GPU tests, publish |
| Inspection, validation | `scripts/inspect-wheel.py`, `scripts/validate-wheel.py` | none | archive and numerical checks |
| Builder image, activation, matrix, patch | `docker/`, `scripts/activate-builder.sh`, `matrix.json`, `patches/` | none | image build, environment |

How they interact: a workflow job runs the orchestrator on a CI machine; the
orchestrator asks the platform for a Pod, whose container starts with the
entrypoint; over SSH it uploads the repository and runs `build-wheel.sh`, which
asks the resolver for a job count and runs the compiler under the supervisor;
evidence files and the wheel are copied back, and the Pod is deleted. Three
independent mechanisms end a Pod: the orchestrator's `finally` block, the
platform's `--terminate-after` (GPU Pods), the in-Pod watchdog (CPU Pods).

What is hard: calls whose effect is unknown (a create whose reply is lost, a
delete that reports an error after it worked), an asynchronous signal at any
point, the loss of the CI machine, one deadline shared by many timeouts, state of
a rejected candidate that must not reach the next one, processes and descendants
that outlive each other, and the boundaries of times and sizes. `PROJECT.json`
lists each such hazard at its line with the properties that cover it.

## 2. Plan

| | Modules | State |
|---|---|---|
| 1 | `PodAssignment`, `RunpodJob`, `PodLease`, `RunpodLease`: the orchestrator with the platform and the watchdog, its pure verdict, and the lease it implements | done |
| 2 | `RssSupervisor`, `BuildShell`, `SupervisedBuild`: process group, signals, escalation, evidence, and the promise they implement | done |
| 3 | `RunpodJobProofs`, `BuildShellProofs`: types, main safety invariants, both refinements | done |
| 4 | `PodResources`, `MemInfoShim`: the resolver and the shim as operators on what they read; `ResourceResolver`: both at work on a Pod that changes between two reads | done |
| 5 | `ResourceEvidence`, `WheelBuild`: what the build script and the evidence gate ask of the resource snapshots, over the hours of a build | done |
| 6 | `WheelManifest`, `WheelOutput`, `WheelInstall`: manifests, the installs into `OUTPUT_DIR` and the merge, the download directory of the selector | done |
| 7 | `RuntimeGate`, `ReleasePipeline`: the run-time validation and its second judge, the release workflow | done |
| 8 | `ResourceResolverProofs`, `WheelBuildProofs`, `WheelOutputProofs`, `WheelInstallProofs`, `RuntimeGateProofs`, `ReleasePipelineProofs`, and in `RunpodJobProofs` how a run proceeds and ends | done |
| 9 | In the proof modules: the types of every module that has a state, and the safety half of each liveness property (`RunEndsTheorem`, `ReclaimTheorem`, `EscalationTheorem`, `ReasonTheorem`, `MergeWorkTheorem`, `GateEndsTheorem`), `SupervisorTheorem` | done |
| 10 | The jobs of `build.yml` one by one | open |

Which composes which: `RunpodJob` uses `PodAssignment` and is mapped to `PodLease` by
`RunpodLease`; `BuildShell` extends `RssSupervisor` and is mapped to `SupervisedBuild`;
`PodResources` is extended by `MemInfoShim` (and so by `ResourceResolver`) and by
`ResourceEvidence` (and so by `WheelBuild`); `WheelOutput` extends `WheelManifest`.

## 3. Modules and how they correspond to the code

### PodAssignment

`VerifyPodAssignment(details, gpuId)` is `verify_pod_assignment`: one verdict per
set of reported facts. A number of the REST response is reduced to what
`Decimal(str(value))` tells the code: whether it is finite, and its value in
thousandths, so that 64.5 GB passes a memory bound and 3.5 vCPUs fail an integer
one. The four places in which a response can name a GPU are the set `gpuTypeIds`.
`"GpuPlacementError"` is the only verdict after which another candidate is tried.

### RunpodJob

Three parties share the state: the runner (`run_job` in its process), the
platform, and the watchdog of `docker/builder-entrypoint.sh` inside a CPU Pod.

| TLA+ | Code |
|---|---|
| `pc`, `opEnd` | the call or sleep the runner is blocked in, and when it is over at the latest, from the timeout it was entered with |
| `now` | the clock of `Deadline`, in discrete steps |
| `round`, `cand`, `capacityOnly`, `failures` | the two placement loops |
| `podId`, `endpoint`, `selected`, `assignment`, `uploaded`, `primary`, `artifact`, `cleanupError` | the locals of `run_job` of the same names |
| `attempt` | the loop variable of `_terminate_strictly` |
| `podState`, `details` | what the platform knows of every Pod |
| `orphans` | Pods whose create reply was lost |
| `wdLeft`, `wdAt` | the watchdog of every Pod: attempts left and the next one |

An action is named for what the call under way turns out to have done
(`CreateSucceeds`, `CreateLosesReply`, `CreateNoCapacity`, `OperationFails`, ...)
and runs the code up to the next blocking operation. `Call(p, cap, slack)` is
`deadline.timeout(cap)`: it raises at the deadline and otherwise cuts the cap. A
REST call has a timeout per socket operation, hence `RestSlack`. `Signal` is the
handler that raises in the main thread, wherever that is: in the `try` body, in
a deletion attempt (where `except Exception` swallows it), or in a place that
nothing protects. `RunnerLost` is the death of the machine. A Pod boots in the
order of its entrypoint (`StartWatchdog` on a CPU Pod, then `StartSshd`, from which
on it can be reached), may exit by itself, is removed by `PlatformTerminate` once `--terminate-after` is due (GPU
Pods), or by `WatchdogDeletes` (CPU Pods).

`Tick` is blocked by an operation whose end has come, so timeouts are exact
upper bounds, and any operation may end sooner.

### PodLease and RunpodLease

`PodLease` is the promise without the control: at most one Pod is paid for, the
accepted one was accepted while it existed, and it is the last one acquired.
`RunpodLease` maps `RunpodJob` to it: the existing Pods are leased, the gone ones
released, the Pod of `podId` is accepted once `selected` or `assignment` is set,
and the lease is closed outside the `try` body.

### RssSupervisor

`supervise_process_group_rss` with the kernel's view of the process group.

| TLA+ | Code |
|---|---|
| `member`, `leaderCode`, `killed` | the processes of the group as the kernel has them, the leader's wait status, SIGKILL sent to the group |
| `pc` | the next system call: `initial_*` the loop for the first sample, `signal` `poll` `deadline` `scan` `repoll` `checkpoint` the main loop, `grace` `kill_leader` `kill_group` the bounded termination, `exception` the `except` clause, `remains` `verdict` the code after it, `restored` after the `finally` clause |
| `requested`, `forwarded` | `signal_state["requested"]`, `forwarded_signal` |
| `timers` | `initial_deadline`, `termination_deadline`, the grace and kill windows |
| `scan` | `_collect_process_group_details` in progress |
| `stats` | the sample count (up to the two that are required), leader, compiler and several processes seen |
| `monitorError`, `childCode`, `forcedKill`, `evidence`, `exitStatus` | the fields of the evidence, its file, the exit status |
| `returnTo`, `raising` | where the termination in progress returns to; an exception on its way out |

`/proc` is listed once (`NewScan`) and then read process by process: what is forked
after the listing is not seen, and a member may fork, exit or be reaped between
two reads; an entry may be unreadable (`ProcReadable` rules that out), a zombie
counts as a process without pages or executable. `poll()` directly followed by
`killpg(pgid, 0)` is one step, because an exited leader and an empty group stay
so. Every timeout is a timer that expires at some time after it started. `IoFails`
is an `OSError` or `ValueError` from `/proc` or the evidence file. Sampling
intervals are left out: a sleep is a point between two steps like any other.

### BuildShell

`run_rss_supervised_command` of `scripts/build-wheel.sh`: background start, pid
recorded, pending signal relayed, `wait` (which a trap interrupts), `kill -0`,
status corrected, traps reset, and then the fields that the script demands of the
evidence. `Trap` is `relay_supervisor_signal`. A signal can also go to the
supervisor alone (`DirectSignal`). A background command of a shell without job
control starts with SIGINT ignored and with HUP and TERM at their defaults;
that holds until `InstallHandlers`, and again after the handlers are restored.

### SupervisedBuild

The promise of the two together: a command runs with the processes it forks, its
result never changes, and there is one verdict, accepted only with result zero,
and never given while a process of the build is at work. A process that was sent
SIGKILL is no longer at work.

### PodResources

`tools/pod_resources.py` up to the supervisor, as operators on a *view*: a record
of everything the resolver reads (cgroup version, limit, usage and inactive file
of each visible directory, the inherited limit of version 1, host memory,
assignment, receipt, CPU constraints, knobs). A file that is missing is `Unset`,
one that does not parse is `Malformed`; the code tells the two apart.

| TLA+ | Code |
|---|---|
| `EffectiveLimit`, `SupplyingDir` | `_find_effective_limit`: the smallest limit of the path, and the outermost directory that sets it |
| `InheritedLimit`, `MemoryLimit`, `LimitDir` | the version 1 branch of `collect_memory` |
| `HostMemory`, `CgroupMemory`, `CollectMemory` | the three results of `collect_memory` |
| `AssignmentError`, `AssignedMemory`, `ApplyAssignment` | receipt check and `apply_assigned_memory_capacity` |
| `EffectiveCpus` | `collect_cpu` |
| `Reserve`, `Usable`, `SuggestedJobs`, `ForcedSingleJob` | `recommend_build_jobs` |
| `CollectResources` | `collect_resources`: `Refused`, or a snapshot |

### MemInfoShim

`docker/resource-shim/libpodproc.c` on the same views: `ShimLimit` and
`ShimUsageDir` choose the ceiling and whose usage is shown, and `CollectSnapshot`
shows the host's file (`Unchanged`) whenever the C code leaves `/proc/meminfo`
alone. It is a second implementation of the same resolution in another language;
`ShimShowsCapacity` compares the two.

### ResourceResolver

The Pod is directory 1, its parent directory 2, whose other children are its
siblings; version 1 may have a limit above what is visible. `Take`, `GiveBack`,
`CacheFile` and `Reclaim` are the kernel's accounting, which is hierarchical and keeps
usage within every limit (`Allowed`). `ReadCounters` and `ReadStat` are the two
reads of the resolver; between them the Pod goes on, so that the view it resolves
may be one the Pod was never in.

### ResourceEvidence and WheelBuild

`ResourceEvidence` has the preflight of `build-wheel.sh`, the parallelism it
selects, and the gate `validate_resource_evidence` of `validate-wheel.py`, as
operators on snapshots. `WheelBuild` is the script: `TakeSnapshot` (with preflight
and selection), `ReadFirstPeak`, `Compile` (the supervised command, whose inside is
`BuildShell`), `TakeEndSnapshot`, `ReadLastPeak`, `Gate`. Its `options` are the
operator's `MAX_JOBS` and `EXT_PARALLEL`, if any, and the two overrides. `PodChanges` is
everything else: a counter moves, appears or vanishes, a limit, the CPUs or the
receipt change. Each step decides on values read earlier, the hazard here.

### WheelManifest and WheelOutput

`WheelManifest` has the two rules that must fit: `Clashes` (`merge-manifests.py`) and
`Matches`, `Selectable` (`select-wheel.py`). `WheelOutput` has a `Matrix` of entries (build
id, asset, runtime tuple, the CUDA of torch and of the toolkit, GPUs) and any number of
builds, each of one entry,
that check their output directory at the start (`CheckEmpty`) and install three
files there at the end (`Open`, `Close`: a file is replaced, then filled), may die
anywhere (`Die`), and may share a directory. `Transfer` copies a file of a
directory in which a build succeeded; `StartMerge`, `ReadManifest`, `VerifyWheel`,
`VerifySums` and `Join` are `load_and_verify` and `merge` on the copies. `MCWheelOutput`
gives TLC a matrix.

### WheelInstall

`resolve_asset`, `materialize_asset` and `install_wheel` of `select-wheel.py`. A file
is an inode; `part` and `final` are the inodes of the two names, `fd` that of an
open descriptor. A selector may die (`Die`) and another may find what it left.
Selectors of one directory may overlap; `overlapped` is a history variable that
records which of them were live together with another. `MCWheelInstall` adds the
symmetry for TLC.

### RuntimeGate

`validate-wheel.py --runtime`: `Setup`, one `Reference` per causal mode, one
`RunCase` or `SkipCase` per required case, `WriteReport`; `Kill` at any moment. What
a call returns is one of `Outcomes` (exception, no tensor, wrong device, shape or
dtype, not finite, metrics good, bad, NaN or raising). `ReleaseAccepts` is
`validate_runtime_report` of `release.yml`, which decides from the report alone.

### ReleasePipeline

`release.yml` from the tag to the public release: `Preflight` resolves the tag,
`Factory` is every build and GPU test, `CheckTag` resolves it again, then `Create`,
`AssertEmptyDraft`, `Upload`, `VerifyDraft`, `Publish` (which may fail before or after the
release became public) and `VerifyPublic`, the postcondition. Every step may fail and be run
again (`RunAgain`: the failed jobs, which keep the resolved commit and the payload,
or all of them). `MoveTag` and `EditDraft` are other people.

## 4. Runs

Module and configuration of each run are in `PROJECT.json`.

| Run | States | Shows |
|---|---|---|
| `gpu_build` | 1,144,312 | GPU build, two candidates, two rounds, every failure, one signal, lost runner: type, `OneKnownPod`, `SourceOnlyOnVerifiedPod`, `EnvironmentMatchesPod`, `FallbackOrder`, the time bounds, `ReturnIsHonest`, `NoFallbackAfterAcceptance`, and the refinement of `PodLease` |
| `cpu` | 2,911,589 | the CPU fallback: upload only to a verified Pod, whose watchdog was armed before sshd and comes last |
| `liveness` | 312,763 | `run_job` always ends; every GPU Pod is gone in the end |
| `signal` | violation | `NoCreateAfterSignal` does not hold, see below |
| `build_safety` | 2,121,053 | shell, supervisor and build with two signals, I/O failures, unreadable entries, processes that outlast SIGKILL: nothing is left behind, success is proved by the evidence, and `SupervisedBuild` is implemented |
| `build_races` | 379,330 | two descendants forking and exiting anywhere: no false report of a vanished or outliving group (`NoFalseAlarm`); once a signal reached the supervisor, or the command exited, the function returns (`RelayedSignalEndsBuild`) |
| `resolver` | 509,400 | every combination of version, limits, counters, assignment and receipt on a changing Pod: the capacity is below every limit (`CapacityIsBinding`), usage is the whole subtree's, on version 1 at least the Pod's own (`SubtreeUsageCounted`), compilers fit (`ParallelJobsFit`), doubt serialises (`SerialisedWhenUnsure`), the C shim agrees (`ShimShowsCapacity`) |
| `wheel_orchestrated` | 401,214 | a build as the orchestrator starts it, with and without `MAX_JOBS`, `EXT_PARALLEL` and overrides: `PublishedWithinAssignment`, `GateAgreesWithPreflight`, `SafeParallelism` |
| `output` | 323,964 | two builds that die or overlap, transfer, merge: `MergedIsOneBuild`; each environment gets exactly the wheel built for it (`SelectionIsExact`); the merge decides, and says no only for a reason (`MergeDecides`) |
| `install_restarts` | 3,257,635 | selectors that die, overlap and are run again, bad sources, old files: who runs beside no other installs, and leaves, what it selected (`OnlyVerifiedWheels`) |
| `runtime_cases` | 1,239,896 | every outcome of every case: `JudgesAgree`, `FailureIsDiagnosed` |
| `release_attempts` | 13,300 | three attempts while tag and draft change: `PublishedIsReviewed`, `NothingReplaced` |

The last three hold by rules that no single test exercises: that an inode is
never written after it was verified, that no comparison finds a NaN, and that the
draft is asserted empty before and compared after the upload.

**Where the code differs from what is said of it.** `signal`: a signal during the
deletion of a rejected Pod is swallowed as a failed attempt
(`tools/runpod_job.py:1148`), and the next candidate's Pod is created, although the
handler announces "terminating the active Pod" (`:1583`).

Eight more configurations are not runs of `PROJECT.json` but are kept to be run by
hand; each ends in a counterexample:

* `RunpodJob_artifacts.cfg`, `ArtifactsCopiedBack`: with a second or less left,
  `run_job` skips the download (`tools/runpod_job.py:1434`) and reports success
  without artifacts; its docstring (`:7`) says that artifacts are copied back.
* `RunpodJob_deletion.cfg`, `DeletionAlwaysRetried`: a signal at the start of the
  `finally` block, or in the sleep between two deletion attempts, leaves `run_job`
  with the Pod alive and attempts unspent; `docs/runpod-orchestration.md:302` says
  that deletion always runs and is retried three times. `--terminate-after` still
  removes a GPU Pod (`PodsReclaimed`).
* `BuildShell_sigint.cfg`, `EverySignalIsForwarded`: a SIGINT relayed while the
  supervisor's interpreter starts is discarded, and not relayed again;
  `docs/resource-reporting.md:150` says that HUP, INT and TERM are forwarded.
* `ResourceResolver_siblings.cfg`, `SiblingsCounted`: on version 1 an ancestor's
  limit comes back as the leaf's hierarchical limit, and usage is then the leaf's
  (`tools/pod_resources.py:858`): siblings are missed, which
  `docs/resource-reporting.md:194-197` excludes. On version 2 the property holds
  (`SubtreeUsageCounted`).
* `WheelBuild_by_hand.cfg`, `GateAgreesWithPreflight`: a build started by hand without
  `RUNPOD_CPU_COUNT` passes the preflight, compiles, and is refused by the
  evidence gate, which requires the count.
* `WheelBuild_max_jobs.cfg`, `SafeOrRefused`: `MAX_JOBS` up to the matrix's cap
  replaces the suggestion without an override, also above what the headroom
  holds; `docs/release-checklist.md:19` says that the preflight selects safe
  parallelism, or refuses. The operator answers for it (`SafeParallelism`).
* `WheelInstall_shared.cfg`, `EveryInstallIsSelected`: two selectors at once in one
  download directory share the name of the partial file, and one installs what
  the other is still writing. Only selectors that overlap are harmed
  (`OnlyVerifiedWheels`).
* `ReleasePipeline_moved_tag.cfg`, `PublishedFromItsTag`: the tag is resolved again
  before the draft is made, not before it becomes public; a tag moved in between
  names a commit the wheels were not built from. `docs/runpod-orchestration.md:285`
  says that it is queried again immediately before publication.

Smaller observations without a run of their own: the smallest accepted grace (60 s)
is shorter than the two cleanup windows a run may need (`BackstopIsLast` has the
condition as its hypothesis); one failing `pod get` while polling ends the job; a
deletion whose reply is lost, and which is then reported as "not found", is retried
and may end in a cleanup error about a Pod that is gone.

## 5. Bounds

* **Pods.** A placement round that is followed by another created no Pod, and a
  Pod rejected is deleted before the next candidate, so a run creates at most
  one Pod per candidate: `Pods` has as many as `Candidates`. Two candidates
  are enough for a Pod to be preceded by a rejected one. Two runs use symmetry,
  `gpu_build` over Pods and `install_restarts` over selectors and over digests, which
  no constant distinguishes; neither checks liveness.
* **Time.** `MaxTime` is at least `RunBound` in the safety runs, so that no run of
  the program is cut short, and at least the latest `--terminate-after` in
  `liveness`. Times are scaled but keep their order: pauses, calls, transfers, hard
  timeout, grace. `liveness` uses two deletion attempts instead of three.
* **Assignments.** Fitting ones for either candidate, and one for each way of
  failing that leads to a different action: fractional count, foreign image,
  unreadable field, foreign flavor, a volume.
* **Signals.** One for the orchestrator: its handler raises at each signal, and one
  at any point is what the properties need, while several can only skip more of
  the cleanup, which the lost runner covers; in `BuildShell` `MaxSignals` bounds what
  reaches the shell, two being the least with which a later signal can overtake
  an earlier one, and signals to the supervisor are unbounded. HUP is treated by
  the code exactly as TERM, so TERM stands for both.
* **Processes.** The leader and one or two descendants: two are needed for one to
  fork another after the leader's exit. `sampleCount` is counted up to the two
  the script demands. Members do not reuse a pid.
* **Placement rounds, attempts, commands**: those of the code, or the least number
  with a first and a last one.
* **Memory** (`resolver`). Two limits, the host's total equal to the larger one,
  assignments equal to either: every order and every tie of host, limits,
  inherited limit, assignment and receipt occurs, and ties are where the two
  implementations could differ. Memory moves in chunks of 2 below a total of 6,
  enough for usage at, below and above an assignment; a job takes 2 and the
  reserve at least 1, so suggestions of one and of two both occur. The 15 % clause
  of the reserve never exceeds its fixed part at these amounts; `FitTheorem` has it.
* **A build** (`wheel_orchestrated`). Limits below, between and above the
  assignments and the minimum, peaks below and above them, and two changes of the
  Pod: one that breaks a condition and one that hides it again. `MAX_JOBS` at the
  reviewed cap, where it needs no override and may exceed the headroom, and above it;
  `EXT_PARALLEL` above its cap; each set or not.
* **Builds and directories** (`output`). Two builds and two directories are enough to
  clash, to overlap in one directory and to be merged in either order; the
  matrix of `MCWheelOutput` has a first entry, two that clash with it in nothing, and
  four that clash in the build id, in the asset, or in the runtime tuple for other GPUs
  or with another toolkit. Environments have every runtime and CUDA of these and any
  set of three GPUs, one of which no entry names.
* **Selectors** (`install_restarts`). Three: two that may overlap and leave something,
  and one that finds it; two digests, and a wheel of two blocks, so that half of it can be there.
* **Cases** (`runtime_cases`). Two implementations in two modes: one case that passes
  and another of the same mode, or of the same implementation, that does not.
* **Attempts** (`release_attempts`). Three attempts and three edits: a failed one, one
  of a moved tag, and one that publishes.

`CHECK_DEADLOCK FALSE` is used where the program stops: `ResourceResolver` after the
snapshot, `WheelBuild`, `WheelOutput`, `WheelInstall` and `RuntimeGate` at their ends,
`ReleasePipeline` when its attempts are spent.

## 6. Fairness

`RunpodJob!FairSpec`: time passes (`Tick`), the runner is scheduled (`JobStep`: each
of its operations has a timeout, so it returns somehow), and the platform
enforces `--terminate-after` for each GPU Pod. Nothing is assumed of boots,
deletions, signals or the watchdog; for CPU Pods no liveness is claimed, because
the watchdog dies with its container, as the documentation says.

`BuildShell!FairSpec`: the shell and the supervisor are scheduled, each timer
expires, a process sent SIGKILL dies, and PID 1 (sshd) or a parent reaps zombies.
The build owes nothing: the command may never exit and may ignore SIGTERM.

`WheelOutput!FairSpec`: each build, which may die, is scheduled until it ends; a
transfer that would change a copy happens; merging is scheduled. The merge then
has an answer because its queue only shrinks and no step of it can wait.

`ResourceResolver`, `WheelBuild`, `WheelInstall`, `RuntimeGate` and `ReleasePipeline` are
linear scripts, and loops with a bound; no liveness is claimed for them.

## 7. Proofs

All theorems hold for every value of the constants that satisfies the modules'
assumptions. An invariant that a run checks is seldom inductive; each module
below states the strengthening, and proves one lemma per action.

`RunpodJobProofs` (any number of Pods, candidates, commands and rounds, any times):
`TypeCorrect`, `OneKnownPodTheorem`, `SourceTheorem` and `LeaseTheorem`
(`Spec => ImplementsLease`). `IInv` adds to the types what the phases mean: while the
runner is placing no Pod exists (`PhaseInv`), once uploading it talks to the Pod
whose verdict was "verified" (`AcceptedInv`), every existing Pod is `podId` or the
one orphan, which ended placement (`KnownInv`), and what was created has an
assignment (`PodInv`). `OneKnownPod` alone is not inductive: a create must be known
to happen while none exists, which is a fact about `pc`. One lemma per action
proves that it is a step of the lease.

Its second part adds how a run proceeds and ends, each invariant inductive
together with `IInv`:

* `RunBoundedTheorem` by `TimeInv`: the operation under way ends by the hard
  timeout plus the REST overrun, and a deletion by that plus the attempts it has
  spent (`OpBound`); no bound can be stated without the attempt counter.
* `BackstopTheorem` by `BackstopInv`: the deadlines of the platform and of every
  watchdog lie the grace behind the hard timeout, and no further behind it than one
  call; with `TimeInv` they lie behind the run. `WatchdogTheorem` needs
  `TerminateGrace > RestSlack`, its hypothesis: with a shorter grace a REST call that overruns could meet the watchdog.
* `OrderTheorem` by `OrderInv` (round, candidate and the list of failures agree)
  and `SpentInv` (a Pod that was created uses up its candidate in all rounds),
  `EnvironmentTheorem` by `ToldInv` (what was exported was read from the Pod that
  is `podId`), `HonestTheorem` by `ResultInv` (what an absent error means at each
  place from the upload on; the artifacts are excepted in the last second, where the
  download is skipped), and the action property `NoFallbackTheorem`.
* `RunEndsTheorem`, what `RunEnds` needs besides fairness: a lexicographic rank, the
  candidates begun in all rounds (`Begun`) and the place within one (`Stage`, which counts
  attempts and commands as well), which every step of the runner advances, each
  phase by its own lemma; and `Active` implies `now <= RunBound`. The runner takes finitely many steps between two ticks, and finitely
  many ticks pass.
* `ReclaimTheorem`, what `PodsReclaimed` needs besides fairness: a GPU Pod that exists
  `SelfTerminateSeconds` after the first call is due for the platform, whatever became
  of the runner; it stays due until it is gone, and what is gone stays so.

`BuildShellProofs` (any descendants and compilers, any signals and any bound on them):
`TypeCorrect`, `NoStraysTheorem`, `VerdictTheorem`, `ShellOutlivesTheorem`,
`SignalTheorem`, `AcceptedTheorem`, `ForwardTheorem`, `BuildTheorem` (`Spec => ImplementsSupervisedBuild`)
and, when `ProcReadable`, `NoFalseAlarmTheorem`. The inductive invariant ties the
supervisor's knowledge to the kernel's state: which timers run and where a
termination returns to at each `pc` (`FlowInv`), that a group found empty stays
empty on every way out (`QuietInv`), that a known child code is the leader's
(`CodeInv`), that what a scan has not yet read and what it has seen are consistent
with the group (`ScanInv`), that SIGKILL precedes the kill windows (`KillInv`), and
what the written evidence says (`ResultInv`). `ShellInv` adds what the shell knows,
`ForwardInv` that a TERM which the shell relayed is recorded or ended the supervisor.
`QuietInv` also shows that the supervisor's last-resort branch ("remained", after
the loop) is never taken. `SupervisorTheorem` is the composition: every behaviour of
`BuildShell` is one of `RssSupervisor`, so that what is proved of the supervisor for any
signals holds under the shell. `EscalationTheorem` is what `RelayedSignalEndsBuild` needs
besides fairness: each wait has its clock (`TimerInv`), and once a signal is recorded
or the leader has exited every step of the supervisor is `Nearer` its end (a later
stage, a loop left behind, or fewer entries left to scan), unless the clock of the loop
it is in still runs.

`ResourceResolverProofs` (any limits, versions, amounts, chunk and host): `TypeCorrect`,
`CapacityTheorem`, `SubtreeTheorem` (siblings except on version 1, the Pod's own usage on
any), `FitTheorem`, `SerialTheorem`, `ShimTheorem`. The state
is simple (`Typed`, and `CountedOnce`: the counters were read at one moment, so that
the parent's includes the leaf's). `TypeCorrect` adds that the accounting stays within
the limits (`AllowedLess`: giving memory back never raises any directory's usage). The
work is in lemmas about the operators: the least of a set of bounds, the
directory that supplies it, the clamps, integer division in the job count, and
that both implementations choose the same ceiling and counter.

`WheelBuildProofs` (any limits, counters, peaks and number of changes):
`TypeCorrect`, `AssignmentTheorem`, `PreflightTheorem` and `ParallelismTheorem`. `FromPod` is what a
snapshot owes to its Pod: the assignment, the vCPUs, a reserve, and a suggestion
that the headroom holds; it is proved of the resolver's operators. `StartInv` carries
it from the first snapshot to the end, since what changes of a Pod is not what a build
inherits; `MeasureInv` says which of the two peaks is measured; `GateInv` what the
gate saw, down to the one thing it may still refuse, CPUs lost during the build.
`TypeCorrect` needs the least of an arbitrary set of limits (`MinNat`), by well-founded
induction through `WFMin`. `PreflightTheorem` assumes that the Pod names its vCPUs
and that no reserve is set to 0: without this the counterexample
`WheelBuild_by_hand.cfg` applies. `ParallelismTheorem` holds for any `MAX_JOBS` and
`EXT_PARALLEL`.

`WheelOutputProofs` (any builds, directories, matrix, GPUs): `TypeCorrect`, `MergedTheorem`,
`ExactTheorem`, `ReasonTheorem` and `MergeWorkTheorem`. `FilesInv` says that a file
under installation is there; `MergeInv`
that each step of the merge leaves what it verified, since copies do not change
while merging, and that the merged set was joined without a clash: two artifacts of it
never match one environment, and each carries the runtime its build was checked with. `FailInv` follows a
failed merge back to its cause: two builds that both found one directory empty
(`Overlapped`), or two verified entries that clash (`Clashing`). `MergeWork`, the manifests
still queued and the checks of the one in hand, falls with every step.

`WheelInstallProofs` (any selectors, overlapping or not, any digests and blocks):
`TypeCorrect` and `VerifiedTheorem`. `Turns`: two live selectors are both in `overlapped`;
`Strays`: what a selector meets under the partial name after its cleanup, and what it
holds open, is its own or comes from one that overlapped; hence `OwnInode`: who does
not overlap fills an inode of its own that is not the final file; `Verified`: what it
hashed good stays so until it is installed.

`RuntimeGateProofs`: `TypeCorrect`, `JudgesTheorem`, `DiagnosedTheorem` and
`GateEndsTheorem`. `Once`: a case has one result;
`Judged`: a result without an error is one of a correct call, by a lemma over all
outcomes; `Reported`: the report is what the results say; `Referred`: cases are called
only when every reference is known. A step that stays in its phase leaves fewer
references or fewer cases (`Closer`), and a pending case can always be answered.

`ReleasePipelineProofs`: `TypeCorrect`, `OnePayloadTheorem` (a public release is one payload, also if the
tag moves), `ReplacedTheorem`, and `ReviewedTheorem`, which assumes that the tag stays
after its last check (`~TagMayMoveLast`), the gap that `ReleasePipeline_moved_tag.cfg`
shows. `Building` says what the workflow knows at each step, `TagInv` adds the tag.

Only model-checked: the four liveness properties, `RunEnds`, `PodsReclaimed`,
`RelayedSignalEndsBuild` and `MergeDecides`. Each has its safety half proved (a rank that
falls, a condition that stays, a clock behind every wait, a reason for each refusal);
the last step, from there to "eventually" by fairness, needs ENABLED, which is outside
the prover's reach. No module here uses recursion, which keeps them all
within the prover's reach; induction over data and RECURSIVE operators would not be.

## 8. What is not modelled

* In the orchestrator: local archives and the known-hosts file, argument and JSON
  formats, command-line parsing, the CPU time the runner spends between
  calls, Pods that the platform removes before their time, a REST status older
  than the Pod's state, and a signal between the creation of the SSH transport and
  its close. An endpoint is identified with the Pod it reaches. A timeout is cut at
  the deadline without the floor of 0.1 s, which is below the clock's step, and
  memory is compared in thousandths of a GB, not checked to be whole bytes.
* In the supervisor: byte counts and peaks, a descendant that calls `setsid` and so
  leaves the group, a supervisor killed by SIGKILL or by the OOM killer (its group
  is then an orphan that only the Pod's end removes), reuse of process ids.
* In the resolver: how the controllers are found in `mountinfo` and
  `/proc/self/cgroup`, `memory.high`, swap, output formats. The headroom is that of
  the directory with the smallest limit, as in the code; an ancestor above the
  mount root that version 2 hides is not visible to the program either, and so is
  no part of the Pods of `ResourceResolver`. Under an assignment the code reads the
  leaf's counter twice in a row, the model once. In `ResourceResolver` the host has all its
  memory available, no knob is set, and no limit is zero, although the code takes zero
  for a finite limit.
* In the shim: interposition, the cache of descriptors, swap, the text it writes.
* In the build script: fetching and patching the source, the archive's inspection,
  the tools it runs before its first snapshot. A cgroup peak file is readable
  whenever the counters are.
* In `WheelOutput` and `WheelInstall`: a redirect away from HTTPS is a source that
  delivers nothing; hashing a file is one step; the order of the
  lines in a merged SHA256SUMS; the detection of the environment through torch.
* In `RuntimeGate`: the computation itself; cases are taken in any order.
* In `ReleasePipeline`: the jobs of `build.yml` are one step, `Factory`; a maintainer
  leaves the release alone between its verification and its publication, and
  does not publish by hand.
* The components marked `not_modelled` in `PROJECT.json`: image files, environment
  scripts, configuration data and a patch have no state to explore. Reading the
  wheel archive and its device code (`inspect-wheel.py`) is a sequential
  computation on one file, which tests reach.

The type invariants of the modules of items 4 to 7 of the plan are theorems
(`TypeCorrect` of each proof module), and no run spends a check on them.

## 9. How to run

In this directory, `tlc -workers 2 -config BuildShell_safety.cfg BuildShell.tla`
checks a run (`MCRunpodJob.tla` with the `RunpodJob_*.cfg`, `MCWheelOutput.tla` and
`MCWheelInstall.tla` with `WheelOutput_builds.cfg` and `WheelInstall_restarts.cfg`, otherwise the
module the configuration is named for), and `tlapm RunpodJobProofs.tla` checks the proofs of a
module. `PROJECT.json` maps every definition to the lines it models and names, for
each property, a mutation of the model that violates it; the mutated forms stand
in the modules before the definitions they vary, marked "Mutant of".
