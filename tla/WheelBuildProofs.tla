-------------------------- MODULE WheelBuildProofs --------------------------
(***************************************************************************)
(* WheelBuild, for any limits, counters, assignments and peaks, and any    *)
(* number of changes of the Pod: a published wheel was built within its    *)
(* assignment.                                                             *)
(*                                                                         *)
(* FromPod is what a snapshot owes to the Pod it was taken of, and to the  *)
(* part of it that cannot change; the invariant carries that of the first  *)
(* snapshot to the end, where the gate compares the second one with it.    *)
(* The least of a set of numbers (MinNat) is found by induction over Nat.  *)
(***************************************************************************)
EXTENDS WheelBuild, WellFoundedInduction, TLAPS

Amounts == Nat \ {0}

ReserveOf(knob, capacity) == Or(knob, Larger(DefaultReserve, (capacity * 15 + 99) \div 100))

FromPod(s, p, cap) ==
    /\ s.memory.assigned = p.assigned
    /\ s.memory.capacity \in Nat /\ s.memory.available \in Nat /\ s.reserve \in Nat
    /\ s.runpodCpus = IF p.runpod > 0 THEN p.runpod ELSE Unset
    /\ s.cpus \in Nat /\ (p.runpod > 0 => s.cpus <= p.runpod)
    /\ s.forced <=> p.assigned # Unset /\ ~s.memory.trustworthy
    /\ s.memory.peakMode = "cgroup" =>
          /\ s.memory.scope \in {"cgroup-capacity", "pod-cgroup", "ambiguous-cgroup-root"}
          /\ s.memory.trustworthy \/ s.memory.scope = "ambiguous-cgroup-root"
    /\ s.perJob = PerJobMemory
    /\ s.maxJobsCap = IF s.forced THEN 1 ELSE cap
    /\ s.suggested \in Amounts /\ s.suggested <= s.maxJobsCap
    /\ s.suggested > 1 => s.reserve + s.suggested * PerJobMemory <= s.memory.available
    /\ 0 \notin Reserves /\ s.memory.capacity > 0 => s.reserve > 0
    /\ s.reserve = ReserveOf(p.reserve, s.memory.capacity)
    /\ s.memory.source = "cgroup" => s.memory.limited /\ s.memory.limit = s.memory.capacity
    /\ s.memory.usageDir = 0 => s.memory.usage = Unset

-----------------------------------------------------------------------------
(* A few numbers.                                                          *)

LEMMA MinFact ==
    ASSUME NEW a \in Int, NEW b \in Int, NEW c \in Int,
           NEW S \in SUBSET {a, b, c}, S # {}
    PROVE  Min(S) \in S /\ \A y \in S : Min(S) <= y
<1>1. \E x \in S : \A y \in S : x =< y
  <2> SUFFICES ASSUME \A x \in S : \E y \in S : ~(x =< y)
               PROVE  FALSE
    OBVIOUS
  <2>1. \A x \in S : x = a \/ x = b \/ x = c
    OBVIOUS
  <2>2. a \in S => (b \in S /\ b < a) \/ (c \in S /\ c < a)
    BY <2>1
  <2>3. b \in S => (a \in S /\ a < b) \/ (c \in S /\ c < b)
    BY <2>1
  <2>4. c \in S => (a \in S /\ a < c) \/ (b \in S /\ b < c)
    BY <2>1
  <2>5. a \in S \/ b \in S \/ c \in S
    BY <2>1
  <2>. QED  BY <2>2, <2>3, <2>4, <2>5
<1>. QED  BY <1>1 DEF Min

(* The naturals are well founded, so a set of them has a smallest one.     *)
LEMMA MinNat ==
    ASSUME NEW S \in SUBSET Nat, S # {}
    PROVE  Min(S) \in S /\ \A n \in S : Min(S) <= n
<1> DEFINE R == OpToRel(<, Nat)
<1>1. IsWellFoundedOn(R, Nat)
  BY NatLessThanWellFounded
<1>2. \A x, y \in Nat : x < y => <<x, y>> \in R
  BY DEF OpToRel
<1> HIDE DEF R
<1>3. PICK x \in S : \A y \in S : <<y, x>> \notin R
  BY <1>1, WFMin
<1>4. \A y \in S : ~(y < x)
  BY <1>2, <1>3
<1>5. \A y \in S : x <= y
  BY <1>4
<1>. QED  BY <1>5 DEF Min

LEMMA DivFact ==
    ASSUME NEW a \in Nat, NEW b \in Amounts, NEW q \in Nat, q <= a \div b
    PROVE  q * b <= a
<1>1. a \div b \in Nat /\ (a \div b) * b <= a
  BY DEF Amounts
<1>2. \A x, y \in Nat : x <= y => x * b <= y * b
  BY DEF Amounts
<1>3. q * b <= (a \div b) * b /\ q * b \in Nat /\ (a \div b) * b \in Nat
  BY <1>1, <1>2 DEF Amounts
<1>. QED  BY <1>1, <1>3

-----------------------------------------------------------------------------
(* What the resolver makes of a Pod.                                       *)

ViewOK(v) ==
    /\ v.version \in {0, 2} /\ v.scoped \in BOOLEAN
    /\ DOMAIN v.dirs = {Leaf}
    /\ v.dirs[Leaf].limit \in Nat \cup {Unset}
    /\ v.dirs[Leaf].usage \in Nat \cup {Unset, Malformed}
    /\ v.dirs[Leaf].inactive = 0
    /\ v.host.total \in Amounts /\ v.host.available \in Nat
    /\ v.assigned \in Amounts \cup {Unset}
    /\ v.cpus.host \in Amounts /\ v.cpus.runpod \in Nat
    /\ v.cpus.affinity = Unset /\ v.cpus.cpusets = {} /\ v.cpus.quotas = {}
    /\ v.knobs.perJob \in Amounts /\ v.knobs.maxJobs \in Amounts
    /\ v.knobs.reserve \in Nat \cup {Unset}

LEMMA LimitFact ==
    ASSUME NEW v, ViewOK(v)
    PROVE  MemoryLimit(v) \in Nat
<1> DEFINE S == MemoryBounds(v)
           l == v.dirs[Leaf].limit
<1>1. v.host.total \in S /\ S \in SUBSET {l, l, v.host.total}
  BY DEF MemoryBounds, LimitedDirs, ViewOK, Amounts
<1>2. S \subseteq Nat
  BY DEF MemoryBounds, LimitedDirs, ViewOK, Amounts, Known, Unset
<1>3. l \in Int /\ v.host.total \in Int
  BY DEF ViewOK, Amounts, Unset
<1>4. EffectiveLimit(v) = Min(S)
  BY <1>1 DEF EffectiveLimit
<1> HIDE DEF S, l
<1>5. Min(S) \in S
  BY <1>1, <1>3, MinFact
<1>6. ~InheritedLimit(v)
  BY DEF InheritedLimit, ViewOK
<1>. QED  BY <1>2, <1>4, <1>5, <1>6 DEF MemoryLimit

(* What the ways to a snapshot's memory have in common.                    *)
Usual(m) ==
    /\ m.capacity \in Nat /\ m.available \in Nat
    /\ m.trustworthy \in BOOLEAN /\ m.peakEligible \in BOOLEAN
    /\ m.peakMode = "cgroup" =>
          /\ m.scope \in {"cgroup-capacity", "pod-cgroup", "ambiguous-cgroup-root"}
          /\ m.trustworthy \/ m.scope = "ambiguous-cgroup-root"
    /\ m.source = "cgroup" => m.limited /\ m.limit = m.capacity
    /\ m.usageDir = 0 => m.usage = Unset

LEMMA HostFact ==
    ASSUME NEW v, ViewOK(v), NEW known \in BOOLEAN
    PROVE  LET m == HostMemory(v, known) IN
             /\ Usual(m) /\ m.assigned = Unset /\ m.limited = FALSE
BY DEF HostMemory, Usual, ViewOK, Smaller, Amounts, Leaf, Unset

LEMMA CgroupFact ==
    ASSUME NEW v, ViewOK(v), v.version # 0, LimitDir(v) # 0,
           NEW assigned, NEW m, m = [CgroupMemory(v) EXCEPT !.assigned = assigned]
    PROVE  Usual(m) /\ m.assigned = assigned
<1> DEFINE d == LimitDir(v)
           limit == MemoryLimit(v)
           u == v.dirs[Leaf].usage
<1>1. d = Leaf
  <2>1. ~InheritedLimit(v)
    BY DEF InheritedLimit, ViewOK
  <2>2. SupplyingDir(v) # 0
    BY <2>1 DEF LimitDir
  <2> DEFINE E == {e \in LimitedDirs(v) : v.dirs[e].limit = EffectiveLimit(v)}
  <2>3. E # {} /\ SupplyingDir(v) = Max(E)
    BY <2>2 DEF SupplyingDir
  <2>4. E = {1}
    BY <2>3 DEF LimitedDirs, ViewOK, Leaf
  <2>5. Max({1}) = 1
    BY DEF Max
  <2>. QED  BY <2>1, <2>3, <2>4, <2>5 DEF LimitDir, Leaf
<1>2. limit \in Nat
  BY LimitFact
<1>3. u \in Nat \cup {Unset, Malformed} /\ v.dirs[Leaf].inactive = 0
  BY DEF ViewOK
<1> HIDE DEF limit, d
<1>4. CASE Readable(v, Leaf)
  <2>1. u \in Nat
    BY <1>3, <1>4 DEF Readable, Known, Unset, Malformed
  <2>2. InactiveFile(v, Leaf) = 0
    BY <1>3, <2>1 DEF InactiveFile, Smaller
  <2>3. /\ m.capacity = limit /\ m.available = Larger(0, limit - (u - 0))
        /\ m.trustworthy = TRUE /\ m.peakEligible = TRUE /\ m.peakMode = "cgroup"
        /\ m.scope = "cgroup-capacity" /\ m.assigned = assigned
        /\ m.limited = TRUE /\ m.limit = limit /\ m.usageDir = Leaf
    BY <1>1, <1>4, <2>2 DEF CgroupMemory, d, limit
  <2>4. m.available \in Nat
    BY <1>2, <2>1, <2>3 DEF Larger
  <2>5. m.usageDir # 0
    BY <2>3 DEF Leaf
  <2>. QED  BY <1>2, <2>3, <2>4, <2>5 DEF Usual
<1>5. CASE ~Readable(v, Leaf)
  <2>1. Readable(v, Leaf) = FALSE
    BY <1>5 DEF Readable, Known
  <2>2. /\ m.capacity = limit /\ m.available = Larger(0, limit - (limit - 0))
        /\ m.trustworthy = FALSE /\ m.peakEligible = FALSE /\ m.peakMode = "unavailable"
        /\ m.assigned = assigned /\ m.limited = TRUE /\ m.limit = limit /\ m.usage = Unset
    BY <1>1, <2>1 DEF CgroupMemory, d, limit
  <2>3. m.available \in Nat
    BY <1>2, <2>2 DEF Larger
  <2>. QED  BY <1>2, <2>2, <2>3 DEF Usual
<1>. QED  BY <1>4, <1>5

LEMMA AssignedFact ==
    ASSUME NEW v, ViewOK(v), v.assigned # Unset, NEW before, NEW m, m = AssignedMemory(v, before)
    PROVE  Usual(m) /\ m.assigned = v.assigned
<1> DEFINE u == v.dirs[Leaf].usage
           inactive == IF LeafEligible(v) /\ v.scoped THEN InactiveFile(v, Leaf) ELSE 0
<1>1. v.assigned \in Nat /\ v.scoped \in BOOLEAN /\ LeafEligible(v) \in BOOLEAN
  BY DEF ViewOK, Amounts, LeafEligible
<1>2. LeafEligible(v) => u \in Nat
  BY DEF LeafEligible, Readable, Known, ViewOK, Unset, Malformed
<1>3. LeafEligible(v) => inactive = 0
  BY <1>2 DEF InactiveFile, Smaller, ViewOK
<1>4. /\ m.capacity = v.assigned /\ m.assigned = v.assigned
      /\ m.available = IF LeafEligible(v) THEN Larger(0, v.assigned - (u - inactive)) ELSE 0
      /\ m.peakEligible = LeafEligible(v)
      /\ m.trustworthy = (LeafEligible(v) /\ v.scoped)
      /\ m.scope = IF LeafEligible(v) /\ v.scoped THEN "pod-cgroup"
                   ELSE IF LeafEligible(v) THEN "ambiguous-cgroup-root" ELSE "unavailable"
      /\ m.peakMode = IF LeafEligible(v) THEN "cgroup"
                      ELSE IF RssFallback(v) THEN "process-group-rss" ELSE "unavailable"
      /\ m.source = "assignment" /\ (m.usageDir = 0 => m.usage = Unset)
  BY DEF AssignedMemory, Leaf
<1> HIDE DEF u, inactive
<1>5. m.available \in Nat
  BY <1>1, <1>2, <1>3, <1>4 DEF Larger
<1>. QED  BY <1>1, <1>4, <1>5 DEF Usual

LEMMA ResolvedFact ==
    ASSUME NEW v, ViewOK(v), NEW m, m = ResolvedMemory(v)
    PROVE  Usual(m) /\ m.assigned = v.assigned
<1> DEFINE c == CollectMemory(v)
<1>1. CASE v.version = 0 \/ LimitDir(v) = 0
  <2>1. c = HostMemory(v, FALSE) \/ c = HostMemory(v, Readable(v, Leaf))
    BY <1>1 DEF CollectMemory
  <2>2. Readable(v, Leaf) \in BOOLEAN
    BY DEF Readable, Known
  <2>3. Usual(c) /\ c.assigned = Unset /\ c.limited = FALSE
    BY <2>1, <2>2, HostFact
  <2>4. m = IF v.assigned = Unset THEN c ELSE AssignedMemory(v, c)
    BY <2>3 DEF ResolvedMemory, ApplyAssignment
  <2>. QED  BY <2>3, <2>4, AssignedFact
<1>2. CASE v.version # 0 /\ LimitDir(v) # 0
  <2>1. c = CgroupMemory(v)
    BY <1>2 DEF CollectMemory
  <2>2. c.assigned = Unset /\ Usual([c EXCEPT !.assigned = Unset])
    BY <1>2, <2>1, CgroupFact DEF CgroupMemory
  <2>3. m \in {c, [c EXCEPT !.assigned = v.assigned], AssignedMemory(v, c)}
        /\ (v.assigned = Unset => m = c)
        /\ (m = c => v.assigned = Unset \/ m = AssignedMemory(v, c)
                      \/ m = [c EXCEPT !.assigned = v.assigned])
    BY DEF ResolvedMemory, ApplyAssignment
  <2>4. CASE v.assigned = Unset
    <3>1. [c EXCEPT !.assigned = Unset] = c
      BY <2>1, <2>2 DEF CgroupMemory
    <3>. QED  BY <2>2, <2>3, <2>4, <3>1
  <2>5. CASE v.assigned # Unset
    BY <1>2, <2>1, <2>3, <2>5, CgroupFact, AssignedFact
  <2>. QED  BY <2>4, <2>5
<1>. QED  BY <1>1, <1>2

(* recommend_build_jobs.                                                   *)
LEMMA JobsFact ==
    ASSUME NEW v, ViewOK(v), NEW m, Usual(m)
    PROVE  LET jobs_ == SuggestedJobs(v, m) IN
           /\ Reserve(v, m) \in Nat /\ Reserve(v, m) = ReserveOf(v.knobs.reserve, m.capacity)
           /\ v.knobs.reserve # 0 /\ m.capacity > 0 => Reserve(v, m) > 0
           /\ EffectiveCpus(v) \in Amounts
           /\ v.cpus.runpod > 0 => EffectiveCpus(v) <= v.cpus.runpod
           /\ jobs_ \in Amounts /\ jobs_ <= MaxJobsCap(v, m)
           /\ jobs_ > 1 => Reserve(v, m) + jobs_ * v.knobs.perJob <= m.available
           /\ PerJob(v) = v.knobs.perJob
           /\ MaxJobsCap(v, m) = IF ForcedSingleJob(m) THEN 1 ELSE v.knobs.maxJobs
<1> DEFINE n == SuggestedJobs(v, m)
           reserve == Reserve(v, m)
           usable == Usable(v, m)
           byMemory == JobsByMemory(v, m)
           cap == MaxJobsCap(v, m)
           cpus == EffectiveCpus(v)
           per == v.knobs.perJob
<1>1. PerJob(v) = per /\ per \in Amounts
  BY DEF PerJob, ViewOK, Amounts
<1>2. m.capacity \in Nat /\ m.available \in Nat /\ m.peakEligible \in BOOLEAN
  BY DEF Usual
<1>3. (m.capacity * 15 + 99) \div 100 \in Nat
      /\ (m.capacity > 0 => (m.capacity * 15 + 99) \div 100 > 0)
  BY <1>2
<1>4. reserve = Or(v.knobs.reserve, Larger(DefaultReserve, (m.capacity * 15 + 99) \div 100))
  BY DEF Reserve
<1>5. v.knobs.reserve \in Nat \cup {Unset} /\ DefaultReserve \in Nat
  BY DefaultsAssumption DEF ViewOK, DefaultsAssumption
<1>18. reserve = ReserveOf(v.knobs.reserve, m.capacity)
  BY <1>4 DEF ReserveOf
<1>6. reserve \in Nat /\ (v.knobs.reserve # 0 /\ m.capacity > 0 => reserve > 0)
  BY <1>3, <1>4, <1>5 DEF Or, Known, Larger, Unset
<1> HIDE DEF reserve, per
<1>7. usable = Larger(0, (IF m.peakEligible THEN m.available ELSE 0) - reserve)
  BY DEF Usable, reserve
<1>8. usable \in Nat /\ (usable > 0 => usable <= m.available - reserve)
  BY <1>2, <1>6, <1>7 DEF Larger
<1> HIDE DEF usable
<1>9. byMemory = Larger(1, usable \div per)
  BY <1>1 DEF JobsByMemory, usable
<1>10. usable \div per \in Nat
  BY <1>1, <1>8 DEF Amounts
<1>11. byMemory \in Amounts /\ (byMemory > 1 => byMemory = usable \div per)
  BY <1>9, <1>10 DEF Larger, Amounts
<1> HIDE DEF byMemory
<1>12. cpus \in Amounts /\ (v.cpus.runpod > 0 => cpus <= v.cpus.runpod)
  <2> DEFINE S == CpuBounds(v)
             h == v.cpus.host
             r == v.cpus.runpod
  <2>1. S = {h} \cup ({Unset, r} \cap Amounts)
    BY DEF CpuBounds, Quotas, ViewOK, Larger, Amounts
  <2>2. h \in Amounts /\ r \in Nat
    BY DEF ViewOK
  <2> HIDE DEF S, h, r
  <2>3. S \in SUBSET {h, r, r} /\ h \in S /\ S \subseteq Amounts /\ (r > 0 => r \in S)
    BY <2>1, <2>2 DEF Amounts, Unset
  <2>4. S # {} /\ h \in Int /\ r \in Int
    BY <2>2, <2>3 DEF Amounts
  <2>5. Min(S) \in S /\ \A y \in S : Min(S) <= y
    BY <2>3, <2>4, MinFact
  <2>. QED  BY <2>3, <2>5 DEF EffectiveCpus, S, r
<1>13. cap = (IF ForcedSingleJob(m) THEN 1 ELSE v.knobs.maxJobs) /\ cap \in Amounts
  BY DEF MaxJobsCap, ViewOK, Amounts
<1> HIDE DEF cap, cpus
<1> DEFINE least == Min({cpus, byMemory, cap})
<1>14. n = Larger(1, least)
  BY DEF SuggestedJobs, cpus, byMemory, cap
<1>15. least \in {cpus, byMemory, cap} /\ \A x \in {cpus, byMemory, cap} : least <= x
  <2>1. cpus \in Int /\ byMemory \in Int /\ cap \in Int
    BY <1>11, <1>12, <1>13 DEF Amounts
  <2>2. {cpus, byMemory, cap} \in SUBSET {cpus, byMemory, cap} /\ {cpus, byMemory, cap} # {}
    OBVIOUS
  <2>. QED  BY <2>1, <2>2, MinFact
<1> HIDE DEF least
<1>16. n \in Amounts /\ n <= byMemory /\ n <= cap
  BY <1>11, <1>12, <1>13, <1>14, <1>15 DEF Larger, Amounts
<1> HIDE DEF n
<1>17. ASSUME n > 1 PROVE reserve + n * per <= m.available
  <2>1. n <= usable \div per /\ n \in Nat
    BY <1>10, <1>11, <1>16, <1>17 DEF Amounts
  <2>2. n * per <= usable
    BY <1>1, <1>8, <2>1, DivFact
  <2>3. n * per \in Nat /\ n * per > 0
    BY <1>1, <1>16 DEF Amounts
  <2>. QED  BY <1>2, <1>6, <1>8, <2>2, <2>3
<1>. QED  BY <1>1, <1>6, <1>12, <1>13, <1>16, <1>17, <1>18 DEF n, reserve, cpus, cap, per

LEMMA ViewFact ==
    ASSUME NEW p \in Pods, NEW cap \in Amounts
    PROVE  ViewOK(ViewOf(p, cap))
<1> DEFINE v == ViewOf(p, cap)
<1>1. v.dirs = <<[limit |-> p.limit, usage |-> p.usage, inactive |-> 0]>>
  BY DEF ViewOf
<1>2. DOMAIN v.dirs = {Leaf} /\ v.dirs[Leaf] = [limit |-> p.limit, usage |-> p.usage, inactive |-> 0]
  BY <1>1 DEF Leaf
<1>3. /\ p.version \in {0, 2} /\ p.scoped \in BOOLEAN
      /\ p.limit \in Nat \cup {Unset} /\ p.usage \in Nat \cup {Unset, Malformed}
      /\ p.assigned \in Amounts \cup {Unset} /\ p.cpus \in Amounts /\ p.runpod \in Nat
      /\ p.reserve \in Nat \cup {Unset}
  BY BuildAssumption DEF Pods, Amounts
<1>4. HostTotal \in Amounts /\ HostTotal \in Nat /\ PerJobMemory \in Amounts
  BY BuildAssumption DEF Amounts
<1>5. /\ v.version = p.version /\ v.scoped = p.scoped /\ v.assigned = p.assigned
      /\ v.host = [total |-> HostTotal, available |-> HostTotal]
      /\ v.cpus = [host |-> p.cpus, affinity |-> Unset, cpusets |-> {}, quotas |-> {},
                   runpod |-> p.runpod]
      /\ v.knobs = [perJob |-> PerJobMemory, reserve |-> p.reserve, maxJobs |-> cap]
  BY DEF ViewOf
<1> HIDE DEF v
<1>6. ViewOK(v)
  BY <1>2, <1>3, <1>4, <1>5 DEF ViewOK
<1>. QED  BY <1>6 DEF v

LEMMA SnapshotFact ==
    ASSUME NEW p \in Pods, NEW cap \in Amounts, NEW s,
           s = CollectResources(ViewOf(p, cap)), ~s.error
    PROVE  FromPod(s, p, cap)
<1> DEFINE v == ViewOf(p, cap)
           m == ResolvedMemory(v)
<1>1. ViewOK(v)
  BY ViewFact
<1>2. s = Resolved(v)
  BY DEF CollectResources, Refused
<1>3. /\ s.memory = m /\ s.cpus = EffectiveCpus(v)
      /\ s.runpodCpus = (IF v.cpus.runpod > 0 THEN v.cpus.runpod ELSE Unset)
      /\ s.forced = ForcedSingleJob(m) /\ s.suggested = SuggestedJobs(v, m)
      /\ s.maxJobsCap = MaxJobsCap(v, m) /\ s.perJob = PerJob(v) /\ s.reserve = Reserve(v, m)
  BY <1>2 DEF Resolved
<1>4. /\ v.assigned = p.assigned /\ v.cpus.runpod = p.runpod
      /\ v.knobs.perJob = PerJobMemory /\ v.knobs.maxJobs = cap
      /\ v.knobs.reserve = p.reserve
  BY DEF ViewOf
<1>5. 0 \notin Reserves => p.reserve # 0
  BY DEF Pods, Unset
<1> HIDE DEF v, m
<1>6. Usual(m) /\ m.assigned = v.assigned
  BY <1>1, ResolvedFact DEF m
<1>7. ForcedSingleJob(m) <=> p.assigned # Unset /\ ~m.trustworthy
  BY <1>4, <1>6 DEF ForcedSingleJob
<1>. QED  BY <1>1, <1>3, <1>4, <1>5, <1>6, <1>7, JobsFact DEF FromPod, Usual, Amounts

-----------------------------------------------------------------------------
(* The inductive invariant.                                                *)

Typed ==
    /\ pod \in Pods /\ mark \in Peaks
    /\ options \in Options
    /\ peak \in [first : Nat, last : Nat] /\ rss.peak \in Nat

(* What the first snapshot says of the Pod holds to the end.               *)
StartInv ==
    Started =>
        /\ FromPod(start, pod, JobsCapFor(options))
        /\ OptionsAllowed(options) /\ Preflight(start, options)
        /\ jobs = SelectedJobs(start, options)
        /\ ext = SelectedExt(start, options) /\ ExtAllowed(ext, options)

(* One of the two measurements is made, the one the snapshot named.        *)
MeasureInv ==
    /\ pc \in {"snapshot", "peak", "compile"} => peak.last = Nothing /\ rss.peak = Nothing
    /\ Started /\ start.memory.peakMode = "cgroup" => rss.peak = Nothing
    /\ Started /\ start.memory.peakMode # "cgroup" => peak.last = Nothing
    /\ pc \in {"end", "endpeak", "gate", "published"}
            /\ start.memory.peakMode = "process-group-rss" => rss.peak # Nothing

(* What the script itself has found in order on the way to the gate.       *)
CheckedInv ==
    /\ pc \in {"compile", "end", "endpeak", "gate"} /\ start.memory.peakMode = "cgroup"
          => PeakPossible(start, peak.first)
    /\ pc \in {"end", "endpeak", "gate"} /\ start.memory.peakMode = "process-group-rss"
          => RssFits(start, rss)
    /\ pc \in {"endpeak", "gate"} =>
          FromPod(end, pod, JobsCapFor(options)) /\ SameAssignment(start, end)
    /\ pc = "gate" /\ start.memory.peakMode = "cgroup"
          => PeakPossible(end, peak.last) /\ peak.last >= peak.first

GateInv == Published => ValidateResourceEvidence(Evidence)

IInv == Typed /\ StartInv /\ MeasureInv /\ CheckedInv /\ GateInv

LEMMA CapFact ==
    ASSUME Typed PROVE JobsCapFor(options) \in Amounts
<1>1. options.maxJobs \in MaxJobsOptions \cup {Unset}
  BY DEF Typed, Options
<1>2. options.maxJobs = Unset \/ options.maxJobs \in Amounts
  BY <1>1, BuildAssumption DEF Amounts
<1>3. MatrixMaxJobs \in Amounts
  BY MatrixAssumption DEF Amounts
<1>. QED  BY <1>2, <1>3 DEF JobsCapFor, Or, Known, Unset, Amounts

LEMMA InitInv == Init => IInv
<1> SUFFICES ASSUME Init PROVE IInv
  OBVIOUS
<1>1. Typed
  BY DEF Init, Typed, Nothing
<1>2. StartInv /\ MeasureInv /\ CheckedInv /\ GateInv
  BY DEF Init, StartInv, MeasureInv, CheckedInv, GateInv, Started, Published, Nothing
<1>. QED  BY <1>1, <1>2 DEF IInv

(* The Pod changes, but not what a build inherits of it.                   *)
Inherits(p, q) == p.assigned = q.assigned /\ p.runpod = q.runpod /\ p.reserve = q.reserve

LEMMA PodChangesStep ==
    ASSUME IInv, PodChanges PROVE IInv'
<1>1. \E p : /\ Change(p) /\ p \in Pods
             /\ Inherits(p, pod)
  <2>1. pod \in Pods
    BY DEF IInv, Typed
  <2>2. ASSUME NEW n \in Usages \cup {Unset, Malformed}
        PROVE  LET p == [pod EXCEPT !.usage = n] IN
                 p \in Pods /\ Inherits(p, pod)
    BY <2>1, <2>2 DEF Pods, Inherits
  <2>3. ASSUME NEW n \in Limits \cup {Unset}
        PROVE  LET p == [pod EXCEPT !.limit = n] IN
                 p \in Pods /\ Inherits(p, pod)
    BY <2>1, <2>3 DEF Pods, Inherits
  <2>4. ASSUME NEW n \in Cpus
        PROVE  LET p == [pod EXCEPT !.cpus = n] IN
                 p \in Pods /\ Inherits(p, pod)
    BY <2>1, <2>4 DEF Pods, Inherits
  <2>5. LET p == [pod EXCEPT !.receipt = ~@] IN
          p \in Pods /\ Inherits(p, pod)
    BY <2>1 DEF Pods, Inherits
  <2>. QED  BY <2>2, <2>3, <2>4, <2>5 DEF PodChanges
<1>2. /\ pod' \in Pods /\ Inherits(pod', pod)
      /\ mark' \in Peaks
      /\ UNCHANGED <<options, pc, start, end, jobs, ext, peak, rss>>
  BY <1>1 DEF Change
<1>3. \A s : FromPod(s, pod, JobsCapFor(options)) => FromPod(s, pod', JobsCapFor(options))
  BY <1>2 DEF FromPod, Inherits
<1>4. Typed'
  BY <1>2 DEF IInv, Typed
<1>5. StartInv'
  BY <1>2, <1>3 DEF IInv, StartInv, Started
<1>6. MeasureInv' /\ GateInv'
  BY <1>2 DEF IInv, MeasureInv, GateInv, Started, Published, Evidence
<1>7. CheckedInv'
  BY <1>2, <1>3 DEF IInv, CheckedInv
<1>. QED  BY <1>4, <1>5, <1>6, <1>7 DEF IInv

LEMMA TakeSnapshotStep ==
    ASSUME IInv, TakeSnapshot PROVE IInv'
<1>1. /\ pc = "snapshot" /\ pc' \in {"peak", "failed"}
      /\ UNCHANGED <<pod, mark, options, end, peak, rss, changes>>
  BY DEF TakeSnapshot, Continue
<1>2. Typed' /\ GateInv'
  BY <1>1 DEF IInv, Typed, GateInv, Published
<1>3. StartInv'
  <2> SUFFICES ASSUME pc' = "peak"
               PROVE  StartInv'
    BY <1>1 DEF StartInv, Started
  <2>1. /\ start' = ResourceHelper /\ ~ResourceHelper.error
        /\ OptionsAllowed(options) /\ Preflight(start', options)
        /\ ExtAllowed(SelectedExt(start', options), options)
        /\ jobs' = SelectedJobs(start', options)
        /\ ext' = SelectedExt(start', options)
    BY <1>1 DEF TakeSnapshot, Continue
  <2>2. pod \in Pods /\ JobsCapFor(options) \in Amounts
    BY CapFact DEF IInv, Typed
  <2>3. FromPod(start', pod, JobsCapFor(options))
    BY <2>1, <2>2, SnapshotFact DEF ResourceHelper
  <2>. QED  BY <1>1, <2>1, <2>3 DEF StartInv
<1>4. MeasureInv' /\ CheckedInv'
  BY <1>1 DEF IInv, MeasureInv, CheckedInv, Started
<1>. QED  BY <1>2, <1>3, <1>4 DEF IInv

(* The rest of the script keeps the snapshot and what was chosen from it.  *)
Keeps == UNCHANGED <<pod, options, start, jobs, ext>>

LEMMA KeepsStart ==
    ASSUME IInv, Keeps, Started' => Started PROVE StartInv'
BY DEF IInv, Keeps, StartInv

LEMMA MarkFact ==
    ASSUME Typed, NEW s PROVE Mark(s) \in Nat
BY BuildAssumption DEF Typed, Mark, Nothing

LEMMA ReadFirstPeakStep ==
    ASSUME IInv, ReadFirstPeak PROVE IInv'
<1>1. /\ pc = "peak" /\ pc' \in {"compile", "failed"} /\ Keeps /\ rss' = rss /\ mark' = mark
      /\ peak' \in {peak, [peak EXCEPT !.first = Mark(start)]}
  BY DEF ReadFirstPeak, Continue, Keeps
<1>2. StartInv'
  BY <1>1, KeepsStart DEF Started
<1>3. peak' \in [first : Nat, last : Nat] /\ peak'.last = peak.last
  BY <1>1, MarkFact DEF IInv, Typed
<1>4. Typed' /\ GateInv'
  BY <1>1, <1>3 DEF IInv, Typed, Keeps, GateInv, Published
<1>5. MeasureInv'
  BY <1>1, <1>3 DEF IInv, MeasureInv, Keeps, Started
<1>6. CheckedInv'
  <2>1. ASSUME pc' = "compile", start.memory.peakMode = "cgroup"
        PROVE  PeakPossible(start, peak'.first)
    <3>1. PeakPossible(start, Mark(start)) /\ peak' = [peak EXCEPT !.first = Mark(start)]
      BY <1>1, <2>1 DEF ReadFirstPeak, Continue
    <3>2. peak'.first = Mark(start)
      BY <3>1 DEF IInv, Typed
    <3>. QED  BY <3>1, <3>2
  <2>. QED  BY <1>1, <2>1 DEF CheckedInv, Keeps
<1>. QED  BY <1>2, <1>4, <1>5, <1>6 DEF IInv

LEMMA CompileStep ==
    ASSUME IInv, Compile PROVE IInv'
<1>1. /\ pc = "compile" /\ pc' \in {"end", "failed"} /\ Keeps /\ peak' = peak
      /\ mark' \in Peaks
      /\ start.memory.peakMode = "process-group-rss" => rss'.peak \in Peaks
      /\ start.memory.peakMode # "process-group-rss" => rss' = rss
  BY DEF Compile, Continue, Keeps
<1>2. StartInv'
  BY <1>1, KeepsStart DEF Started
<1>3. \A n \in Peaks : n \in Nat /\ n # Nothing
  BY BuildAssumption DEF Nothing
<1>4. Typed' /\ GateInv'
  BY <1>1, <1>3 DEF IInv, Typed, Keeps, GateInv, Published
<1>5. MeasureInv'
  BY <1>1, <1>3 DEF IInv, MeasureInv, Keeps, Started
<1>6. CheckedInv'
  <2>1. pc' = "end" /\ start.memory.peakMode = "process-group-rss" => RssFits(start, rss')
    BY <1>1 DEF Compile, Continue
  <2>. QED  BY <1>1, <2>1 DEF IInv, CheckedInv, Keeps
<1>. QED  BY <1>2, <1>4, <1>5, <1>6 DEF IInv

LEMMA TakeEndSnapshotStep ==
    ASSUME IInv, TakeEndSnapshot PROVE IInv'
<1>1. /\ pc = "end" /\ pc' \in {"endpeak", "failed"} /\ Keeps
      /\ UNCHANGED <<mark, peak, rss>>
  BY DEF TakeEndSnapshot, Continue, Keeps
<1>2. StartInv'
  BY <1>1, KeepsStart DEF Started
<1>3. Typed' /\ MeasureInv' /\ GateInv'
  BY <1>1 DEF IInv, Typed, MeasureInv, GateInv, Keeps, Started, Published
<1>4. CheckedInv'
  <2>1. ASSUME pc' = "endpeak"
        PROVE  FromPod(end', pod, JobsCapFor(options)) /\ SameAssignment(start, end')
    <3>1. end' = ResourceHelper /\ ~ResourceHelper.error /\ SameAssignment(start, end')
      BY <1>1, <2>1 DEF TakeEndSnapshot, Continue
    <3>2. pod \in Pods /\ JobsCapFor(options) \in Amounts
      BY CapFact DEF IInv, Typed
    <3>. QED  BY <3>1, <3>2, SnapshotFact DEF ResourceHelper
  <2>. QED  BY <1>1, <2>1 DEF IInv, CheckedInv, Keeps
<1>. QED  BY <1>2, <1>3, <1>4 DEF IInv

LEMMA ReadLastPeakStep ==
    ASSUME IInv, ReadLastPeak PROVE IInv'
<1>1. /\ pc = "endpeak" /\ pc' \in {"gate", "failed"} /\ Keeps /\ rss' = rss /\ mark' = mark
      /\ start.memory.peakMode = "cgroup" => peak' = [peak EXCEPT !.last = Mark(end)]
      /\ start.memory.peakMode # "cgroup" => peak' = peak
  BY DEF ReadLastPeak, Continue, Keeps
<1>2. StartInv'
  BY <1>1, KeepsStart DEF Started
<1>3. peak' \in [first : Nat, last : Nat]
  BY <1>1, MarkFact DEF IInv, Typed
<1>4. Typed' /\ GateInv'
  BY <1>1, <1>3 DEF IInv, Typed, Keeps, GateInv, Published
<1>5. MeasureInv'
  BY <1>1 DEF IInv, MeasureInv, Keeps, Started
<1>6. CheckedInv'
  <2>1. ASSUME pc' = "gate", start.memory.peakMode = "cgroup"
        PROVE  PeakPossible(end, peak'.last) /\ peak'.last >= peak'.first
    <3>1. PeakPossible(end, Mark(end)) /\ Mark(end) >= peak.first
      BY <1>1, <2>1 DEF ReadLastPeak, Continue
    <3>2. peak'.last = Mark(end) /\ peak'.first = peak.first
      BY <1>1, <2>1 DEF IInv, Typed
    <3>. QED  BY <3>1, <3>2
  <2>2. peak'.first = peak.first
    BY <1>1 DEF IInv, Typed
  <2>3. end' = end
    BY DEF ReadLastPeak
  <2>. QED  BY <1>1, <2>1, <2>2, <2>3 DEF IInv, CheckedInv, Keeps
<1>. QED  BY <1>2, <1>4, <1>5, <1>6 DEF IInv

LEMMA GateStep ==
    ASSUME IInv, Gate PROVE IInv'
<1>1. /\ pc = "gate" /\ pc' \in {"published", "failed"} /\ Keeps
      /\ pc' = "published" => ValidateResourceEvidence(Evidence)
      /\ UNCHANGED <<mark, end, peak, rss>>
  BY DEF Gate, Continue, Keeps
<1>2. StartInv'
  BY <1>1, KeepsStart DEF Started
<1>3. Typed' /\ MeasureInv'
  BY <1>1 DEF IInv, Typed, MeasureInv, Keeps, Started
<1>4. Evidence' = Evidence
  BY <1>1 DEF Keeps, Evidence
<1>5. GateInv'
  BY <1>1, <1>4 DEF GateInv, Published, ValidateResourceEvidence, GateSnapshot
<1>6. CheckedInv'
  BY <1>1 DEF CheckedInv
<1>. QED  BY <1>2, <1>3, <1>5, <1>6 DEF IInv

LEMMA NextInv == IInv /\ [Next]_vars => IInv'
<1> SUFFICES ASSUME IInv, [Next]_vars PROVE IInv'
  OBVIOUS
<1>1. CASE UNCHANGED vars
  BY <1>1 DEF vars, IInv, Typed, StartInv, MeasureInv, CheckedInv, GateInv, Started, Published,
             Evidence
<1>. QED  BY <1>1, PodChangesStep, TakeSnapshotStep, ReadFirstPeakStep, CompileStep,
             TakeEndSnapshotStep, ReadLastPeakStep, GateStep DEF Next

LEMMA AlwaysIInv == Spec => []IInv
BY InitInv, NextInv, PTL DEF Spec

-----------------------------------------------------------------------------
(* The theorems.                                                           *)

(* A published wheel was built within the assignment of its Pod: measured  *)
(* by one counter, its peak and its reserve within the memory, usage that  *)
(* could not be trusted met with one compiler.                             *)
THEOREM AssignmentTheorem == Spec => []PublishedWithinAssignment
<1>1. IInv => PublishedWithinAssignment
  <2> SUFFICES ASSUME IInv, Published
               PROVE  PublishedWithinAssignment
    BY DEF PublishedWithinAssignment
  <2> DEFINE sm == start.memory
             em == end.memory
  <2>1. /\ FromPod(start, pod, JobsCapFor(options))
        /\ GateSnapshot(start) /\ GateSnapshot(end) /\ SameAssignment(start, end)
        /\ end.runpodCpus = start.runpodCpus
        /\ GateParallelism(Evidence) /\ GatePeak(Evidence)
    BY DEF IInv, StartInv, GateInv, Started, Published, ValidateResourceEvidence, Evidence
  <2>2. /\ sm.assigned = pod.assigned /\ sm.assigned > 0
        /\ sm.capacity \in Nat /\ sm.capacity <= sm.assigned
    BY <2>1 DEF FromPod, GateSnapshot, CapacityEstablished
  <2>3. /\ peak.first \in Nat /\ peak.last \in Nat /\ rss.peak \in Nat
        /\ pod.assigned \in Int
    <3>1. peak.first \in Nat /\ peak.last \in Nat /\ rss.peak \in Nat
      BY DEF IInv, Typed
    <3>2. pod.assigned \in Assignments \cup {Unset}
      BY DEF IInv, Typed, Pods
    <3>3. \A n \in Assignments : n \in Int
      BY BuildAssumption
    <3>4. Unset \in Int
      BY DEF Unset
    <3>. QED  BY <3>1, <3>2, <3>3, <3>4
  <2> DEFINE measured == MeasuredByOneCounter
             within == /\ peak.last <= pod.assigned
                       /\ rss.peak # Nothing => rss.peak + start.reserve <= pod.assigned
  <2>4. sm.capacity = em.capacity /\ sm.peakMode = em.peakMode /\ sm.trustworthy = em.trustworthy
    BY <2>1 DEF SameAssignment
  <2>5. ASSUME sm.peakMode = "cgroup" PROVE measured /\ within
    <3>1. rss.peak = Nothing
      BY <2>5 DEF IInv, MeasureInv, Started, Published
    <3>2. /\ 0 < peak.first /\ peak.first <= peak.last
          /\ 0 < peak.last /\ peak.last <= sm.capacity
      BY <2>1, <2>5 DEF GatePeak, GateCgroupPeak, PeakPossible, Evidence
    <3>3. measured
      BY <2>3, <2>4, <3>1, <3>2 DEF MeasuredByOneCounter, Nothing
    <3>4. within
      BY <2>2, <2>3, <3>1, <3>2 DEF Nothing
    <3>. QED  BY <3>3, <3>4
  <2>6. ASSUME sm.peakMode # "cgroup" PROVE measured /\ within
    <3>1. sm.peakMode = "process-group-rss"
      BY <2>1, <2>6 DEF GateSnapshot, GateMode
    <3>2. peak.last = Nothing /\ rss.peak # Nothing
      BY <2>6, <3>1 DEF IInv, MeasureInv, Started, Published
    <3>3. measured
      BY <2>4, <3>2 DEF MeasuredByOneCounter
    <3>4. rss.peak + start.reserve <= sm.capacity
      BY <2>1, <2>6 DEF GatePeak, GateRssPeak, RssFits, Evidence
    <3>5. start.reserve \in Nat
      BY <2>1 DEF FromPod
    <3>6. within
      BY <2>2, <2>3, <3>2, <3>4, <3>5 DEF Nothing
    <3>. QED  BY <3>3, <3>6
  <2>7. pod.assigned # Unset
    BY <2>2 DEF Unset
  <2>8. ~sm.trustworthy => jobs = 1 /\ ext = 1
    BY <2>1, <2>7 DEF FromPod, GateParallelism, Evidence
  <2>9. ASSUME NEW snapshot \in {start, end}
        PROVE  MinimumCpus <= snapshot.cpus /\ snapshot.cpus <= pod.runpod
    <3>1. start.runpodCpus = pod.runpod
      <4>1. start.runpodCpus >= MinimumCpus
        BY <2>1 DEF GateSnapshot, GateCpus
      <4>2. start.runpodCpus # Unset
        BY <4>1, MatrixAssumption DEF Unset
      <4>. QED  BY <2>1, <4>2 DEF FromPod
    <3>. QED  BY <2>1, <3>1 DEF GateSnapshot, GateCpus
  <2> HIDE DEF measured
  <2>10. measured /\ within
    BY <2>5, <2>6
  <2>. QED  BY <2>4, <2>7, <2>8, <2>9, <2>10 DEF PublishedWithinAssignment, measured
<1>. QED  BY <1>1, AlwaysIInv, PTL

(* What the first snapshot and the options are worth to the gate: nothing  *)
(* but the vCPUs Runpod names is missing from what the preflight asks for. *)
NamesCpus == 0 \notin RunpodCounts
KeepsReserve == 0 \notin Reserves

LEMMA StartAccepted ==
    ASSUME IInv, Started, NamesCpus, KeepsReserve
    PROVE  /\ GateSnapshot(start) /\ GateParallelism(Evidence)
           /\ start.reserve > 0 /\ start.runpodCpus = pod.runpod
<1> DEFINE memory == start.memory
<1>1. /\ FromPod(start, pod, JobsCapFor(options))
      /\ OptionsAllowed(options) /\ Preflight(start, options)
      /\ jobs = SelectedJobs(start, options)
      /\ ext = SelectedExt(start, options) /\ ExtAllowed(ext, options)
  BY DEF IInv, StartInv
<1>2. CapacityEstablished(start) /\ PeakMeasurable(start, options) /\ start.cpus >= MinimumCpus
  BY <1>1 DEF Preflight
<1>3. memory.assigned > 0 /\ memory.capacity >= MinimumMemory
  BY <1>2 DEF CapacityEstablished
<1>4. start.forced <=> ~memory.trustworthy
  BY <1>1, <1>3 DEF FromPod, Unset
<1>5. GateCpus(start) /\ start.runpodCpus = pod.runpod
  <2>1. pod.runpod \in Nat /\ pod.runpod # 0
    BY BuildAssumption DEF IInv, Typed, Pods, NamesCpus
  <2>. QED  BY <1>1, <1>2, <2>1, MatrixAssumption DEF FromPod, GateCpus
<1>6. GateMode(start)
  BY <1>1, <1>2, <1>4 DEF PeakMeasurable, GateMode, FromPod, RssAcceptable
<1>7. GateParallelism(Evidence)
  <2>1. start.forced => jobs = 1 /\ ext = 1
    BY <1>1 DEF SelectedJobs, SelectedExt
  <2>2. ext > MatrixExtParallel => options.unsafe
    BY <1>1 DEF ExtAllowed
  <2>3. ASSUME jobs > MatrixMaxJobs PROVE options.unsafe
    <3>1. ~start.forced
      BY <2>1, <2>3, MatrixAssumption
    <3>2. CASE Known(options.maxJobs)
      BY <1>1, <2>3, <3>1, <3>2 DEF SelectedJobs, Or, OptionsAllowed
    <3>3. CASE ~Known(options.maxJobs)
      BY <1>1, <2>3, <3>1, <3>3, MatrixAssumption
        DEF SelectedJobs, Or, FromPod, JobsCapFor, Amounts
    <3>. QED  BY <3>2, <3>3
  <2>. QED  BY <2>1, <2>2, <2>3 DEF GateParallelism, Evidence
<1>8. start.reserve > 0
  <2>1. memory.capacity > 0
    BY <1>1, <1>3, MatrixAssumption DEF FromPod
  <2>. QED  BY <1>1, <2>1 DEF FromPod, KeepsReserve
<1>. QED  BY <1>2, <1>5, <1>6, <1>7, <1>8 DEF GateSnapshot

(* At the gate the second snapshot has all the first one had: it is of the *)
(* same Pod, and the script compared the two.  Only CPUs may be lost.      *)
LEMMA EndAccepted ==
    ASSUME IInv, pc = "gate", NamesCpus, KeepsReserve
    PROVE  /\ CapacityEstablished(end) /\ GateMode(end)
           /\ end.runpodCpus = start.runpodCpus
           /\ GateCpus(end) <=> end.cpus >= MinimumCpus
<1> DEFINE sm == start.memory
           em == end.memory
           cap == JobsCapFor(options)
<1>1. FromPod(start, pod, cap) /\ FromPod(end, pod, cap) /\ SameAssignment(start, end)
  BY DEF IInv, StartInv, CheckedInv, Started
<1>2. /\ CapacityEstablished(start) /\ GateCpus(start) /\ GateMode(start)
      /\ start.runpodCpus = pod.runpod
  BY StartAccepted DEF Started, GateSnapshot
<1> HIDE DEF cap
<1>3. CapacityEstablished(end)
  BY <1>1, <1>2 DEF CapacityEstablished, FromPod, SameAssignment
<1>4. end.runpodCpus = start.runpodCpus
  BY <1>1 DEF FromPod
<1>5. GateCpus(end) <=> end.cpus >= MinimumCpus
  <2>1. pod.runpod >= MinimumCpus /\ pod.runpod > 0
    <3>1. pod.runpod \in Nat
      BY BuildAssumption DEF IInv, Typed, Pods
    <3>. QED  BY <1>2, <3>1, MatrixAssumption DEF GateCpus
  <2>2. end.runpodCpus = pod.runpod /\ end.cpus <= pod.runpod
    BY <1>1, <1>2, <1>4, <2>1 DEF FromPod
  <2>. QED  BY <2>1, <2>2 DEF GateCpus
<1>6. GateMode(end)
  <2>1. /\ em.peakMode = sm.peakMode /\ em.usageDir = sm.usageDir
        /\ em.peakEligible = sm.peakEligible /\ em.scope = sm.scope
        /\ em.trustworthy = sm.trustworthy /\ end.forced = start.forced
        /\ em.source = sm.source /\ em.capacity = sm.capacity /\ em.assigned = sm.assigned
    BY <1>1 DEF SameAssignment
  <2>2. CASE sm.peakMode = "cgroup"
    BY <1>2, <2>1, <2>2 DEF GateMode
  <2>3. CASE sm.peakMode # "cgroup"
    <3>1. /\ sm.peakMode = "process-group-rss" /\ RssAcceptable(start)
      BY <1>2, <2>3 DEF GateMode
    <3>2. end.forced /\ em.usageDir = 0
      BY <2>1, <3>1 DEF RssAcceptable
    <3>3. end.maxJobsCap = 1 /\ end.suggested = 1 /\ em.usage = Unset
      BY <1>1, <3>2 DEF FromPod, Amounts
    <3>4. RssAcceptable(end)
      BY <2>1, <3>1, <3>3 DEF RssAcceptable
    <3>. QED  BY <2>1, <3>1, <3>3, <3>4 DEF GateMode
  <2>. QED  BY <2>2, <2>3
<1>. QED  BY <1>3, <1>4, <1>5, <1>6

(* ... and its peaks are those the script has accepted.                    *)
LEMMA PeaksAccepted ==
    ASSUME IInv, pc = "gate", NamesCpus, KeepsReserve
    PROVE  GatePeak(Evidence)
<1>1. /\ FromPod(start, pod, JobsCapFor(options)) /\ FromPod(end, pod, JobsCapFor(options))
      /\ SameAssignment(start, end) /\ Preflight(start, options)
  BY DEF IInv, StartInv, CheckedInv, Started
<1>2. /\ GateMode(start) /\ GateMode(end) /\ start.reserve > 0
  BY StartAccepted, EndAccepted DEF Started, GateSnapshot
<1>3. CASE start.memory.peakMode = "cgroup"
  <2>1. /\ PeakPossible(start, peak.first) /\ PeakPossible(end, peak.last)
        /\ peak.last >= peak.first
    BY <1>3 DEF IInv, CheckedInv
  <2>2. PeakPossible(start, peak.last)
    BY <1>1, <2>1 DEF PeakPossible, SameAssignment
  <2>. QED  BY <1>3, <2>1, <2>2 DEF GatePeak, GateCgroupPeak, Evidence
<1>4. CASE start.memory.peakMode # "cgroup"
  <2>1. start.memory.peakMode = "process-group-rss" /\ RssAcceptable(start)
        /\ start.maxJobsCap = 1
    BY <1>2, <1>4 DEF GateMode
  <2>2. end.memory.peakMode = "process-group-rss"
    BY <1>1, <2>1 DEF SameAssignment
  <2>3. RssAcceptable(end) /\ end.maxJobsCap = 1
    BY <1>2, <2>2 DEF GateMode
  <2>4. end.suggested = start.suggested /\ end.maxJobsCap = start.maxJobsCap
    BY <2>1, <2>3 DEF RssAcceptable
  <2>5. end.reserve = start.reserve /\ end.perJob = start.perJob
    BY <1>1 DEF FromPod, SameAssignment
  <2>6. ~Overridden(options)
    BY <1>1, <2>1 DEF Preflight, PeakMeasurable
  <2>7. GateRssPolicy(Evidence)
    BY <1>2, <2>4, <2>5, <2>6 DEF GateRssPolicy, Evidence
  <2>8. GateRssPeak(Evidence)
    BY <2>1 DEF IInv, CheckedInv, GateRssPeak, Evidence
  <2>. QED  BY <1>4, <2>7, <2>8 DEF GatePeak, Evidence
<1>. QED  BY <1>3, <1>4

(* On a Pod that names its vCPUs, with a reserve that is not set to 0, the *)
(* gate refuses nothing for what the preflight knew before it compiled,    *)
(* and after the build nothing but CPUs the Pod has lost meanwhile.        *)
THEOREM PreflightTheorem ==
    ASSUME 0 \notin RunpodCounts, 0 \notin Reserves
    PROVE  Spec => []GateAgreesWithPreflight
<1>1. NamesCpus /\ KeepsReserve
  BY DEF NamesCpus, KeepsReserve
<1>2. IInv => GateAgreesWithPreflight
  <2>1. ASSUME IInv, pc = "compile"
        PROVE  GateSnapshot(start) /\ GateParallelism(Evidence) /\ start.reserve > 0
    BY <1>1, <2>1, StartAccepted DEF Started
  <2>2. ASSUME IInv, pc = "gate"
        PROVE  ValidateResourceEvidence(Evidence) <=> end.cpus >= MinimumCpus
    <3>1. GateSnapshot(start) /\ GateParallelism(Evidence)
      BY <1>1, <2>2, StartAccepted DEF Started
    <3>2. /\ CapacityEstablished(end) /\ GateMode(end)
          /\ end.runpodCpus = start.runpodCpus
          /\ GateCpus(end) <=> end.cpus >= MinimumCpus
      BY <1>1, <2>2, EndAccepted
    <3>3. SameAssignment(start, end)
      BY <2>2 DEF IInv, CheckedInv
    <3>4. GatePeak(Evidence)
      BY <1>1, <2>2, PeaksAccepted
    <3>. QED  BY <3>1, <3>2, <3>3, <3>4 DEF ValidateResourceEvidence, GateSnapshot, Evidence
  <2>. QED  BY <2>1, <2>2 DEF GateAgreesWithPreflight
<1>. QED  BY <1>2, AlwaysIInv, PTL

(* Several compilers of the script's own choice fit into the headroom; more *)
(* than was suggested is what the operator asked for on a trusted counter,  *)
(* and more than was reviewed has the override.                             *)
THEOREM ParallelismTheorem == Spec => []SafeParallelism
<1>1. IInv => SafeParallelism
  <2> SUFFICES ASSUME IInv, Started
               PROVE  /\ jobs <= start.suggested => jobs = 1 \/ Fits(jobs)
                      /\ jobs > start.suggested => jobs = options.maxJobs /\ ~start.forced
                      /\ ext > MatrixExtParallel => ext = options.ext /\ ~start.forced
                      /\ (jobs > MatrixMaxJobs \/ ext > MatrixExtParallel) => options.unsafe
    BY DEF SafeParallelism
  <2>1. /\ FromPod(start, pod, JobsCapFor(options)) /\ OptionsAllowed(options)
        /\ jobs = SelectedJobs(start, options)
        /\ ext = SelectedExt(start, options) /\ ExtAllowed(ext, options)
    BY DEF IInv, StartInv
  <2>2. /\ start.suggested \in Amounts /\ start.suggested <= start.maxJobsCap
        /\ start.suggested > 1 => Fits(start.suggested)
    BY <2>1 DEF FromPod, Fits
  <2>3. options.maxJobs = Unset \/ options.maxJobs \in Amounts
    BY BuildAssumption DEF IInv, Typed, Options, Amounts
  <2>4. start.suggested <= JobsCapFor(options) /\ JobsCapFor(options) \in Amounts
    <3>1. JobsCapFor(options) \in Amounts
      BY CapFact DEF IInv
    <3>. QED  BY <2>1, <2>2, <3>1 DEF FromPod, Amounts
  <2>5. CASE start.forced
    BY <2>1, <2>2, <2>5, MatrixAssumption DEF SelectedJobs, SelectedExt, Amounts
  <2>6. CASE ~start.forced /\ Known(options.maxJobs)
    <3>1. jobs = options.maxJobs /\ jobs \in Amounts /\ JobsCapFor(options) = jobs
      BY <2>1, <2>3, <2>6 DEF SelectedJobs, JobsCapFor, Or, Known, Unset
    <3>2. jobs <= start.suggested => jobs = start.suggested
      BY <2>2, <2>4, <3>1 DEF Amounts
    <3>3. jobs <= start.suggested => jobs = 1 \/ Fits(jobs)
      BY <2>2, <3>1, <3>2 DEF Amounts
    <3>4. jobs > MatrixMaxJobs => options.unsafe
      BY <2>1, <3>1 DEF OptionsAllowed
    <3>5. ext > MatrixExtParallel => ext = options.ext /\ options.unsafe
      BY <2>1, <2>6, MatrixAssumption DEF SelectedExt, ExtAllowed, Or
    <3>. QED  BY <2>6, <3>1, <3>3, <3>4, <3>5
  <2>7. CASE ~start.forced /\ ~Known(options.maxJobs)
    <3>1. jobs = start.suggested /\ JobsCapFor(options) = MatrixMaxJobs
      BY <2>1, <2>7 DEF SelectedJobs, JobsCapFor, Or
    <3>2. jobs = 1 \/ Fits(jobs)
      BY <2>2, <3>1 DEF Amounts
    <3>3. ~(jobs > start.suggested) /\ ~(jobs > MatrixMaxJobs)
      BY <2>2, <2>4, <3>1 DEF Amounts
    <3>4. ext > MatrixExtParallel => ext = options.ext /\ options.unsafe
      BY <2>1, <2>7, MatrixAssumption DEF SelectedExt, ExtAllowed, Or
    <3>. QED  BY <2>7, <3>2, <3>3, <3>4
  <2>. QED  BY <2>5, <2>6, <2>7
<1>. QED  BY <1>1, AlwaysIInv, PTL

(* The types: the Pod stays one the kernel can account for, the marks and  *)
(* samples are peaks, and what was selected is a number of compilers.      *)
LEMMA TypeStep ==
    ASSUME TypeOK, IInv, IInv', [Next]_vars PROVE TypeOK'
<1> USE DEF TypeOK
<1>1. CASE UNCHANGED vars
  BY <1>1 DEF vars, Started
<1>2. CASE PodChanges
  <2>1. PICK p : Change(p)
    BY <1>2 DEF PodChanges
  <2>2. /\ pod' = p /\ WellFormed(p) /\ changes < MaxChanges /\ changes' = changes + 1
        /\ UNCHANGED <<options, pc, start, end, jobs, ext, peak, rss>>
    BY <2>1 DEF Change
  <2>3. pod' \in Pods /\ mark' \in Peaks
    BY DEF IInv, Typed
  <2>4. changes' \in 0 .. MaxChanges
    BY <2>2, BuildAssumption
  <2>. QED  BY <2>2, <2>3, <2>4 DEF Started
<1>3. CASE TakeSnapshot
  <2>1. /\ pc = "snapshot" /\ pc' \in {"peak", "failed"}
        /\ UNCHANGED <<pod, mark, options, end, peak, rss, changes>>
    BY <1>3 DEF TakeSnapshot, Continue
  <2>2. ASSUME Started' PROVE jobs' \in Nat \ {0} /\ ext' \in Nat \ {0}
    <3>1. /\ FromPod(start', pod', JobsCapFor(options'))
          /\ jobs' = SelectedJobs(start', options') /\ ext' = SelectedExt(start', options')
      BY <2>2 DEF IInv, StartInv
    <3>2. start'.suggested \in Nat \ {0}
      BY <3>1 DEF FromPod, Amounts
    <3>3. options.maxJobs \in MaxJobsOptions \cup {Unset} /\ options.ext \in ExtOptions \cup {Unset}
      BY DEF IInv, Typed, Options
    <3>4. Or(options.maxJobs, start'.suggested) \in Nat \ {0}
      <4>1. options.maxJobs = Unset \/ options.maxJobs \in Nat \ {0}
        BY <3>3, BuildAssumption
      <4>. QED  BY <3>2, <4>1 DEF Or, Known, Unset
    <3>5. Or(options.ext, MatrixExtParallel) \in Nat \ {0}
      <4>1. options.ext = Unset \/ options.ext \in Nat \ {0}
        BY <3>3, BuildAssumption
      <4>. QED  BY <4>1, MatrixAssumption DEF Or, Known, Unset
    <3>. QED  BY <2>1, <3>1, <3>4, <3>5, MatrixAssumption DEF SelectedJobs, SelectedExt
  <2>. QED  BY <2>1, <2>2
<1>4. CASE ReadFirstPeak
  <2>1. /\ pc = "peak" /\ pc' \in {"compile", "failed"}
        /\ peak' \in {peak, [peak EXCEPT !.first = Mark(start)]}
        /\ UNCHANGED <<pod, mark, options, start, end, jobs, ext, rss, changes>>
    BY <1>4 DEF ReadFirstPeak, Continue
  <2>2. Mark(start) \in Peaks \cup {Nothing}
    BY DEF Mark
  <2>. QED  BY <2>1, <2>2 DEF Started
<1>5. CASE Compile
  <2> DEFINE report(sample) == [first |-> Min(Peaks), last |-> Min(Peaks), peak |-> sample]
  <2>1. PICK sample \in Peaks :
           /\ pc = "compile" /\ pc' \in {"end", "failed"}
           /\ rss' \in {rss, report(sample)} /\ mark' \in Peaks
           /\ UNCHANGED <<pod, options, start, end, jobs, ext, peak, changes>>
    BY <1>5 DEF Compile, Continue
  <2>2. Min(Peaks) \in Peaks
    BY <2>1, BuildAssumption, MinNat
  <2>3. rss' \in [first : Peaks \cup {Nothing}, last : Peaks \cup {Nothing},
                  peak : Peaks \cup {Nothing}]
    BY <2>1, <2>2
  <2>. QED  BY <2>1, <2>3 DEF Started
<1>6. CASE TakeEndSnapshot
  BY <1>6 DEF TakeEndSnapshot, Continue, Started
<1>7. CASE ReadLastPeak
  <2>1. /\ pc = "endpeak" /\ pc' \in {"gate", "failed"}
        /\ peak' \in {peak, [peak EXCEPT !.last = Mark(end)]}
        /\ UNCHANGED <<pod, mark, options, start, end, jobs, ext, rss, changes>>
    BY <1>7 DEF ReadLastPeak, Continue
  <2>2. Mark(end) \in Peaks \cup {Nothing}
    BY DEF Mark
  <2>. QED  BY <2>1, <2>2 DEF Started
<1>8. CASE Gate
  BY <1>8 DEF Gate, Continue, Started
<1>. QED  BY <1>1, <1>2, <1>3, <1>4, <1>5, <1>6, <1>7, <1>8 DEF Next

THEOREM TypeCorrect == Spec => []TypeOK
<1>1. Init => TypeOK
  BY BuildAssumption DEF Init, TypeOK, Started, Nothing
<1>2. TypeOK /\ IInv /\ IInv' /\ [Next]_vars => TypeOK'
  BY TypeStep
<1>. QED  BY <1>1, <1>2, AlwaysIInv, PTL DEF Spec

=============================================================================
