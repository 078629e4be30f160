----------------------- MODULE ResourceResolverProofs -----------------------
(***************************************************************************)
(* What the resolver and the preloaded shim promise, for any limits,       *)
(* versions, assignments and amounts of memory, and whatever the Pod does  *)
(* between the two reads.                                                  *)
(*                                                                         *)
(* The invariant (Inv) says which view the resolver ends up with; the rest *)
(* are facts about the operators of PodResources and MemInfoShim on any    *)
(* view of that form (ViewOK).                                             *)
(***************************************************************************)
EXTENDS ResourceResolver, TLAPS

Amounts == Nat \ {0}

ViewOK(v) ==
    /\ v.version \in {0, 1, 2} /\ v.scoped \in BOOLEAN
    /\ DOMAIN v.dirs = Dirs
    /\ \A d \in Dirs : /\ v.dirs[d].limit \in Amounts \cup {Unset}
                       /\ v.dirs[d].usage \in Nat \cup {Unset, Malformed}
                       /\ v.dirs[d].inactive \in Nat
    /\ v.hierarchical \in Amounts \cup {Unset}
    /\ v.host.total \in Amounts /\ v.host.available \in Nat
    /\ v.assigned \in Amounts \cup {Unset, Malformed}
    /\ v.receipt \in Amounts \cup {Unset}
    /\ v.cpus.host \in Amounts
    /\ v.cpus.affinity = Unset /\ v.cpus.runpod = Unset
    /\ v.cpus.cpusets = {} /\ v.cpus.quotas = {}
    /\ v.knobs.perJob = Unset /\ v.knobs.reserve = Unset /\ v.knobs.maxJobs = Unset

(* The pod behind the view.                                                *)
OfPod(v) ==
    /\ v.version = pod.version /\ v.scoped = pod.scoped
    /\ \A d \in Dirs : /\ v.dirs[d].limit = pod.limits[d]
                       /\ v.dirs[d].usage = counted[d]
    /\ Known(pod.hidden) => v.version = 1 /\ Known(v.hierarchical)
                            /\ v.hierarchical <= pod.hidden
    /\ v.host.total = HostTotal
    /\ v.assigned = pod.assigned /\ v.receipt = pod.receipt
    /\ v.cpus.host = pod.cpus

Typed ==
    /\ pod \in Pods
    /\ pod.version # 1 => pod.hidden = Unset
    /\ pod.version = 0 => pod.counter = Unset
    /\ anon \in [Dirs -> Nat] /\ file \in [Dirs -> Nat]
    /\ pc \in {"start", "counted", "resolved"}

(* The counters were read at one moment, so the parent's includes the      *)
(* leaf's.                                                                 *)
CountedOnce ==
    /\ counted \in [Dirs -> Nat \cup {Unset, Malformed}]
    /\ pc # "start" => /\ pod.counter # 0 => counted[Leaf] = pod.counter
                       /\ counted[Leaf] <= counted[Parent]

Inv ==
    /\ Typed /\ CountedOnce
    /\ pc = "resolved" => /\ ViewOK(view) /\ OfPod(view)
                          /\ snapshot = CollectResources(view)
                          /\ shim = CollectSnapshot(view)

-----------------------------------------------------------------------------
(* The least and the greatest of a few numbers.                            *)

LEMMA MinFact ==
    ASSUME NEW a \in Int, NEW b \in Int, NEW c \in Int,
           NEW S \in SUBSET {a, b, c}, S # {}
    PROVE  Min(S) \in S /\ \A y \in S : Min(S) <= y
<1>1. \E x \in S : \A y \in S : x =< y
  <2> SUFFICES ASSUME \A x \in S : \E y \in S : ~(x =< y)
               PROVE  FALSE
    OBVIOUS
  <2>1. \A x \in S : x = a \/ x = b \/ x = c
    OBVIOUS
  <2>2. a \in S => (b \in S /\ b < a) \/ (c \in S /\ c < a)
    BY <2>1
  <2>3. b \in S => (a \in S /\ a < b) \/ (c \in S /\ c < b)
    BY <2>1
  <2>4. c \in S => (a \in S /\ a < c) \/ (b \in S /\ b < c)
    BY <2>1
  <2>5. a \in S \/ b \in S \/ c \in S
    BY <2>1
  <2>. QED  BY <2>2, <2>3, <2>4, <2>5
<1>. QED  BY <1>1 DEF Min

LEMMA MaxFact ==
    ASSUME NEW S \in SUBSET {1, 2}, S # {}
    PROVE  Max(S) \in S /\ \A y \in S : Max(S) >= y
<1>1. \E x \in S : \A y \in S : x >= y
  <2>1. CASE 2 \in S
    BY <2>1
  <2>2. CASE 2 \notin S
    <3>1. S = {1}
      BY <2>2
    <3>. QED  BY <3>1
  <2>. QED  BY <2>1, <2>2
<1>. QED  BY <1>1 DEF Max

LEMMA DivFact ==
    ASSUME NEW a \in Nat, NEW b \in Nat \ {0}, NEW q \in Nat, q <= a \div b
    PROVE  q * b <= a
<1>1. a \div b \in Nat /\ (a \div b) * b <= a
  OBVIOUS
<1>2. \A x, y \in Nat : x <= y => x * b <= y * b
  OBVIOUS
<1>3. q * b <= (a \div b) * b /\ q * b \in Nat /\ (a \div b) * b \in Nat
  BY <1>1, <1>2
<1>. QED  BY <1>1, <1>3

-----------------------------------------------------------------------------
(* _find_effective_limit and the directory that supplies the limit.        *)

LEMMA EffectiveFact ==
    ASSUME NEW v, ViewOK(v)
    PROVE  /\ EffectiveLimit(v) \in Amounts /\ EffectiveLimit(v) <= v.host.total
           /\ \A d \in Dirs : Known(v.dirs[d].limit) => EffectiveLimit(v) <= v.dirs[d].limit
<1> DEFINE l == v.dirs[Leaf].limit
           p == v.dirs[Parent].limit
           S == MemoryBounds(v)
<1>1. l \in Int /\ p \in Int /\ v.host.total \in Int /\ v.host.total > 0
  BY DEF ViewOK, Dirs, Unset, Amounts
<1>2. S = {v.dirs[d].limit : d \in LimitedDirs(v)} \cup {v.host.total}
  BY <1>1 DEF MemoryBounds
<1>3. LimitedDirs(v) = {d \in Dirs : Known(v.dirs[d].limit)}
  BY DEF LimitedDirs, ViewOK
<1>4. S \in SUBSET {l, p, v.host.total} /\ v.host.total \in S
  BY <1>2, <1>3 DEF Dirs
<1>5. \A y \in S : y \in Amounts
  BY <1>2, <1>3 DEF ViewOK, Known, Unset
<1> HIDE DEF l, p
<1>6. Min(S) \in S /\ \A y \in S : Min(S) <= y
  BY <1>1, <1>4, MinFact DEF l, p
<1>7. EffectiveLimit(v) = Min(S)
  BY <1>4 DEF EffectiveLimit
<1>8. \A d \in Dirs : Known(v.dirs[d].limit) => v.dirs[d].limit \in S
  BY <1>2, <1>3
<1> HIDE DEF S
<1>. QED  BY <1>4, <1>5, <1>6, <1>7, <1>8

LEMMA SupplyingFact ==
    ASSUME NEW v, ViewOK(v)
    PROVE  /\ SupplyingDir(v) \in {0} \cup Dirs
           /\ SupplyingDir(v) # 0 => v.dirs[SupplyingDir(v)].limit = EffectiveLimit(v)
           /\ \A d \in Dirs : v.dirs[d].limit = EffectiveLimit(v) => d <= SupplyingDir(v)
           /\ SupplyingDir(v) = 0 =>
                 \A d \in Dirs : Known(v.dirs[d].limit) => v.dirs[d].limit # EffectiveLimit(v)
<1> DEFINE E == {d \in LimitedDirs(v) : v.dirs[d].limit = EffectiveLimit(v)}
<1>1. E \in SUBSET {1, 2}
  BY DEF LimitedDirs, ViewOK, Dirs, Leaf, Parent
<1>2. SupplyingDir(v) = IF E = {} THEN 0 ELSE Max(E)
  BY DEF SupplyingDir
<1>3. EffectiveLimit(v) \in Amounts
  BY EffectiveFact
<1>4. \A d \in Dirs : v.dirs[d].limit = EffectiveLimit(v) => d \in E
  BY <1>3 DEF LimitedDirs, ViewOK, Known, Amounts
<1>5. \A d \in E : d \in Dirs /\ v.dirs[d].limit = EffectiveLimit(v)
  BY DEF LimitedDirs, ViewOK
<1> HIDE DEF E
<1>6. CASE E = {}
  BY <1>2, <1>4, <1>6
<1>7. CASE E # {}
  <2>1. SupplyingDir(v) \in E /\ \A y \in E : SupplyingDir(v) >= y
    BY <1>1, <1>2, <1>7, MaxFact
  <2>2. SupplyingDir(v) # 0
    BY <1>1, <2>1
  <2>. QED  BY <1>1, <1>4, <1>5, <2>1, <2>2
<1>. QED  BY <1>6, <1>7

(* The limit, with version 1's inherited bound.                            *)
LEMMA LimitFact ==
    ASSUME NEW v, ViewOK(v)
    PROVE  /\ MemoryLimit(v) \in Amounts /\ MemoryLimit(v) <= v.host.total
           /\ \A d \in Dirs : Known(v.dirs[d].limit) => MemoryLimit(v) <= v.dirs[d].limit
           /\ v.version = 1 /\ Known(v.hierarchical) => MemoryLimit(v) <= v.hierarchical
           /\ LimitDir(v) \in {0} \cup Dirs
           /\ LimitDir(v) = 0 =>
                 /\ \A d \in Dirs : ~Known(v.dirs[d].limit) \/ v.host.total <= v.dirs[d].limit
                 /\ v.version = 1 /\ Known(v.hierarchical) => v.host.total <= v.hierarchical
<1>1. /\ EffectiveLimit(v) \in Amounts /\ EffectiveLimit(v) <= v.host.total
      /\ \A d \in Dirs : Known(v.dirs[d].limit) => EffectiveLimit(v) <= v.dirs[d].limit
  BY EffectiveFact
<1>2. /\ v.host.total \in Amounts /\ v.hierarchical \in Amounts \cup {Unset}
      /\ \A d \in Dirs : v.dirs[d].limit \in Amounts \cup {Unset}
  BY DEF ViewOK
<1>3. CASE InheritedLimit(v)
  <2>1. /\ MemoryLimit(v) = v.hierarchical /\ LimitDir(v) = Leaf
        /\ v.hierarchical > 0 /\ v.hierarchical <= EffectiveLimit(v)
    BY <1>1, <1>3 DEF MemoryLimit, LimitDir, InheritedLimit, Amounts
  <2>. QED  BY <1>1, <1>2, <2>1 DEF Amounts, Unset, Known, Dirs, Leaf
<1>4. CASE ~InheritedLimit(v)
  <2>1. MemoryLimit(v) = EffectiveLimit(v) /\ LimitDir(v) = SupplyingDir(v)
    BY <1>4 DEF MemoryLimit, LimitDir
  <2>2. v.version = 1 /\ Known(v.hierarchical) => EffectiveLimit(v) < v.hierarchical
    BY <1>1, <1>2, <1>4 DEF InheritedLimit, Known, Amounts, Unset
  <2>3. SupplyingDir(v) \in {0} \cup Dirs
    BY SupplyingFact
  <2>4. ASSUME SupplyingDir(v) = 0 PROVE EffectiveLimit(v) = v.host.total
    <3>1. EffectiveLimit(v) \in MemoryBounds(v)
      <4>1. v.host.total \in MemoryBounds(v)
        BY <1>2 DEF MemoryBounds, Amounts
      <4>2. MemoryBounds(v) \in SUBSET {v.dirs[Leaf].limit, v.dirs[Parent].limit, v.host.total}
        BY DEF MemoryBounds, LimitedDirs, ViewOK, Dirs
      <4>3. v.dirs[Leaf].limit \in Int /\ v.dirs[Parent].limit \in Int /\ v.host.total \in Int
        BY <1>2 DEF Dirs, Amounts, Unset
      <4>. QED  BY <4>1, <4>2, <4>3, MinFact DEF EffectiveLimit
    <3>2. \A d \in Dirs : Known(v.dirs[d].limit) => v.dirs[d].limit # EffectiveLimit(v)
      BY <2>4, SupplyingFact
    <3>. QED  BY <3>1, <3>2 DEF MemoryBounds, LimitedDirs, ViewOK
  <2>5. v.version = 1 /\ Known(v.hierarchical) => EffectiveLimit(v) <= v.hierarchical
    BY <1>1, <1>2, <2>2 DEF Amounts, Unset
  <2>6. ASSUME LimitDir(v) = 0
        PROVE  /\ \A d \in Dirs : ~Known(v.dirs[d].limit) \/ v.host.total <= v.dirs[d].limit
               /\ v.version = 1 /\ Known(v.hierarchical) => v.host.total <= v.hierarchical
    <3>1. EffectiveLimit(v) = v.host.total
      BY <2>1, <2>4, <2>6
    <3>. QED  BY <3>1, <1>1, <2>5
  <2>. QED  BY <1>1, <2>1, <2>3, <2>5, <2>6
<1>. QED  BY <1>3, <1>4

-----------------------------------------------------------------------------
(* collect_memory: what is known of the snapshot before the assignment.    *)

LEMMA HostFact ==
    ASSUME NEW v, ViewOK(v), NEW known \in BOOLEAN,
           known => v.dirs[Leaf].usage \in Nat,
           NEW m, m = HostMemory(v, known)
    PROVE  /\ m.limited = FALSE /\ m.limit = v.host.total /\ m.capacity = v.host.total
           /\ m.source = "host" /\ m.assigned = Unset /\ m.available \in 0 .. m.capacity
           /\ m.peakEligible = known /\ m.inactive = 0
           /\ known => m.usage = v.dirs[Leaf].usage
           /\ m.peakMode # "process-group-rss"
BY DEF HostMemory, ViewOK, Smaller, Amounts

LEMMA CgroupFact ==
    ASSUME NEW v, ViewOK(v), LimitDir(v) # 0,
           NEW m, m = CgroupMemory(v)
    PROVE  /\ m.limited = TRUE /\ m.limit = MemoryLimit(v) /\ m.capacity = MemoryLimit(v)
           /\ m.source = "cgroup" /\ m.assigned = Unset /\ m.available \in 0 .. m.capacity
           /\ m.peakEligible = Readable(v, LimitDir(v))
           /\ m.peakEligible => /\ m.usage = v.dirs[LimitDir(v)].usage
                                /\ m.inactive \in 0 .. m.usage
           /\ m.peakMode # "process-group-rss"
<1> DEFINE d == LimitDir(v)
           limit == MemoryLimit(v)
<1>1. d \in Dirs /\ limit \in Amounts
  BY LimitFact
<1>2. v.dirs[d].usage \in Nat \cup {Unset, Malformed} /\ v.dirs[d].inactive \in Nat
  BY <1>1 DEF ViewOK
<1> HIDE DEF d, limit
<1>3. CASE Readable(v, d)
  <2> DEFINE u == v.dirs[d].usage
             i == InactiveFile(v, d)
  <2>1. u \in Nat
    BY <1>2, <1>3 DEF Readable, Known, Unset, Malformed
  <2>2. i \in 0 .. u
    BY <1>2, <2>1 DEF InactiveFile, Smaller
  <2>3. /\ m.limited = TRUE /\ m.limit = limit /\ m.capacity = limit
        /\ m.source = "cgroup" /\ m.assigned = Unset
        /\ m.available = Larger(0, limit - (u - i))
        /\ m.peakEligible = TRUE /\ m.usage = u /\ m.inactive = i
        /\ m.peakMode = "cgroup"
    BY <1>3 DEF CgroupMemory, d, limit
  <2> HIDE DEF u, i
  <2>4. m.available \in 0 .. limit
    BY <1>1, <2>1, <2>2, <2>3 DEF Larger, Amounts
  <2>. QED  BY <1>3, <2>2, <2>3, <2>4 DEF u, d, limit
<1>4. CASE ~Readable(v, d)
  <2>1. /\ m.limited = TRUE /\ m.limit = limit /\ m.capacity = limit
        /\ m.source = "cgroup" /\ m.assigned = Unset
        /\ m.available = Larger(0, limit - (limit - 0))
        /\ m.peakEligible = FALSE
        /\ m.peakMode = "unavailable"
    BY <1>4 DEF CgroupMemory, d, limit
  <2>2. m.available \in 0 .. limit
    BY <1>1, <2>1 DEF Larger, Amounts
  <2>3. Readable(v, d) = FALSE
    BY <1>4 DEF Readable, Known
  <2>. QED  BY <2>1, <2>2, <2>3 DEF d, limit
<1>. QED  BY <1>3, <1>4

(* The three ways in which a snapshot's memory comes about.                *)
IsHost(v, m) ==
    /\ v.assigned = Unset /\ (v.version = 0 \/ LimitDir(v) = 0)
    /\ m = HostMemory(v, v.version # 0 /\ Readable(v, Leaf))
IsCgroup(v, m) ==
    /\ v.version # 0 /\ LimitDir(v) # 0
    /\ v.assigned # Unset => MemoryLimit(v) <= v.assigned
    /\ m = IF v.assigned = Unset THEN CgroupMemory(v)
           ELSE [CgroupMemory(v) EXCEPT !.assigned = v.assigned]
IsAssigned(v, m) ==
    /\ v.assigned # Unset
    /\ v.version = 0 \/ LimitDir(v) = 0 \/ v.assigned < MemoryLimit(v)
    /\ m = AssignedMemory(v, CollectMemory(v))

LEMMA ThreeWays ==
    ASSUME NEW v, ViewOK(v), ~AssignmentError(v)
    PROVE  LET m == ResolvedMemory(v) IN IsHost(v, m) \/ IsCgroup(v, m) \/ IsAssigned(v, m)
<1> DEFINE c == CollectMemory(v)
           m == ResolvedMemory(v)
<1>1. v.assigned # Unset => v.assigned \in Amounts
  BY DEF ViewOK, AssignmentError, Malformed, Unset, Amounts
<1>2. MemoryLimit(v) \in Amounts
  BY LimitFact
<1>3. CASE v.version # 0 /\ LimitDir(v) # 0
  <2>1. c = CgroupMemory(v)
    BY <1>3 DEF CollectMemory
  <2>2. c.limited = TRUE /\ c.limit = MemoryLimit(v) /\ c.assigned = Unset
    BY <1>3, <2>1, CgroupFact
  <2>3. CASE v.assigned = Unset
    BY <1>3, <2>1, <2>3 DEF ResolvedMemory, ApplyAssignment, IsCgroup
  <2>4. CASE v.assigned # Unset /\ MemoryLimit(v) <= v.assigned
    BY <1>3, <2>1, <2>2, <2>4 DEF ResolvedMemory, ApplyAssignment, IsCgroup
  <2>5. CASE v.assigned # Unset /\ ~(MemoryLimit(v) <= v.assigned)
    <3>1. v.assigned < MemoryLimit(v)
      BY <1>1, <1>2, <2>5 DEF Amounts
    <3>. QED  BY <2>2, <2>5, <3>1 DEF ResolvedMemory, ApplyAssignment, IsAssigned
  <2>. QED  BY <2>3, <2>4, <2>5
<1>4. CASE v.version = 0 \/ LimitDir(v) = 0
  <2>1. c = HostMemory(v, v.version # 0 /\ Readable(v, Leaf))
    <3>1. CASE v.version = 0
      <4>1. (v.version # 0 /\ Readable(v, Leaf)) = FALSE
        BY <3>1
      <4>. QED  BY <3>1, <4>1 DEF CollectMemory
    <3>2. CASE v.version # 0 /\ LimitDir(v) = 0
      <4>1. (v.version # 0 /\ Readable(v, Leaf)) = Readable(v, Leaf)
        BY <3>2 DEF Readable, Known
      <4>. QED  BY <3>2, <4>1 DEF CollectMemory
    <3>. QED  BY <1>4, <3>1, <3>2
  <2>2. c.limited = FALSE
    BY <2>1 DEF HostMemory
  <2>. QED
    BY <1>4, <2>1, <2>2 DEF ResolvedMemory, ApplyAssignment, IsHost, IsAssigned
<1>. QED  BY <1>3, <1>4

LEMMA AssignedFact ==
    ASSUME NEW v, ViewOK(v), ~AssignmentError(v), NEW m, IsAssigned(v, m)
    PROVE  /\ m.capacity = v.assigned /\ m.capacity \in Amounts /\ m.capacity <= v.host.total
           /\ m.source = "assignment" /\ m.assigned = v.assigned
           /\ m.available \in 0 .. m.capacity
           /\ m.peakEligible = LeafEligible(v)
           /\ m.trustworthy = (LeafEligible(v) /\ v.scoped)
           /\ m.peakEligible => m.inactive \in 0 .. m.usage
           /\ m.usage = IF v.version # 0 /\ Readable(v, Leaf) THEN v.dirs[Leaf].usage ELSE Unset
           /\ m.peakMode = "process-group-rss" => ~LeafEligible(v) /\ RssFallback(v)
<1> DEFINE u == v.dirs[Leaf].usage
           inactive == IF LeafEligible(v) /\ v.scoped THEN InactiveFile(v, Leaf) ELSE 0
<1>1. v.assigned \in Amounts /\ v.assigned <= v.host.total
  BY DEF ViewOK, AssignmentError, Malformed, Unset, Amounts, IsAssigned
<1>2. u \in Nat \cup {Unset, Malformed} /\ v.dirs[Leaf].inactive \in Nat
  BY DEF ViewOK, Dirs
<1>3. u <= v.assigned /\ u \in Nat => InactiveFile(v, Leaf) \in 0 .. u
  BY <1>2 DEF InactiveFile, Smaller
<1>4. LeafEligible(v) => u \in Nat /\ u <= v.assigned /\ v.version # 0 /\ Readable(v, Leaf)
  BY <1>2 DEF LeafEligible, Readable, Known, Unset, Malformed
<1>5. /\ m.capacity = v.assigned /\ m.source = "assignment" /\ m.assigned = v.assigned
      /\ m.available = IF LeafEligible(v) THEN Larger(0, v.assigned - (u - inactive)) ELSE 0
      /\ m.peakEligible = LeafEligible(v)
      /\ m.trustworthy = (LeafEligible(v) /\ v.scoped)
      /\ m.inactive = inactive
      /\ m.usage = IF v.version # 0 /\ Readable(v, Leaf) THEN u ELSE Unset
      /\ m.peakMode = IF LeafEligible(v) THEN "cgroup"
                      ELSE IF RssFallback(v) THEN "process-group-rss" ELSE "unavailable"
  BY DEF IsAssigned, AssignedMemory
<1>6. LeafEligible(v) => inactive \in 0 .. u
  BY <1>3, <1>4
<1> HIDE DEF u, inactive
<1>7. m.available \in 0 .. m.capacity
  BY <1>1, <1>4, <1>5, <1>6 DEF Larger, Amounts
<1>8. m.peakEligible => m.inactive \in 0 .. m.usage
  BY <1>4, <1>5, <1>6
<1>9. m.peakMode = "process-group-rss" => ~LeafEligible(v) /\ RssFallback(v)
  BY <1>5
<1>. QED  BY <1>1, <1>5, <1>7, <1>8, <1>9 DEF u

LEMMA LimitedFact ==
    ASSUME NEW v, ViewOK(v), ~AssignmentError(v), NEW m, IsCgroup(v, m)
    PROVE  /\ m.capacity = MemoryLimit(v) /\ m.source = "cgroup" /\ m.assigned = v.assigned
           /\ m.available \in 0 .. m.capacity
           /\ m.peakEligible = Readable(v, LimitDir(v))
           /\ m.peakEligible => /\ m.usage = v.dirs[LimitDir(v)].usage
                                /\ m.inactive \in 0 .. m.usage
           /\ m.peakMode # "process-group-rss"
<1> DEFINE c == CgroupMemory(v)
<1>1. /\ c.capacity = MemoryLimit(v) /\ c.source = "cgroup" /\ c.assigned = Unset
      /\ c.available \in 0 .. c.capacity
      /\ c.peakEligible = Readable(v, LimitDir(v))
      /\ c.peakEligible => /\ c.usage = v.dirs[LimitDir(v)].usage
                           /\ c.inactive \in 0 .. c.usage
      /\ c.peakMode # "process-group-rss"
  BY CgroupFact DEF IsCgroup
<1>2. CASE v.assigned = Unset
  BY <1>1, <1>2 DEF IsCgroup
<1>3. CASE v.assigned # Unset
  <2>1. m = [c EXCEPT !.assigned = v.assigned]
    BY <1>3 DEF IsCgroup
  <2>2. /\ m.capacity = c.capacity /\ m.source = c.source /\ m.assigned = v.assigned
        /\ m.available = c.available /\ m.peakEligible = c.peakEligible
        /\ m.usage = c.usage /\ m.inactive = c.inactive /\ m.peakMode = c.peakMode
    BY <2>1 DEF CgroupMemory
  <2>. QED  BY <1>1, <2>2
<1>. QED  BY <1>2, <1>3

LEMMA UnlimitedFact ==
    ASSUME NEW v, ViewOK(v), NEW m, IsHost(v, m)
    PROVE  /\ m.capacity = v.host.total /\ m.source = "host" /\ m.assigned = Unset
           /\ m.available \in 0 .. m.capacity
           /\ m.peakEligible \in BOOLEAN
           /\ m.peakEligible => m.inactive \in 0 .. m.usage
           /\ m.peakMode # "process-group-rss"
<1> DEFINE known == v.version # 0 /\ Readable(v, Leaf)
<1>1. known \in BOOLEAN /\ m = HostMemory(v, known)
  BY DEF IsHost
<1>2. known => v.dirs[Leaf].usage \in Nat
  BY DEF ViewOK, Dirs, Readable, Known, Unset, Malformed
<1> HIDE DEF known
<1>3. CASE known
  <2>1. m = HostMemory(v, TRUE)
    BY <1>1, <1>3
  <2>2. v.dirs[Leaf].usage \in Nat
    BY <1>2, <1>3
  <2>3. /\ m.capacity = v.host.total /\ m.source = "host" /\ m.assigned = Unset
        /\ m.available \in 0 .. m.capacity /\ m.peakEligible = TRUE
        /\ m.inactive = 0 /\ m.usage = v.dirs[Leaf].usage
        /\ m.peakMode # "process-group-rss"
    BY <2>1, <2>2, HostFact
  <2>4. m.inactive \in 0 .. m.usage
    BY <2>2, <2>3
  <2>. QED  BY <2>3, <2>4
<1>4. CASE ~known
  <2>1. m = HostMemory(v, FALSE)
    BY <1>1, <1>4
  <2>. QED  BY <2>1, HostFact
<1>. QED  BY <1>3, <1>4

(* What the capacity and the headroom are, whichever of the three applies. *)
LEMMA ResolvedFact ==
    ASSUME NEW v, ViewOK(v), ~AssignmentError(v), NEW m, m = ResolvedMemory(v)
    PROVE  /\ m.capacity \in Amounts /\ m.capacity <= v.host.total
           /\ v.version # 0 =>
                 \A d \in Dirs : Known(v.dirs[d].limit) => m.capacity <= v.dirs[d].limit
           /\ v.version = 1 /\ Known(v.hierarchical) => m.capacity <= v.hierarchical
           /\ v.assigned # Unset => v.receipt = v.assigned /\ m.capacity <= v.assigned
           /\ m.assigned = v.assigned
           /\ m.peakEligible \in BOOLEAN
           /\ m.available \in 0 .. m.capacity
           /\ m.peakEligible => m.inactive \in 0 .. m.usage
<1>1. IsHost(v, m) \/ IsCgroup(v, m) \/ IsAssigned(v, m)
  BY ThreeWays
<1>2. /\ v.host.total \in Amounts /\ v.hierarchical \in Amounts \cup {Unset}
      /\ \A d \in Dirs : v.dirs[d].limit \in Amounts \cup {Unset}
  BY DEF ViewOK
<1>3. v.assigned # Unset => v.receipt = v.assigned /\ v.assigned \in Amounts
  BY DEF ViewOK, AssignmentError, Malformed, Unset, Amounts
<1>4. CASE IsHost(v, m)
  <2>1. v.assigned = Unset /\ (v.version = 0 \/ LimitDir(v) = 0)
    BY <1>4 DEF IsHost
  <2>. QED  BY <1>2, <1>4, <2>1, LimitFact, UnlimitedFact DEF Amounts
<1>5. CASE IsCgroup(v, m)
  <2>1. v.assigned # Unset => MemoryLimit(v) <= v.assigned
    BY <1>5 DEF IsCgroup
  <2>2. Readable(v, LimitDir(v)) \in BOOLEAN
    BY DEF Readable, Known
  <2>. QED  BY <1>3, <1>5, <2>1, <2>2, LimitFact, LimitedFact
<1>6. CASE IsAssigned(v, m)
  <2>1. /\ m.capacity = v.assigned /\ m.capacity \in Amounts /\ m.capacity <= v.host.total
        /\ m.assigned = v.assigned /\ m.available \in 0 .. m.capacity
        /\ m.peakEligible = LeafEligible(v)
        /\ m.peakEligible => m.inactive \in 0 .. m.usage
    BY <1>6, AssignedFact
  <2>2. v.version = 0 \/ LimitDir(v) = 0 \/ m.capacity < MemoryLimit(v)
    BY <1>6, <2>1 DEF IsAssigned
  <2>3. LeafEligible(v) \in BOOLEAN
    BY DEF LeafEligible
  <2>4. v.version # 0 =>
           \A d \in Dirs : Known(v.dirs[d].limit) => m.capacity <= v.dirs[d].limit
    BY <1>2, <2>1, <2>2, LimitFact DEF Amounts, Unset
  <2>5. v.version = 1 /\ Known(v.hierarchical) => m.capacity <= v.hierarchical
    BY <1>2, <2>1, <2>2, LimitFact DEF Amounts, Unset
  <2>6. m.peakEligible \in BOOLEAN
    BY <2>1, <2>3
  <2>7. m.capacity <= v.assigned
    BY <2>1 DEF Amounts
  <2>. QED  BY <1>3, <2>1, <2>4, <2>5, <2>6, <2>7
<1>. QED  BY <1>1, <1>4, <1>5, <1>6

-----------------------------------------------------------------------------
(* recommend_build_jobs.                                                   *)

LEMMA JobsFact ==
    ASSUME NEW v, ViewOK(v), NEW m, m.available \in Nat, m.capacity \in Amounts,
           m.peakEligible \in BOOLEAN
    PROVE  LET jobs == SuggestedJobs(v, m) IN
           /\ Reserve(v, m) \in Nat /\ Reserve(v, m) * 100 >= m.capacity * 15
           /\ jobs \in Nat \ {0} /\ jobs <= v.cpus.host
           /\ jobs > 1 => /\ m.peakEligible
                          /\ Reserve(v, m) + jobs * PerJob(v) <= m.available
           /\ ForcedSingleJob(m) => jobs = 1
<1> DEFINE jobs == SuggestedJobs(v, m)
           reserve == Reserve(v, m)
           usable == Usable(v, m)
           byMemory == JobsByMemory(v, m)
           cap == MaxJobsCap(v, m)
           cpus == EffectiveCpus(v)
<1>1. PerJob(v) = DefaultPerJob /\ DefaultPerJob \in Nat \ {0} /\ DefaultReserve \in Nat
      /\ DefaultMaxJobs \in Nat \ {0}
  BY DefaultsAssumption DEF DefaultsAssumption, PerJob, ViewOK, Unset
<1>2. reserve = Larger(DefaultReserve, (m.capacity * 15 + 99) \div 100)
  BY DEF Reserve, Or, Known, ViewOK, Unset
<1>3. (m.capacity * 15 + 99) \div 100 \in Nat
      /\ ((m.capacity * 15 + 99) \div 100) * 100 >= m.capacity * 15
  BY DEF Amounts
<1>4. reserve \in Nat /\ reserve * 100 >= m.capacity * 15
  BY <1>1, <1>2, <1>3 DEF Larger, Amounts
<1> HIDE DEF reserve
<1>5. usable = Larger(0, (IF m.peakEligible THEN m.available ELSE 0) - reserve)
  BY DEF Usable, reserve
<1>6. usable \in Nat /\ (usable > 0 => m.peakEligible /\ usable = m.available - reserve)
  BY <1>4, <1>5 DEF Larger
<1> HIDE DEF usable
<1>7. byMemory = Larger(1, usable \div DefaultPerJob)
  BY <1>1 DEF JobsByMemory, usable
<1>8. usable \div DefaultPerJob \in Nat
  BY <1>1, <1>6
<1>9. byMemory \in Nat \ {0} /\ (byMemory > 1 => byMemory = usable \div DefaultPerJob)
  BY <1>7, <1>8 DEF Larger
<1> HIDE DEF byMemory
<1>10. cpus = v.cpus.host /\ cpus \in Nat \ {0}
  <2>1. CpuBounds(v) = {Larger(1, v.cpus.host)}
    BY DEF CpuBounds, Quotas, ViewOK, Unset
  <2>2. Larger(1, v.cpus.host) = v.cpus.host /\ v.cpus.host \in Nat \ {0}
    BY DEF Larger, ViewOK, Amounts
  <2>3. Min({v.cpus.host}) = v.cpus.host
    BY <2>2 DEF Min
  <2>. QED  BY <2>1, <2>2, <2>3 DEF EffectiveCpus
<1>11. cap \in Nat \ {0} /\ (ForcedSingleJob(m) => cap = 1)
  BY <1>1 DEF MaxJobsCap, ViewOK, Unset
<1> HIDE DEF cap, cpus
<1> DEFINE least == Min({cpus, byMemory, cap})
<1>12. jobs = Larger(1, least)
  BY DEF SuggestedJobs, cpus, byMemory, cap
<1>13. least \in {cpus, byMemory, cap} /\ \A n \in {cpus, byMemory, cap} : least <= n
  <2>1. cpus \in Int /\ byMemory \in Int /\ cap \in Int
    BY <1>9, <1>10, <1>11
  <2>2. {cpus, byMemory, cap} \in SUBSET {cpus, byMemory, cap} /\ {cpus, byMemory, cap} # {}
    OBVIOUS
  <2>. QED  BY <2>1, <2>2, MinFact
<1> HIDE DEF least
<1>14. jobs \in Nat \ {0} /\ jobs <= cpus /\ jobs <= byMemory /\ jobs <= cap
  BY <1>9, <1>10, <1>11, <1>12, <1>13 DEF Larger
<1> HIDE DEF jobs
<1>15. ASSUME jobs > 1 PROVE m.peakEligible /\ reserve + jobs * DefaultPerJob <= m.available
  <2>1. jobs <= usable \div DefaultPerJob
    BY <1>8, <1>9, <1>14, <1>15
  <2>2. jobs * DefaultPerJob <= usable
    BY <1>1, <1>6, <1>14, <2>1, DivFact
  <2>3. jobs * DefaultPerJob \in Nat /\ jobs * DefaultPerJob > 0
    BY <1>1, <1>14
  <2>4. usable > 0
    BY <1>6, <2>2, <2>3
  <2>. QED  BY <1>4, <1>6, <2>2, <2>3, <2>4
<1>16. ForcedSingleJob(m) => jobs = 1
  BY <1>11, <1>14
<1>. QED  BY <1>1, <1>4, <1>10, <1>14, <1>15, <1>16 DEF jobs, reserve

-----------------------------------------------------------------------------
(* The invariant.                                                          *)

LEMMA InitInv == Init => Inv
BY DEF Init, Inv, Typed, CountedOnce, Unset

(* Processes come and go: the counters that were read, and the view, stay. *)
LEMMA ProcessInv ==
    ASSUME Inv, pc # "resolved", UNCHANGED <<pod, pc, counted>>,
           anon' \in [Dirs -> Nat], file' \in [Dirs -> Nat]
    PROVE  Inv'
BY DEF Inv, Typed, CountedOnce

LEMMA CounterFact ==
    ASSUME Typed
    PROVE  /\ \A dir \in Dirs : Counter(dir) \in Nat \cup {Unset, Malformed}
           /\ pod.counter # 0 => Counter(Leaf) = pod.counter
           /\ Counter(Leaf) <= Counter(Parent)
<1>1. /\ anon[Leaf] \in Nat /\ file[Leaf] \in Nat /\ anon[Parent] \in Nat /\ file[Parent] \in Nat
  BY DEF Typed, Dirs
<1>2. pod.counter \in {0, Unset, Malformed}
  BY DEF Typed, Pods
<1>. QED  BY <1>1, <1>2 DEF Counter, Usage, Dirs, Leaf, Parent, Unset, Malformed

LEMMA HierarchicalFact ==
    ASSUME Typed
    PROVE  /\ Hierarchical \in Amounts \cup {Unset}
           /\ Known(pod.hidden) => Known(Hierarchical) /\ Hierarchical <= pod.hidden
<1> DEFINE bounds == {n \in {pod.limits[Leaf], pod.limits[Parent], pod.hidden} : Known(n)}
<1>1. pod.limits[Leaf] \in Amounts \cup {Unset} /\ pod.limits[Parent] \in Amounts \cup {Unset}
      /\ pod.hidden \in Amounts \cup {Unset}
  BY ResolverAssumption DEF ResolverAssumption, Typed, Pods, Dirs, Amounts
<1>2. bounds \in SUBSET {pod.limits[Leaf], pod.limits[Parent], pod.hidden}
      /\ \A n \in bounds : n \in Amounts
  BY <1>1 DEF Known, Unset
<1>3. Hierarchical = IF bounds = {} THEN Unset ELSE Min(bounds)
  BY DEF Hierarchical
<1>4. Known(pod.hidden) => pod.hidden \in bounds
  OBVIOUS
<1> HIDE DEF bounds
<1>5. bounds # {} => Min(bounds) \in bounds /\ \A y \in bounds : Min(bounds) <= y
  <2>1. pod.limits[Leaf] \in Int /\ pod.limits[Parent] \in Int /\ pod.hidden \in Int
    BY <1>1 DEF Amounts, Unset
  <2>. QED  BY <1>2, <2>1, MinFact
<1>. QED  BY <1>2, <1>3, <1>4, <1>5 DEF Known, Amounts

LEMMA NextInv == Inv /\ [Next]_vars => Inv'
<1> SUFFICES ASSUME Inv, [Next]_vars PROVE Inv'
  OBVIOUS
<1>1. anon \in [Dirs -> Nat] /\ file \in [Dirs -> Nat] /\ Chunk \in Nat \ {0}
  BY ResolverAssumption DEF ResolverAssumption, Inv, Typed
<1>2. ASSUME NEW dir \in Dirs, Take(dir) PROVE Inv'
  <2>1. /\ pc # "resolved" /\ UNCHANGED <<pod, file, pc, counted>>
        /\ anon' = [anon EXCEPT ![dir] = @ + Chunk]
    BY <1>2 DEF Take
  <2>2. anon' \in [Dirs -> Nat]
    BY <1>1, <2>1
  <2>. QED  BY <1>1, <2>1, <2>2, ProcessInv
<1>3. ASSUME NEW dir \in Dirs, GiveBack(dir) PROVE Inv'
  <2>1. /\ pc # "resolved" /\ UNCHANGED <<pod, file, pc, counted>>
        /\ anon[dir] >= Chunk /\ anon' = [anon EXCEPT ![dir] = @ - Chunk]
    BY <1>3 DEF GiveBack
  <2>2. anon[dir] - Chunk \in Nat
    BY <1>1, <2>1
  <2>3. anon' \in [Dirs -> Nat]
    BY <1>1, <2>1, <2>2
  <2>. QED  BY <1>1, <2>1, <2>3, ProcessInv
<1>4. ASSUME NEW dir \in Dirs, CacheFile(dir) PROVE Inv'
  <2>1. /\ pc # "resolved" /\ UNCHANGED <<pod, anon, pc, counted>>
        /\ file' = [file EXCEPT ![dir] = @ + Chunk]
    BY <1>4 DEF CacheFile
  <2>2. file' \in [Dirs -> Nat]
    BY <1>1, <2>1
  <2>. QED  BY <1>1, <2>1, <2>2, ProcessInv
<1>5. ASSUME NEW dir \in Dirs, Reclaim(dir) PROVE Inv'
  <2>1. /\ pc # "resolved" /\ UNCHANGED <<pod, anon, pc, counted>>
        /\ file[dir] >= Chunk /\ file' = [file EXCEPT ![dir] = @ - Chunk]
    BY <1>5 DEF Reclaim
  <2>2. file[dir] - Chunk \in Nat
    BY <1>1, <2>1
  <2>3. file' \in [Dirs -> Nat]
    BY <1>1, <2>1, <2>2
  <2>. QED  BY <1>1, <2>1, <2>3, ProcessInv
<1>6. CASE ReadCounters
  <2>1. /\ counted' = [dir \in Dirs |-> Counter(dir)] /\ pc' = "counted"
        /\ UNCHANGED <<pod, anon, file>>
    BY <1>6 DEF ReadCounters
  <2>2. /\ \A dir \in Dirs : Counter(dir) \in Nat \cup {Unset, Malformed}
        /\ pod.counter # 0 => Counter(Leaf) = pod.counter
        /\ Counter(Leaf) <= Counter(Parent)
    BY CounterFact DEF Inv
  <2>3. Typed'
    BY <2>1 DEF Inv, Typed
  <2>4. CountedOnce'
    BY <2>1, <2>2 DEF CountedOnce, Dirs, Leaf, Parent
  <2>. QED  BY <2>1, <2>3, <2>4 DEF Inv
<1>7. CASE ReadStat
  <2>1. /\ pc = "counted" /\ pc' = "resolved" /\ UNCHANGED <<pod, anon, file, counted>>
        /\ snapshot' = CollectResources(view') /\ shim' = CollectSnapshot(view')
    BY <1>7 DEF ReadStat
  <2>2. view' = [version |-> pod.version,
                 dirs |-> [dir \in Dirs |-> [limit |-> pod.limits[dir],
                                             usage |-> counted[dir],
                                             inactive |-> Inactive(file, dir)]],
                 hierarchical |-> Hierarchical, scoped |-> pod.scoped,
                 host |-> [total |-> HostTotal, available |-> HostTotal],
                 assigned |-> pod.assigned, receipt |-> pod.receipt,
                 cpus |-> [host |-> pod.cpus, affinity |-> Unset, cpusets |-> {},
                           quotas |-> {}, runpod |-> Unset],
                 knobs |-> [perJob |-> Unset, reserve |-> Unset, maxJobs |-> Unset]]
    BY <1>7 DEF ReadStat
  <2>3. \A dir \in Dirs : /\ pod.limits[dir] \in Amounts \cup {Unset}
                          /\ counted[dir] \in Nat \cup {Unset, Malformed}
                          /\ Inactive(file, dir) \in Nat
    <3>1. \A dir \in Dirs : pod.limits[dir] \in Amounts \cup {Unset}
      BY ResolverAssumption DEF ResolverAssumption, Inv, Typed, Pods, Amounts
    <3>2. \A dir \in Dirs : Inactive(file, dir) \in Nat
      BY <1>1 DEF Inactive, Dirs
    <3>. QED  BY <3>1, <3>2 DEF Inv, CountedOnce
  <2>4. /\ pod.version \in {0, 1, 2} /\ pod.scoped \in BOOLEAN
        /\ pod.assigned \in Amounts \cup {Unset, Malformed}
        /\ pod.receipt \in Amounts \cup {Unset}
        /\ pod.cpus \in Amounts /\ HostTotal \in Amounts
    BY ResolverAssumption DEF ResolverAssumption, Inv, Typed, Pods, Amounts
  <2>5. /\ Hierarchical \in Amounts \cup {Unset}
        /\ Known(pod.hidden) => Known(Hierarchical) /\ Hierarchical <= pod.hidden
    BY HierarchicalFact DEF Inv
  <2>6. HostTotal \in Nat
    BY <2>4 DEF Amounts
  <2>7. ViewOK(view)'
    BY <2>2, <2>3, <2>4, <2>5, <2>6 DEF ViewOK
  <2>8. Known(pod.hidden) => pod.version = 1
    BY DEF Inv, Typed, Known, Unset
  <2>9. OfPod(view)'
    BY <2>1, <2>2, <2>5, <2>8 DEF OfPod
  <2>10. Typed' /\ CountedOnce'
    BY <2>1 DEF Inv, Typed, CountedOnce
  <2>. QED  BY <2>1, <2>7, <2>9, <2>10 DEF Inv
<1>8. CASE UNCHANGED vars
  BY <1>8 DEF vars, Inv, Typed, CountedOnce, OfPod
<1>. QED  BY <1>2, <1>3, <1>4, <1>5, <1>6, <1>7, <1>8 DEF Next

LEMMA Invariance == Spec => []Inv
BY InitInv, NextInv, PTL DEF Spec

LEMMA AcceptedFact ==
    ASSUME Inv, Accepted
    PROVE  /\ ViewOK(view) /\ OfPod(view) /\ ~AssignmentError(view)
           /\ Memory = ResolvedMemory(view)
           /\ snapshot.suggested = SuggestedJobs(view, Memory)
           /\ snapshot.reserve = Reserve(view, Memory)
           /\ snapshot.perJob = PerJob(view)
           /\ snapshot.forced = ForcedSingleJob(Memory)
<1>1. ViewOK(view) /\ OfPod(view) /\ snapshot = CollectResources(view) /\ ~snapshot.error
  BY DEF Inv, Accepted
<1>2. ~AssignmentError(view)
  BY <1>1 DEF CollectResources, Refused
<1>3. snapshot = Resolved(view)
  BY <1>1, <1>2 DEF CollectResources
<1>. QED  BY <1>1, <1>2, <1>3 DEF Resolved, Memory

-----------------------------------------------------------------------------
(* The theorems.                                                           *)

LEMMA InvCapacity == Inv => CapacityIsBinding
<1> SUFFICES ASSUME Inv, Accepted
             PROVE  /\ Memory.capacity <= HostTotal
                    /\ pod.version # 0 =>
                          \A dir \in Dirs : Known(pod.limits[dir]) => Memory.capacity <= pod.limits[dir]
                    /\ Known(pod.hidden) => Memory.capacity <= pod.hidden
                    /\ pod.assigned # Unset => /\ pod.receipt = pod.assigned
                                               /\ Memory.capacity <= pod.assigned
  BY DEF CapacityIsBinding
<1>1. /\ ViewOK(view) /\ OfPod(view) /\ ~AssignmentError(view)
      /\ Memory = ResolvedMemory(view)
  BY AcceptedFact
<1>2. /\ Memory.capacity \in Amounts /\ Memory.capacity <= view.host.total
      /\ view.version # 0 =>
            \A d \in Dirs : Known(view.dirs[d].limit) => Memory.capacity <= view.dirs[d].limit
      /\ view.version = 1 /\ Known(view.hierarchical) => Memory.capacity <= view.hierarchical
      /\ view.assigned # Unset => view.receipt = view.assigned /\ Memory.capacity <= view.assigned
  BY <1>1, ResolvedFact
<1>3. Known(pod.hidden) => Memory.capacity <= pod.hidden
  <2>1. ASSUME Known(pod.hidden) PROVE Memory.capacity <= pod.hidden
    <3>1. view.version = 1 /\ Known(view.hierarchical) /\ view.hierarchical <= pod.hidden
      BY <1>1, <2>1 DEF OfPod
    <3>2. view.hierarchical \in Int /\ pod.hidden \in Int /\ Memory.capacity \in Int
      <4>1. pod.hidden \in Int
        <5>1. pod.hidden \in Limits \cup {Unset}
          BY DEF Inv, Typed, Pods
        <5>2. \A n \in Limits : n \in Int
          BY ResolverAssumption DEF ResolverAssumption
        <5>. QED  BY <5>1, <5>2 DEF Unset
      <4>2. view.hierarchical \in Int
        BY <1>1 DEF ViewOK, Amounts, Unset
      <4>. QED  BY <1>2, <4>1, <4>2 DEF Amounts
    <3>. QED  BY <1>2, <3>1, <3>2
  <2>. QED  BY <2>1
<1>. QED  BY <1>1, <1>2, <1>3 DEF OfPod

(* No limit on the Pod's path, visible or inherited, and no assignment is  *)
(* below the capacity that sizes the build.                                *)
THEOREM CapacityTheorem == Spec => []CapacityIsBinding
BY Invariance, InvCapacity, PTL

LEMMA InvSubtree == Inv => SubtreeUsageCounted
<1> SUFFICES ASSUME Inv, Accepted, Memory.source = "cgroup", Memory.peakEligible
             PROVE  /\ counted[Leaf] <= Memory.usage
                    /\ \A dir \in Dirs : pod.version # 1 /\ pod.limits[dir] = Memory.capacity =>
                          counted[dir] <= Memory.usage
  BY DEF SubtreeUsageCounted, SiblingsCounted, OwnUsageCounted
<1>1. /\ ViewOK(view) /\ OfPod(view) /\ ~AssignmentError(view)
      /\ Memory = ResolvedMemory(view)
  BY AcceptedFact
<1>2. IsCgroup(view, Memory)
  <2>1. ~IsHost(view, Memory)
    BY <1>1, UnlimitedFact
  <2>2. ~IsAssigned(view, Memory)
    BY <1>1, AssignedFact
  <2>. QED  BY <1>1, <2>1, <2>2, ThreeWays
<1>3. /\ Memory.capacity = MemoryLimit(view) /\ Memory.usage = view.dirs[LimitDir(view)].usage
      /\ Readable(view, LimitDir(view))
  BY <1>1, <1>2, LimitedFact
<1>4. LimitDir(view) \in Dirs
  BY <1>1, <1>2, LimitFact DEF IsCgroup
<1>5. Memory.usage = counted[LimitDir(view)]
  BY <1>1, <1>3, <1>4 DEF OfPod
<1>6. counted[Leaf] <= counted[Parent] /\ counted[Leaf] \in Int /\ counted[Parent] \in Int
  <2>1. pc # "start"
    BY DEF Accepted
  <2>. QED  BY <2>1 DEF Inv, CountedOnce, Dirs, Unset, Malformed
<1>7. ASSUME NEW dir \in Dirs, pod.version # 1, pod.limits[dir] = Memory.capacity
      PROVE  counted[dir] <= Memory.usage
  <2>1. MemoryLimit(view) = EffectiveLimit(view) /\ LimitDir(view) = SupplyingDir(view)
    <3>1. ~InheritedLimit(view)
      BY <1>1, <1>7 DEF InheritedLimit, OfPod
    <3>. QED  BY <3>1 DEF MemoryLimit, LimitDir
  <2>2. dir <= LimitDir(view)
    <3>1. view.dirs[dir].limit = EffectiveLimit(view)
      BY <1>1, <1>3, <1>7, <2>1 DEF OfPod
    <3>. QED  BY <1>1, <2>1, <3>1, SupplyingFact
  <2>. QED  BY <1>4, <1>5, <1>6, <2>2 DEF Dirs, Leaf, Parent
<1>8. counted[Leaf] <= Memory.usage
  BY <1>4, <1>5, <1>6 DEF Dirs, Leaf, Parent
<1>. QED  BY <1>7, <1>8

(* The usage that is compared with a limit is never less than the Pod's    *)
(* own and, except on version 1, it is that of the outermost directory     *)
(* with this limit.                                                        *)
THEOREM SubtreeTheorem == Spec => []SubtreeUsageCounted
BY Invariance, InvSubtree, PTL

LEMMA InvFit == Inv => ParallelJobsFit
<1> SUFFICES ASSUME Inv, Accepted
             PROVE  /\ HeadroomWithinCapacity
                    /\ snapshot.suggested > 1 =>
                          /\ snapshot.reserve + snapshot.suggested * snapshot.perJob
                                <= Memory.available
                          /\ snapshot.reserve * 100 >= Memory.capacity * 15
                          /\ snapshot.suggested <= pod.cpus
  BY DEF ParallelJobsFit
<1>1. /\ ViewOK(view) /\ OfPod(view) /\ ~AssignmentError(view)
      /\ Memory = ResolvedMemory(view)
      /\ snapshot.suggested = SuggestedJobs(view, Memory)
      /\ snapshot.reserve = Reserve(view, Memory)
      /\ snapshot.perJob = PerJob(view)
  BY AcceptedFact
<1>2. /\ Memory.capacity \in Amounts /\ Memory.peakEligible \in BOOLEAN
      /\ Memory.available \in 0 .. Memory.capacity
      /\ Memory.peakEligible => Memory.inactive \in 0 .. Memory.usage
  BY <1>1, ResolvedFact
<1>3. Memory.available \in Nat
  BY <1>2 DEF Amounts
<1>4. HeadroomWithinCapacity
  BY <1>2 DEF HeadroomWithinCapacity
<1>5. view.cpus.host = pod.cpus
  BY <1>1 DEF OfPod
<1>. QED  BY <1>1, <1>2, <1>3, <1>4, <1>5, JobsFact

(* Two compilers or more are suggested only if they fit, with the reserve, *)
(* into the headroom, and the headroom into the capacity.                  *)
THEOREM FitTheorem == Spec => []ParallelJobsFit
BY Invariance, InvFit, PTL

LEMMA InvSerial == Inv => SerialisedWhenUnsure
<1> SUFFICES ASSUME Inv, Accepted
             PROVE  /\ ~Memory.peakEligible => snapshot.suggested = 1
                    /\ (pod.assigned # Unset /\ Memory.source = "assignment"
                          /\ (pod.counter # 0 \/ ~pod.scoped \/ counted[Leaf] > pod.assigned))
                          => snapshot.forced /\ snapshot.suggested = 1
                    /\ RssOnlyWithoutCounter
  BY DEF SerialisedWhenUnsure
<1>1. /\ ViewOK(view) /\ OfPod(view) /\ ~AssignmentError(view)
      /\ Memory = ResolvedMemory(view)
      /\ snapshot.suggested = SuggestedJobs(view, Memory)
      /\ snapshot.forced = ForcedSingleJob(Memory)
  BY AcceptedFact
<1>2. /\ Memory.capacity \in Amounts /\ Memory.peakEligible \in BOOLEAN
      /\ Memory.available \in Nat /\ Memory.assigned = view.assigned
  BY <1>1, ResolvedFact DEF Amounts
<1>3. /\ snapshot.suggested \in Nat \ {0}
      /\ snapshot.suggested > 1 => Memory.peakEligible
      /\ snapshot.forced => snapshot.suggested = 1
  BY <1>1, <1>2, JobsFact
<1>4. /\ view.version = pod.version /\ view.scoped = pod.scoped
      /\ view.assigned = pod.assigned /\ view.dirs[Leaf].usage = counted[Leaf]
  BY <1>1 DEF OfPod, Dirs
<1>5. /\ pod.counter # 0 => counted[Leaf] = pod.counter
      /\ pod.counter \in {0, Unset, Malformed}
      /\ counted[Leaf] \in Nat \cup {Unset, Malformed}
  BY DEF Accepted, Inv, Typed, CountedOnce, Dirs, Pods
<1>6. Memory.source = "assignment" => IsAssigned(view, Memory)
  <2>1. IsHost(view, Memory) => Memory.source # "assignment"
    BY <1>1, UnlimitedFact
  <2>2. IsCgroup(view, Memory) => Memory.source # "assignment"
    BY <1>1, LimitedFact
  <2>. QED  BY <1>1, <2>1, <2>2, ThreeWays
<1>7. ASSUME pod.assigned # Unset, Memory.source = "assignment",
             pod.counter # 0 \/ ~pod.scoped \/ counted[Leaf] > pod.assigned
      PROVE  snapshot.forced
  <2>1. Memory.trustworthy = (LeafEligible(view) /\ view.scoped)
    BY <1>1, <1>6, <1>7, AssignedFact
  <2>2. view.assigned \in Nat
    BY <1>1, <1>4, <1>7 DEF ViewOK, AssignmentError, Amounts, Unset, Malformed
  <2>3. ~(LeafEligible(view) /\ view.scoped)
    BY <1>4, <1>5, <1>7, <2>2 DEF LeafEligible, Readable, Known, Unset, Malformed
  <2>4. ~Memory.trustworthy
    BY <2>1, <2>3
  <2>. QED  BY <1>1, <1>2, <1>4, <1>7, <2>4 DEF ForcedSingleJob
<1>8. ASSUME Memory.peakMode = "process-group-rss" PROVE RssOnlyWithoutCounter
  <2>1. IsAssigned(view, Memory)
    <3>1. ~IsHost(view, Memory)
      BY <1>1, <1>8, UnlimitedFact
    <3>2. ~IsCgroup(view, Memory)
      BY <1>1, <1>8, LimitedFact
    <3>. QED  BY <1>1, <3>1, <3>2, ThreeWays
  <2>2. /\ Memory.source = "assignment" /\ Memory.assigned = view.assigned
        /\ Memory.peakEligible = LeafEligible(view)
        /\ Memory.trustworthy = (LeafEligible(view) /\ view.scoped)
        /\ Memory.usage = IF view.version # 0 /\ Readable(view, Leaf)
                          THEN view.dirs[Leaf].usage ELSE Unset
        /\ ~LeafEligible(view) /\ RssFallback(view)
    BY <1>1, <1>8, <2>1, AssignedFact
  <2>3. pod.version = 0 \/ counted[Leaf] = Unset
    BY <1>4, <2>2 DEF RssFallback
  <2>4. Memory.usage = Unset
    BY <1>4, <2>2, <2>3 DEF Readable, Known, Unset
  <2>5. ~Memory.peakEligible /\ ~Memory.trustworthy
    BY <2>2
  <2>6. snapshot.forced
    BY <1>1, <2>1, <2>2, <2>5 DEF ForcedSingleJob, IsAssigned
  <2>. QED  BY <2>2, <2>3, <2>4, <2>5, <2>6 DEF RssOnlyWithoutCounter
<1>9. RssOnlyWithoutCounter
  BY <1>8 DEF RssOnlyWithoutCounter
<1>. QED  BY <1>2, <1>3, <1>7, <1>9

(* A counter that is missing or malformed never lets two compilers run,    *)
(* nor, under an assignment, does one above it or an ambiguous root.       *)
THEOREM SerialTheorem == Spec => []SerialisedWhenUnsure
BY Invariance, InvSerial, PTL

-----------------------------------------------------------------------------
(* The shim decides as the resolver does, if environment and receipt are   *)
(* both there or both missing.                                             *)

LEMMA ShimCgroupFact ==
    ASSUME NEW v, ViewOK(v)
    PROVE  CgroupCeiling(v).dir = LimitDir(v) /\ CgroupCeiling(v).limit = MemoryLimit(v)
<1>1. EffectiveLimit(v) # 0
  BY EffectiveFact DEF Amounts
<1>2. ShimInherits(v) <=> InheritedLimit(v)
  BY <1>1 DEF ShimInherits, InheritedLimit
<1>. QED  BY <1>2 DEF CgroupCeiling, MemoryLimit, LimitDir

LEMMA ShimFact ==
    ASSUME NEW v, ViewOK(v), ~AssignmentError(v), NEW m, m = ResolvedMemory(v),
           CollectSnapshot(v).shown, v.assigned = Unset <=> v.receipt = Unset
    PROVE  /\ CollectSnapshot(v).total = m.capacity
           /\ CollectSnapshot(v).used = m.usage
           /\ CollectSnapshot(v).used <= CollectSnapshot(v).total
<1> DEFINE dir == LimitDir(v)
           limit == MemoryLimit(v)
           a == v.assigned
           used == v.dirs[ShimUsageDir(v)].usage
<1>1. /\ v.version # 0 /\ ShimCeilings(v) # {}
      /\ Readable(v, ShimUsageDir(v)) /\ ~(used > ShimLimit(v))
      /\ CollectSnapshot(v).total = ShimLimit(v) /\ CollectSnapshot(v).used = used
  BY DEF CollectSnapshot, Unchanged
<1>2. CgroupCeiling(v).dir = dir /\ CgroupCeiling(v).limit = limit
  BY ShimCgroupFact
<1>3. /\ limit \in Amounts /\ limit <= v.host.total /\ dir \in {0} \cup Dirs
      /\ v.host.total \in Amounts
  BY LimitFact DEF ViewOK
<1>4. AssignmentSources(v) = IF a = Unset THEN {} ELSE {a}
  BY DEF AssignmentSources, AssignmentError
<1>5. a # Unset => a \in Amounts /\ a <= v.host.total
  BY DEF ViewOK, AssignmentError, Malformed, Unset, Amounts
<1>6. ShimCeilings(v) = (IF a = Unset THEN {} ELSE {a}) \cup (IF dir = 0 THEN {} ELSE {limit})
  BY <1>2, <1>4 DEF ShimCeilings
<1>7. Smaller(limit, v.host.total) = limit
  BY <1>3 DEF Smaller
<1>8. ShimUsageDir(v) = IF dir # 0 /\ (a # Unset => a >= limit) THEN dir ELSE Leaf
  BY <1>2, <1>4, <1>7 DEF ShimUsageDir
<1>9. IsHost(v, m) \/ IsCgroup(v, m) \/ IsAssigned(v, m)
  BY ThreeWays
<1>10. ~IsHost(v, m)
  BY <1>1, <1>6 DEF IsHost
<1> HIDE DEF dir, limit, a
<1>11. ShimCeilings(v) \cup {v.host.total} # {}
  OBVIOUS
<1>12. \E b \in Int : ShimCeilings(v) \cup {v.host.total} \in SUBSET {b, limit, v.host.total}
  <2>1. CASE a = Unset
    BY <1>3, <1>6, <2>1 DEF Amounts
  <2>2. CASE a # Unset
    BY <1>5, <1>6, <2>2 DEF Amounts
  <2>. QED  BY <2>1, <2>2
<1>13. /\ ShimLimit(v) \in ShimCeilings(v) \cup {v.host.total}
       /\ \A n \in ShimCeilings(v) \cup {v.host.total} : ShimLimit(v) <= n
  <2>1. limit \in Int /\ v.host.total \in Int
    BY <1>3 DEF Amounts
  <2>2. PICK b \in Int : ShimCeilings(v) \cup {v.host.total} \in SUBSET {b, limit, v.host.total}
    BY <1>12
  <2> DEFINE S == ShimCeilings(v) \cup {v.host.total}
  <2>3. S # {} /\ S \in SUBSET {b, limit, v.host.total} /\ ShimLimit(v) = Min(S)
    BY <1>11, <2>2 DEF ShimLimit
  <2> HIDE DEF S
  <2>4. b \in Int /\ S # {} /\ S \in SUBSET {b, limit, v.host.total}
    BY <2>2, <2>3
  <2>5. Min(S) \in S /\ \A n \in S : Min(S) <= n
    BY <2>1, <2>4, MinFact
  <2>. QED  BY <2>3, <2>5 DEF S
<1>14. CASE IsCgroup(v, m)
  <2>1. dir # 0 /\ (a # Unset => limit <= a)
    BY <1>14 DEF IsCgroup, dir, limit, a
  <2>2. ShimUsageDir(v) = dir
    BY <1>3, <1>5, <1>8, <2>1 DEF Amounts
  <2>3. ShimLimit(v) = limit
    BY <1>3, <1>5, <1>6, <1>13, <2>1 DEF Amounts
  <2>4. Readable(v, dir)
    BY <1>1, <2>2
  <2>5. m.capacity = limit /\ m.usage = v.dirs[dir].usage
    BY <1>14, <2>4, LimitedFact DEF dir, limit
  <2>6. v.dirs[dir].usage \in Int
    BY <1>3, <2>1 DEF ViewOK, Unset, Malformed
  <2>. QED  BY <1>1, <1>3, <2>2, <2>3, <2>5, <2>6 DEF Amounts
<1>15. CASE IsAssigned(v, m)
  <2>1. a # Unset /\ (dir = 0 \/ a < limit)
    BY <1>1, <1>15 DEF IsAssigned, dir, limit, a
  <2>2. ShimUsageDir(v) = Leaf
    BY <1>3, <1>5, <1>8, <2>1 DEF Amounts
  <2>3. ShimLimit(v) = a
    BY <1>3, <1>5, <1>6, <1>13, <2>1 DEF Amounts
  <2>4. Readable(v, Leaf)
    BY <1>1, <2>2
  <2>5. m.capacity = a /\ m.usage = v.dirs[Leaf].usage
    BY <1>1, <1>15, <2>4, AssignedFact DEF a
  <2>6. v.dirs[Leaf].usage \in Int
    BY DEF ViewOK, Dirs, Unset, Malformed
  <2>. QED  BY <1>1, <1>5, <2>1, <2>2, <2>3, <2>5, <2>6 DEF Amounts
<1>. QED  BY <1>9, <1>10, <1>14, <1>15

LEMMA InvShim == Inv => ShimShowsCapacity
<1> SUFFICES ASSUME Inv, Accepted, shim.shown, pod.assigned = Unset <=> pod.receipt = Unset
             PROVE  shim.total = Memory.capacity /\ shim.used = Memory.usage
                    /\ shim.used <= shim.total
  BY DEF ShimShowsCapacity
<1>1. /\ ViewOK(view) /\ OfPod(view) /\ ~AssignmentError(view)
      /\ Memory = ResolvedMemory(view) /\ shim = CollectSnapshot(view)
  BY AcceptedFact DEF Inv, Accepted
<1>2. view.assigned = Unset <=> view.receipt = Unset
  BY <1>1 DEF OfPod
<1>. QED  BY <1>1, <1>2, ShimFact

(* free and top show the capacity and the usage the build was sized by.    *)
THEOREM ShimTheorem == Spec => []ShimShowsCapacity
BY Invariance, InvShim, PTL

-----------------------------------------------------------------------------
(* The kernel's accounting: what is charged stays within every limit, for  *)
(* giving memory back never raises what any directory is charged for.      *)
LEMMA AllowedLess ==
    ASSUME NEW a \in [Dirs -> Nat], NEW f \in [Dirs -> Nat],
           NEW b \in [Dirs -> Nat], NEW g \in [Dirs -> Nat],
           \A dir \in Dirs : b[dir] <= a[dir] /\ g[dir] <= f[dir],
           pod \in Pods, Allowed(a, f)
    PROVE  Allowed(b, g)
<1>1. /\ a[Leaf] \in Nat /\ f[Leaf] \in Nat /\ a[Parent] \in Nat /\ f[Parent] \in Nat
      /\ b[Leaf] \in Nat /\ g[Leaf] \in Nat /\ b[Parent] \in Nat /\ g[Parent] \in Nat
      /\ b[Leaf] <= a[Leaf] /\ g[Leaf] <= f[Leaf]
      /\ b[Parent] <= a[Parent] /\ g[Parent] <= f[Parent]
  BY DEF Dirs
<1>2. \A dir \in Dirs : /\ Usage(b, g, dir) \in Nat /\ Usage(a, f, dir) \in Nat
                        /\ Usage(b, g, dir) <= Usage(a, f, dir)
  BY <1>1 DEF Usage
<1>3. HostTotal \in Nat /\ pod.hidden \in Int
      /\ \A dir \in Dirs : pod.limits[dir] \in Int
  <2>1. pod.hidden \in Limits \cup {Unset}
    BY DEF Pods
  <2>2. \A dir \in Dirs : pod.limits[dir] \in Limits \cup {Unset}
    BY DEF Pods
  <2>3. Unset \in Int /\ Limits \subseteq Int /\ HostTotal \in Nat
    BY ResolverAssumption DEF ResolverAssumption, Unset
  <2>. QED  BY <2>1, <2>2, <2>3
<1>4. Parent \in Dirs
  BY DEF Dirs
<1>. QED  BY <1>2, <1>3, <1>4 DEF Allowed

LEMMA InitAllowed == Init => Allowed(anon, file)
<1> SUFFICES ASSUME Init PROVE Allowed(anon, file)
  OBVIOUS
<1>1. \A dir \in Dirs : Usage(anon, file, dir) = 0
  BY DEF Init, Usage, Dirs
<1>2. pod.hidden \in Nat \cup {Unset} /\ \A dir \in Dirs : pod.limits[dir] \in Nat \cup {Unset}
  BY ResolverAssumption DEF Init, ResolverAssumption, Pods
<1>3. Parent \in Dirs /\ HostTotal \in Nat
  BY ResolverAssumption DEF ResolverAssumption, Dirs
<1>. QED  BY <1>1, <1>2, <1>3 DEF Allowed, Known, Unset

LEMMA NextAllowed == Inv /\ Allowed(anon, file) /\ [Next]_vars => Allowed(anon, file)'
<1> SUFFICES ASSUME Inv, Allowed(anon, file), [Next]_vars PROVE Allowed(anon, file)'
  OBVIOUS
<1>1. /\ anon \in [Dirs -> Nat] /\ file \in [Dirs -> Nat] /\ Chunk \in Nat \ {0}
      /\ pod \in Pods
  BY ResolverAssumption DEF ResolverAssumption, Inv, Typed
<1>2. ASSUME NEW dir \in Dirs, Take(dir) \/ CacheFile(dir) PROVE Allowed(anon, file)'
  BY <1>2 DEF Take, CacheFile, Allowed
<1>3. ASSUME NEW dir \in Dirs, GiveBack(dir) PROVE Allowed(anon, file)'
  <2>1. /\ anon[dir] >= Chunk /\ anon' = [anon EXCEPT ![dir] = @ - Chunk]
        /\ UNCHANGED <<pod, file>>
    BY <1>3 DEF GiveBack
  <2>2. anon[dir] - Chunk \in Nat /\ anon[dir] - Chunk <= anon[dir]
    BY <1>1, <2>1
  <2>3. anon' \in [Dirs -> Nat] /\ \A d \in Dirs : anon'[d] <= anon[d] /\ file[d] <= file[d]
    BY <1>1, <2>1, <2>2
  <2>4. Allowed(anon', file)
    BY <1>1, <2>3, AllowedLess
  <2>. QED  BY <2>1, <2>4 DEF Allowed
<1>4. ASSUME NEW dir \in Dirs, Reclaim(dir) PROVE Allowed(anon, file)'
  <2>1. /\ file[dir] >= Chunk /\ file' = [file EXCEPT ![dir] = @ - Chunk]
        /\ UNCHANGED <<pod, anon>>
    BY <1>4 DEF Reclaim
  <2>2. file[dir] - Chunk \in Nat /\ file[dir] - Chunk <= file[dir]
    BY <1>1, <2>1
  <2>3. file' \in [Dirs -> Nat] /\ \A d \in Dirs : file'[d] <= file[d] /\ anon[d] <= anon[d]
    BY <1>1, <2>1, <2>2
  <2>4. Allowed(anon, file')
    BY <1>1, <2>3, AllowedLess
  <2>. QED  BY <2>1, <2>4 DEF Allowed
<1>5. CASE ReadCounters \/ ReadStat \/ UNCHANGED vars
  <2>1. UNCHANGED <<pod, anon, file>>
    BY <1>5 DEF ReadCounters, ReadStat, vars
  <2>. QED  BY <2>1 DEF Allowed
<1>. QED  BY <1>2, <1>3, <1>4, <1>5 DEF Next

LEMMA AlwaysAllowed == Spec => []Allowed(anon, file)
BY InitAllowed, NextAllowed, Invariance, PTL DEF Spec

LEMMA InvTypeOK == Inv /\ Allowed(anon, file) => TypeOK
<1> SUFFICES ASSUME Inv, Accepted PROVE Memory.capacity \in Nat
  BY DEF TypeOK, Inv, Typed, CountedOnce
<1>1. ViewOK(view) /\ ~AssignmentError(view) /\ Memory = ResolvedMemory(view)
  BY AcceptedFact
<1>. QED  BY <1>1, ResolvedFact DEF Amounts

(* What the Pod and its siblings are charged for never exceeds a limit on  *)
(* their path, those the resolver cannot see included, and the capacity it *)
(* reports is a number.                                                    *)
THEOREM TypeCorrect == Spec => []TypeOK
BY Invariance, AlwaysAllowed, InvTypeOK, PTL

=============================================================================
