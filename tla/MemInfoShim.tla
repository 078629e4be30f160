---------------------------- MODULE MemInfoShim ----------------------------
(***************************************************************************)
(* The preloaded /proc/meminfo shim, docker/resource-shim/libpodproc.c, on *)
(* the same views as PodResources.  It is an independent implementation of *)
(* the resolution, for display: whenever it is unsure it shows the host's  *)
(* own file, [shown |-> FALSE].                                            *)
(***************************************************************************)
EXTENDS PodResources

Unchanged == [shown |-> FALSE]

(* Receipt and environment: an invalid one stops the shim, one of them is  *)
(* enough, the smaller of both is used.                                    *)
AssignmentInvalid(view) == view.receipt = Malformed \/ view.assigned = Malformed
AssignmentSources(view) == {view.receipt, view.assigned} \ {Unset}

(* The least limit of the path, or the bound version 1 inherits.           *)
ShimInherits(view) ==
    /\ view.version = 1
    /\ view.hierarchical > 0
    /\ view.hierarchical <= EffectiveLimit(view)
CgroupCeiling(view) ==
    IF ShimInherits(view) THEN [dir |-> Leaf, limit |-> view.hierarchical]
    ELSE [dir |-> SupplyingDir(view), limit |-> EffectiveLimit(view)]

ShimCeilings(view) ==
    AssignmentSources(view)
        \cup (IF CgroupCeiling(view).dir # 0 THEN {CgroupCeiling(view).limit} ELSE {})

ShimLimit(view) == Min(ShimCeilings(view) \cup {view.host.total})

(* The limit's own directory supplies the usage, unless the assignment is  *)
(* strictly the smallest ceiling, or the only one.                         *)
\* Mutant of ShimUsageDir: the assignment also wins a tie.
LeafOnTie(view) ==
    IF ShimLimit(view) \in AssignmentSources(view) THEN Leaf ELSE CgroupCeiling(view).dir
ShimUsageDir(view) ==
    IF CgroupCeiling(view).dir # 0
        /\ \A n \in AssignmentSources(view) :
              n >= Smaller(CgroupCeiling(view).limit, view.host.total)
    THEN CgroupCeiling(view).dir ELSE Leaf

CollectSnapshot(view) ==
    IF \/ view.host.total = 0 \/ view.version = 0
       \/ view.dirs[Leaf].usage = Unset
       \/ AssignmentInvalid(view) \/ ShimCeilings(view) = {}
       \/ ~Readable(view, ShimUsageDir(view))
       \/ view.dirs[ShimUsageDir(view)].usage > ShimLimit(view)
    THEN Unchanged
    ELSE [shown |-> TRUE, total |-> ShimLimit(view),
          used |-> view.dirs[ShimUsageDir(view)].usage,
          cached |-> InactiveFile(view, ShimUsageDir(view))]

=============================================================================
