-------------------------------- MODULE MCGpu --------------------------------
(***************************************************************************)
(* Values of the constants for the instances of GpuNodePolicy that TLC     *)
(* checks.  Each .cfg picks the ones its question needs.                   *)
(***************************************************************************)
EXTENDS GpuNodePolicy, TLC

CONSTANTS p1, p2, n1, n2, t1, s0, s1

TwoZones == {"a", "b"}

\* Hashes.  They tell apart the contents an instance can reach.
TwoDigests == {0, 1}
TsDigest == [c \in DpContents |-> IF c.ts = t1 THEN 1 ELSE 0]
ThreeDigests == {0, 1, 2}
StrategyDigest == [c \in DpContents |-> CASE c.strategy = "single" -> 1
                                           [] c.strategy = "mixed" -> 2
                                           [] OTHER -> 0]
\* The strategies "mixed" and "none" have one digest, though not one content.
CollidingDigest == [c \in DpContents |-> IF c.strategy = "single" THEN 1 ELSE 0]
SliceDigest == [s \in MigSlices |-> IF s = NoSlices THEN 0 ELSE 1]

\* No name is the beginning of another.
DistinctNames == [p \in Policies |-> {p}]

\* Specs.
slicing(zones, ts) ==
    [sel |-> zones, mode |-> "time-slicing", ts |-> ts, mig |-> None]
vm(zones) == [slicing(zones, None) EXCEPT !.mode = "pass-through"]
slicedIn(zones, strategy, slices) ==
    [sel |-> zones, mode |-> "mig", ts |-> None,
     mig |-> [strategy |-> strategy, slices |-> slices]]
sliced(strategy, slices) == slicedIn(TwoZones, strategy, slices)

\* Either of two zones: policies compete for nodes and lose them.  One of them
\* may be created in either of two modes.
EitherZone == p1 :> {slicing({"a"}, t1), slicing({"b"}, t1)}
              @@ p2 :> {slicing({"a"}, t1), vm({"b"})}
\* A change of the content, with or without a change of the nodes, or of the
\* mode when the policy is created again.
Contents == p1 :> {slicing({"a"}, t1), slicing(TwoZones, None), vm({"a"})}
            @@ p2 :> {vm({"a"}), vm(TwoZones)}
MigSpecs == p1 :> {sliced("single", s1), sliced("mixed", s1),
                   sliced("mixed", NoSlices)}
MigOrNone == p1 :> {sliced("single", s1), sliced("mixed", s1),
                    [sliced("single", s1) EXCEPT !.mig = None]}
\* Two policies whose entries share both ConfigMaps.  The nodes are those of the
\* first, in one zone with either spec, in the other with one of them.
MigPair == p1 :> {sliced("mixed", s1), slicedIn({"a"}, "mixed", NoSlices)}
           @@ p2 :> {slicedIn({}, "mixed", s1)}
=============================================================================
