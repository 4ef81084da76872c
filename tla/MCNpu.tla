-------------------------------- MODULE MCNpu --------------------------------
(***************************************************************************)
(* Values of the constants for the instances of NpuSystem that TLC checks. *)
(***************************************************************************)
EXTENDS NpuSystem, TLC

CONSTANTS p1, p2, n1, n2

NoZones == {}
OneZone == {"a"}
TwoZones == {"a", "b"}
\* Each policy is always created in the same mode.
ModeEach == p1 :> {"container"} @@ p2 :> {"vm"}
OneMode == p1 :> {"container"}

\* Either of two zones: policies compete for nodes and lose them.
EitherZone == [p \in Policies |-> {{"a"}, {"b"}}]
\* The node or no node.
OnOrOff == [p \in Policies |-> {{"a"}, {}}]
=============================================================================
