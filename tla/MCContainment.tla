--------------------------- MODULE MCContainment ---------------------------
(***************************************************************************)
(* Instances of Containment for TLC.                                       *)
(***************************************************************************)
EXTENDS Containment

BruteForce == [type |-> "ssh_brute_force", severity |-> "high", desc |-> "5+ failed"]
Scan == [type |-> "port_scan", severity |-> "medium", desc |-> "12 ports"]
Traversal == [type |-> "path_traversal", severity |-> "medium", desc |-> "pattern"]

KindsMixed == {BruteForce, Scan}
KindsHigh == {BruteForce}
KindsMedium == {Traversal}
=============================================================================
