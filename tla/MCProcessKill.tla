--------------------------- MODULE MCProcessKill ----------------------------
(* Instances of ProcessKill: all processes share one process number, one   *)
(* of them may have a protected name.                                      *)
EXTENDS ProcessKill, TLC
MCPidOf == [p \in Process |-> 1]
Symmetric == Permutations(Request) \cup Permutations(Process \ ProtectedProcess)
=============================================================================
