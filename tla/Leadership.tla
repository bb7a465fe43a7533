----------------------------- MODULE Leadership -----------------------------
(***************************************************************************)
(* What the primary lock promises: of the nodes that share a lock path one *)
(* acts as primary or none does.  A node becomes the primary of a path     *)
(* that has none; nobody takes the place of a primary that still acts, and *)
(* to stand by is always possible.                                         *)
(*                                                                         *)
(* The promise is kept by a file lock, by who takes it and by how long it  *)
(* is held: module Failover is shown to implement this module.             *)
(***************************************************************************)
CONSTANTS Node,
          Path   \* lock paths

(* The nodes that act as primary, of each path.                            *)
VARIABLE leaders

Init == leaders = [p \in Path |-> {}]

Elect(p, n) == /\ leaders[p] = {}
               /\ leaders' = [leaders EXCEPT ![p] = {n}]

Resign(p, n) == /\ leaders[p] = {n}
                /\ leaders' = [leaders EXCEPT ![p] = {}]

Next == \E p \in Path, n \in Node : Elect(p, n) \/ Resign(p, n)

Spec == Init /\ [][Next]_leaders
=============================================================================
