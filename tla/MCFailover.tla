----------------------------- MODULE MCFailover -----------------------------
(* Lock paths and peers of small clusters for the runs of Failover.        *)
EXTENDS Failover

CONSTANTS n1, n2

OnePath == [n \in Node |-> "shared"]
OwnPath == [n \in Node |-> n]
Other == [n \in Node |-> IF n = n1 THEN n2 ELSE n1]
=============================================================================
