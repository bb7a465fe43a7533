----------------------------- MODULE BlockTable -----------------------------
(***************************************************************************)
(* What the block list promises to the code that changes it.  Operations   *)
(* take effect whole and in the order in which they were accepted; they    *)
(* become durable in that same order; a crash forgets some of the latest   *)
(* ones and nothing else.  A put replaces the whole row of its address.    *)
(*                                                                         *)
(* The server keeps this promise with a queue of SQL statements and one    *)
(* writer task: module Containment is shown to implement this module.      *)
(***************************************************************************)
EXTENDS Sequences, SequencesExt

CONSTANTS Ip,     \* source addresses
          Row,    \* contents of a row of blocked_ips
          NoRow   \* the address has no row

(* versions[1] is the durable table, its last element the newest one.      *)
VARIABLE versions

Newest == Last(versions)

Init == versions = <<[ip \in Ip |-> NoRow]>>

Accept(table) == versions' = Append(versions, table)

Put(ip, row) == Accept([Newest EXCEPT ![ip] = row])

Delete(ips) == Accept([ip \in Ip |-> IF ip \in ips THEN NoRow ELSE Newest[ip]])

Persist == /\ Len(versions) > 1
           /\ versions' = Tail(versions)

Crash == versions' = <<Head(versions)>>

(* Any row may be put; the newest version then shows which.                *)
PutAny(ip) == LET row == Last(versions')[ip] IN row \in Row /\ Put(ip, row)

(* Operations, and nothing else, add a version.                            *)
Operation == /\ Len(versions') > Len(versions)
             /\ \/ \E ip \in Ip : PutAny(ip)
                \/ \E ips \in SUBSET Ip : Delete(ips)

Next == \/ Operation
        \/ Persist
        \/ Crash

Spec == Init /\ [][Next]_versions
=============================================================================
