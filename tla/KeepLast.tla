------------------------------ MODULE KeepLast ------------------------------
(***************************************************************************)
(* What agent/buffer/ring.go promises: a queue in order of insertion that  *)
(* keeps the last Capacity messages (its comment, lines 5-7) and hands all *)
(* of them over at once.                                                   *)
(***************************************************************************)
EXTENDS Naturals, Sequences

CONSTANTS Message, Capacity

VARIABLES content,   \* what the buffer keeps, the oldest message first
          drained    \* what the last DrainAll returned

(* The oldest message gives way.                                           *)
Kept(s, m) == IF Len(s) < Capacity THEN Append(s, m) ELSE Append(Tail(s), m)

Init == content = <<>> /\ drained = <<>>

Push(m) == content' = Kept(content, m) /\ UNCHANGED drained

DrainAll == drained' = content /\ content' = <<>>

Next == DrainAll \/ \E m \in Message : Push(m)

Spec == Init /\ [][Next]_<<content, drained>>
=============================================================================
