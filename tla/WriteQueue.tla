----------------------------- MODULE WriteQueue -----------------------------
(***************************************************************************)
(* What the write path promises to the code that changes the database.     *)
(* Statements are numbered in the order of their acceptance and become     *)
(* durable in that order, one by one; what is durable stays durable, and   *)
(* not everything accepted need ever be.  The shutdown draws a line: what  *)
(* is accepted after it never becomes durable, and the queue ends only     *)
(* when everything before it is.                                           *)
(*                                                                         *)
(* Module DbWriter is shown to implement this module with its retries and  *)
(* half-open transactions; module Containment builds on it with a queue    *)
(* whose head is committed in one step.                                    *)
(***************************************************************************)
EXTENDS Naturals

VARIABLES accepted,  \* statements accepted so far
          durable,   \* how many of them the database holds
          open,      \* the line is not drawn yet
          sealed,    \* statements accepted before the line
          ended      \* the queue has ended in order

vars == <<accepted, durable, open, sealed, ended>>

Init == /\ accepted = 0 /\ durable = 0 /\ open = TRUE
        /\ sealed = 0 /\ ended = FALSE

Accept == /\ accepted' = accepted + 1
          /\ UNCHANGED <<durable, open, sealed, ended>>

Commit == /\ durable < IF open THEN accepted ELSE sealed
          /\ durable' = durable + 1
          /\ UNCHANGED <<accepted, open, sealed, ended>>

Seal == /\ open /\ open' = FALSE
        /\ sealed' = accepted
        /\ UNCHANGED <<accepted, durable, ended>>

End == /\ ~open /\ durable = sealed
       /\ ended' = TRUE
       /\ UNCHANGED <<accepted, durable, open, sealed>>

Next == Accept \/ Commit \/ Seal \/ End

Spec == Init /\ [][Next]_vars
=============================================================================
