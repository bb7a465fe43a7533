----------------------------- MODULE RingBuffer -----------------------------
(***************************************************************************)
(* RingBuffer of agent/buffer/ring.go: an array of cap slots, the index of *)
(* the oldest message and the number of messages.  A mutex makes Push and  *)
(* DrainAll atomic.  DrainAll leaves the slots as they are.                *)
(***************************************************************************)
EXTENDS Integers, Sequences

CONSTANTS Item,      \* messages
          Empty,     \* a slot that was never written (nil)
          cap        \* capacity: New panics when it is not positive

ASSUME RingBufferAssumption == cap \in Nat \ {0} /\ Empty \notin Item

VARIABLES items, head, count, result

ringVars == <<items, head, count, result>>

Slots == 0 .. cap - 1

New == /\ items = [i \in Slots |-> Empty]
       /\ head = 0 /\ count = 0
       /\ result = <<>>

(* The slot i places behind the head.                                      *)
Slot(i) == (head + i) % cap

AdvanceCountOnly == head' = head /\ count' = IF count = cap THEN cap ELSE count + 1
(* A full buffer moves its head over the oldest message.                   *)
Advance == IF count = cap THEN head' = (head + 1) % cap /\ count' = count
                          ELSE head' = head /\ count' = count + 1

Push(data) == /\ items' = [items EXCEPT ![Slot(count)] = data]
              /\ Advance
              /\ UNCHANGED result

Contents == [i \in 1 .. count |-> items[Slot(i - 1)]]

DrainAll == /\ result' = Contents
            /\ head' = 0 /\ count' = 0
            /\ UNCHANGED items

RingNext == DrainAll \/ \E data \in Item : Push(data)

RingSpec == New /\ [][RingNext]_ringVars

-----------------------------------------------------------------------------
(* Properties.                                                             *)

(* The indices stay inside the array and every counted slot was written.   *)
RingTypeOK ==
    /\ items \in [Slots -> Item \cup {Empty}]
    /\ head \in Slots
    /\ count \in 0 .. cap
    /\ \A i \in 0 .. count - 1 : items[Slot(i)] \in Item
    /\ result \in Seq(Item)

(* The ring implements a queue that keeps the last cap messages in order:  *)
(* through every sequence of overflows, drains and refills, nothing is     *)
(* lost but the oldest, nothing is kept twice, nothing comes back after a  *)
(* drain although the slots are not cleared.                               *)
Queue == INSTANCE KeepLast WITH Message <- Item, Capacity <- cap,
                               content <- Contents, drained <- result
ImplementsKeepLast == Queue!Spec
=============================================================================
