--------------------------- MODULE BufferedClient ----------------------------
(***************************************************************************)
(* The client of the agent with the ring that is its buffer: every push    *)
(* and every drain of AgentClient is one of RingBuffer, in the order in    *)
(* which the goroutines get to its mutex.                                  *)
(***************************************************************************)
EXTENDS AgentClient, RingBuffer

ASSUME BufferedClientAssumption == Item = Message /\ cap = Capacity

ClientInit == Init /\ New

ClientNext ==
    \/ Unbuffered /\ UNCHANGED ringVars
    \/ (Drain \/ FlushDrain) /\ DrainAll
    \/ PushBack /\ Push(Head(buffered))
    \/ \E s \in Sender : SendPushes(s) /\ Push(sender[s].msg)

ClientSpec == ClientInit /\ [][ClientNext]_<<vars, ringVars>> /\ Fairness

-----------------------------------------------------------------------------
(* Properties, beside those of AgentClient and RingBuffer.                 *)

(* Every message is in one place, and the sequence that stands for the     *)
(* buffer in the client is what the slots of the ring hold, through every  *)
(* drain, every message put back and every overflow.                       *)
OnePlaceInTheRing == OnePlace /\ buffer = Contents
=============================================================================
