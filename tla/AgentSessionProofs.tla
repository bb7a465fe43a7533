------------------------- MODULE AgentSessionProofs -------------------------
(***************************************************************************)
(* The registered session is one that is served, for any number of         *)
(* sessions.  RegisteredServes is inductive together with TypeOK: every    *)
(* action that ends a handler's loop is Finally, and Finally clears the    *)
(* registration, whosever it is.                                           *)
(***************************************************************************)
EXTENDS AgentSession, TLAPS

IInv == TypeOK /\ RegisteredServes

LEMMA InitInv == Init => IInv
  BY AgentSessionAssumption DEF Init, IInv, TypeOK, RegisteredServes

LEMMA StepInv == IInv /\ [Next]_vars => IInv'
  <1> SUFFICES ASSUME IInv, [Next]_vars PROVE IInv'
    OBVIOUS
  <1> USE AgentSessionAssumption DEF IInv, TypeOK, RegisteredServes
  <1>1. ASSUME NEW s \in Session, Connect(s) PROVE IInv'
    BY <1>1 DEF Connect
  <1>2. ASSUME NEW s \in Session, AuthFails(s) PROVE IInv'
    BY <1>2 DEF AuthFails
  <1>3. ASSUME NEW s \in Session, AuthFirst(s) PROVE IInv'
    BY <1>3 DEF AuthFirst, Register
  <1>4. ASSUME NEW s \in Session, AuthEvicts(s) PROVE IInv'
    BY <1>4 DEF AuthEvicts
  <1>5. ASSUME NEW s \in Session, Evicted(s) PROVE IInv'
    <2>1. victim[s] \in Session
      BY <1>5 DEF Evicted
    <2> QED
      BY <1>5, <2>1 DEF Evicted, Register
  <1>6. ASSUME NEW s \in Session, Finally(s) PROVE IInv'
    BY <1>6 DEF Finally, Unregister
  <1>7. CASE AgentLeaves
    BY <1>7 DEF AgentLeaves
  <1>8. CASE UNCHANGED vars
    BY <1>8 DEF vars
  <1>9. ASSUME NEW s \in Session, EvictionFails(s) PROVE IInv'
    <2>1. victim[s] \in Session /\ closed' \subseteq Session
      BY <1>9 DEF EvictionFails
    <2> QED
      BY <1>9, <2>1 DEF EvictionFails
  <1> QED
    BY <1>1, <1>2, <1>3, <1>4, <1>5, <1>6, <1>7, <1>8, <1>9 DEF Next, LoopEnds, LoopRaises

(* The state keeps its types for any number of overlapping connections,    *)
(* and a handler that evicts knows whom.                                   *)
THEOREM TypeCorrect == Spec => []TypeOK
  <1>1. IInv => TypeOK
    BY DEF IInv
  <1> QED
    BY <1>1, InitInv, StepInv, PTL DEF Spec

(* The session commands are sent to has a live receive loop, and the       *)
(* health flag says whether there is one, for any number of overlapping    *)
(* connections.                                                            *)
THEOREM RegisteredSessionServes == Spec => []RegisteredServes
  <1>1. IInv => RegisteredServes
    BY DEF IInv
  <1> QED
    BY <1>1, InitInv, StepInv, PTL DEF Spec
=============================================================================
