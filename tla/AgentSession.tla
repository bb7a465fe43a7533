---------------------------- MODULE AgentSession ----------------------------
(***************************************************************************)
(* The sessions of server/ws/agent.py: each WebSocket connection of the    *)
(* agent runs one agent_ws_handler coroutine; all of them share the global *)
(* _agent_ws and the health flag.  A handler is cut at its awaits: the     *)
(* first message, the close of the session it evicts, the receive loop.    *)
(*                                                                         *)
(* The agent keeps at most one connection open (agent/ws/client.go, Run),  *)
(* but a connection that is over for the agent may not be over for the     *)
(* server yet.                                                             *)
(***************************************************************************)
EXTENDS Naturals, FiniteSets

CONSTANTS Session,    \* the connections the agent makes, one after the other
          NoSession   \* None

ASSUME AgentSessionAssumption == NoSession \notin Session

VARIABLES
    handler,     \* position of each session's coroutine
    victim,      \* the session whose close a handler awaits
    closed,      \* sessions whose WebSocket the server has closed
    gone,        \* sessions whose peer has left
    registered,  \* _agent_ws
    health,      \* health._agent_connected
    agent        \* the connection the agent uses

vars == <<handler, victim, closed, gone, registered, health, agent>>

Init == /\ handler = [s \in Session |-> "new"]
        /\ victim = [s \in Session |-> NoSession]
        /\ closed = {} /\ gone = {}
        /\ registered = NoSession /\ health = FALSE
        /\ agent = NoSession

-----------------------------------------------------------------------------
(* The agent.                                                              *)

Connect(s) == /\ agent = NoSession
              /\ handler[s] = "new"
              /\ agent' = s
              /\ handler' = [handler EXCEPT ![s] = "auth"]
              /\ UNCHANGED <<victim, closed, gone, registered, health>>

(* The agent leaves, the network breaks, or the server's close arrives.    *)
AgentLeaves == /\ agent # NoSession
               /\ gone' = gone \cup {agent}
               /\ agent' = NoSession
               /\ UNCHANGED <<handler, victim, closed, registered, health>>

-----------------------------------------------------------------------------
(* agent_ws_handler.                                                       *)

Register(s) == /\ registered' = s
               /\ health' = TRUE

(* A wrong secret, or a peer that leaves before its first message.         *)
AuthFails(s) == /\ handler[s] = "auth"
                /\ handler' = [handler EXCEPT ![s] = "done"]
                /\ closed' = closed \cup {s}
                /\ UNCHANGED <<victim, gone, registered, health, agent>>

AuthFirst(s) == /\ handler[s] = "auth"
                /\ registered = NoSession
                /\ Register(s)
                /\ handler' = [handler EXCEPT ![s] = "serving"]
                /\ UNCHANGED <<victim, closed, gone, agent>>

AuthEvictsBlind(s) == /\ handler[s] = "auth"
                      /\ registered # NoSession
                      /\ handler' = [handler EXCEPT ![s] = "evicting"]
                      /\ UNCHANGED <<victim, closed, gone, registered, health, agent>>
(* Another session is registered: its close is awaited first.              *)
AuthEvicts(s) == /\ handler[s] = "auth"
                 /\ registered # NoSession
                 /\ victim' = [victim EXCEPT ![s] = registered]
                 /\ handler' = [handler EXCEPT ![s] = "evicting"]
                 /\ UNCHANGED <<closed, gone, registered, health, agent>>

Evicted(s) == /\ handler[s] = "evicting"
              /\ closed' = closed \cup {victim[s]}
              /\ victim' = [victim EXCEPT ![s] = NoSession]
              /\ Register(s)
              /\ handler' = [handler EXCEPT ![s] = "serving"]
              /\ UNCHANGED <<gone, agent>>

(* Only a RuntimeError of that close is survived: any other exception ends *)
(* the new handler before it is registered, and the old one stays.         *)
EvictionFails(s) == /\ handler[s] = "evicting"
                    /\ closed' \in {closed \cup {s}, closed \cup {s, victim[s]}}
                    /\ victim' = [victim EXCEPT ![s] = NoSession]
                    /\ handler' = [handler EXCEPT ![s] = "done"]
                    /\ UNCHANGED <<gone, registered, health, agent>>

UnregisterHealthOnly == health' = FALSE /\ UNCHANGED registered
UnregisterSessionOnly == registered' = NoSession /\ UNCHANGED health
(* The finally block does not look whose registration it clears.           *)
Unregister == registered' = NoSession /\ health' = FALSE

Finally(s) == /\ Unregister
              /\ handler' = [handler EXCEPT ![s] = "done"]
              /\ closed' = closed \cup {s}
              /\ UNCHANGED <<victim, gone, agent>>

LoopEnds(s) == /\ handler[s] = "serving"
               /\ s \in closed \cup gone
               /\ Finally(s)

(* An exception leaves the loop too: a send that raises inside _handle_log *)
(* (Containment, SendRaises), a message of an unexpected shape.            *)
LoopRaises(s) == /\ handler[s] = "serving"
                 /\ Finally(s)

Next == \/ \E s \in Session : \/ Connect(s) \/ AuthFails(s) \/ AuthFirst(s)
                              \/ AuthEvicts(s) \/ Evicted(s) \/ EvictionFails(s)
                              \/ LoopEnds(s) \/ LoopRaises(s)
        \/ AgentLeaves

Spec == Init /\ [][Next]_vars

(* The event loop runs every handler whose await is over; a close and the  *)
(* departure of a peer are noticed by the handler that receives.           *)
Fairness == \A s \in Session : /\ WF_vars(AuthFails(s) \/ AuthFirst(s) \/ AuthEvicts(s))
                               /\ WF_vars(Evicted(s) \/ EvictionFails(s))
                               /\ WF_vars(LoopEnds(s))

FairSpec == Spec /\ Fairness

-----------------------------------------------------------------------------
(* Properties.                                                             *)

TypeOK == /\ handler \in [Session -> {"new", "auth", "evicting", "serving", "done"}]
          /\ victim \in [Session -> Session \cup {NoSession}]
          /\ \A s \in Session : handler[s] = "evicting" => victim[s] # NoSession
          /\ closed \subseteq Session /\ gone \subseteq Session
          /\ registered \in Session \cup {NoSession}
          /\ health \in BOOLEAN
          /\ agent \in Session \cup {NoSession}

(* The session that commands are sent to has a handler that still receives *)
(* (a result would be read), through every overlap of evictions and ends;  *)
(* and the health flag is up exactly when there is such a session.         *)
RegisteredServes ==
    /\ registered # NoSession => handler[registered] = "serving"
    /\ health <=> registered # NoSession

(* When the agent is gone for good the server finds out: the flag does not *)
(* stay up for a session whose peer has left.                              *)
AbsenceIsNoticed == <>[](agent = NoSession) => <>[](~health)

(* README.md:47-53, the health check after the installation is expected to *)
(* report "agent":"connected".  An agent that stays connected and whose    *)
(* session is served must be reported so in the end.                       *)
ServedAgentIsReported ==
    \A s \in Session :
        <>[](agent = s /\ handler[s] = "serving" /\ s \notin closed) => <>[]health
=============================================================================
