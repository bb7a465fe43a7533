----------------------------- MODULE LiveSocket ------------------------------
(***************************************************************************)
(* The live connection of the browser (web/src/lib/ws.ts), its subscriber  *)
(* in the application shell (hooks/useWebSocket.ts, app/App.tsx) and the   *)
(* part of the store that they fill (stores/store.ts), with the polled     *)
(* status of the agent next to it (hooks/useSystemStatus.ts).              *)
(*                                                                         *)
(* A socket is an object whose events arrive later, for as long as it      *)
(* lives, whatever the module variable "socket" refers to by then.  The    *)
(* production build mounts the shell once.  In development StrictMode      *)
(* mounts, unmounts and mounts it again before any event can arrive, and   *)
(* a hot reload does so at any time.                                       *)
(***************************************************************************)
EXTENDS Integers, Sequences

CONSTANTS Socket,      \* numbers of the socket objects; one that is closed may be
                       \* a new object later
          NoSocket,
          KeepEvents,  \* recentEvents keeps the last 50
          MaxEvents,   \* bound: events that the server publishes
          MaxDrops,    \* bound: connections that fail or break
          MaxRemounts, \* bound: hot reloads
          MaxTimers,   \* bound: reconnections that are due
          MaxFlips     \* bound: changes of the agent's state

ASSUME LiveSocketAssumption ==
    /\ Socket \subseteq Nat /\ NoSocket \notin Socket
    /\ KeepEvents \in Nat /\ MaxEvents \in Nat /\ MaxDrops \in Nat
    /\ MaxRemounts \in Nat /\ MaxTimers \in Nat /\ MaxFlips \in Nat

VARIABLES
    development,     \* the build: StrictMode has its effect, hot reloads
    mounted,         \* the shell is mounted and subscribed
    socket,          \* the module variable
    ready,           \* readyState of each socket
    shouldReconnect,
    timers,          \* calls of connectWS that are due
    timerHeld,       \* reconnectTimeout refers to one of them
    heartbeats,      \* intervals that run
    heartbeatHeld,   \* heartbeatInterval refers to one of them
    liveStatus,
    published,       \* events the server has sent so far
    received,        \* the last event that went through each socket
    recentEvents,
    agentUp, agentStatus,
    drops, remounts, flips

socketVars == <<socket, ready, shouldReconnect, timers, timerHeld, heartbeats,
                heartbeatHeld, liveStatus>>
eventVars == <<published, received, recentEvents>>
agentVars == <<agentUp, agentStatus, flips>>
liveVars == <<development, mounted, socketVars, eventVars, agentVars, drops, remounts>>

Live(s) == ready[s] \in {"connecting", "open"}

LiveInit ==
    /\ development \in BOOLEAN
    /\ mounted = TRUE
    /\ socket \in Socket /\ \A s \in Socket : s <= socket
    /\ shouldReconnect = TRUE
    /\ \E old \in Socket \ {socket} :
         ready = [s \in Socket |-> IF s = socket THEN "connecting"
                                   ELSE IF development /\ s = old THEN "closing" ELSE "closed"]
    /\ timers = 0 /\ timerHeld = FALSE /\ heartbeats = 0 /\ heartbeatHeld = FALSE
    /\ liveStatus = "disconnected"
    /\ published = 0 /\ received = [s \in Socket |-> 0] /\ recentEvents = <<>>
    /\ agentUp = FALSE /\ agentStatus = FALSE
    /\ drops = 0 /\ remounts = 0 /\ flips = 0

-----------------------------------------------------------------------------
(* connectWS.                                                              *)

(* A new object takes the place of one that nothing refers to any more.    *)
NewSocket ==
    \E s \in Socket :
        /\ ready[s] = "closed" /\ \A t \in Socket : ready[t] = "closed" => s <= t
        /\ socket' = s
        /\ ready' = [ready EXCEPT ![s] = "connecting"]
        /\ shouldReconnect' = TRUE

connectWS ==
    IF socket # NoSocket /\ Live(socket)
    THEN UNCHANGED <<socket, ready, shouldReconnect>>
    ELSE NewSocket

ReconnectIsDue ==
    /\ timers > 0
    /\ timers' = timers - 1
    /\ timerHeld' \in {h \in BOOLEAN : h => timerHeld /\ timers > 1}
    /\ connectWS
    /\ UNCHANGED <<heartbeats, heartbeatHeld, liveStatus, development, mounted, drops, remounts>>
    /\ UNCHANGED eventVars /\ UNCHANGED agentVars

-----------------------------------------------------------------------------
(* The events of a socket.                                                 *)

Notify(status) == liveStatus' = IF mounted THEN status ELSE liveStatus

(* A heartbeat that is already there is overwritten, not cleared.          *)
onopen(s) ==
    /\ ready[s] = "connecting"
    /\ ready' = [ready EXCEPT ![s] = "open"]
    /\ Notify("connected")
    /\ heartbeats' = heartbeats + 1 /\ heartbeatHeld' = TRUE
    /\ received' = [received EXCEPT ![s] = published]
    /\ UNCHANGED <<socket, shouldReconnect, timers, timerHeld, published, recentEvents,
                   development, mounted, drops, remounts>>
    /\ UNCHANGED agentVars

(* The server goes away, or refuses.                                       *)
ServerCloses(s) ==
    /\ Live(s) /\ drops < MaxDrops
    /\ ready' = [ready EXCEPT ![s] = "closing"]
    /\ drops' = drops + 1
    /\ UNCHANGED <<socket, shouldReconnect, timers, timerHeld, heartbeats, heartbeatHeld,
                   liveStatus, development, mounted, remounts>>
    /\ UNCHANGED eventVars /\ UNCHANGED agentVars

ClearHeartbeat ==
    /\ heartbeats' = IF heartbeatHeld THEN heartbeats - 1 ELSE heartbeats
    /\ heartbeatHeld' = FALSE

ScheduleNothing == UNCHANGED <<timers, timerHeld>>
(* A new timer takes the place of the one that reconnectTimeout held.      *)
ScheduleReconnect ==
    IF shouldReconnect THEN timers' = timers + 1 /\ timerHeld' = TRUE
                       ELSE UNCHANGED <<timers, timerHeld>>

oncloseKeepingHeartbeat(s) ==
    /\ ready[s] = "closing" /\ timers < MaxTimers
    /\ ready' = [ready EXCEPT ![s] = "closed"]
    /\ Notify("disconnected")
    /\ UNCHANGED <<heartbeats, heartbeatHeld>> /\ ScheduleReconnect
    /\ received' = [received EXCEPT ![s] = 0]
    /\ UNCHANGED <<socket, shouldReconnect, published, recentEvents,
                   development, mounted, drops, remounts>>
    /\ UNCHANGED agentVars
onclose(s) ==
    /\ ready[s] = "closing" /\ timers < MaxTimers
    /\ ready' = [ready EXCEPT ![s] = "closed"]
    /\ Notify("disconnected")
    /\ ClearHeartbeat /\ ScheduleReconnect
    /\ received' = [received EXCEPT ![s] = 0]
    /\ UNCHANGED <<socket, shouldReconnect, published, recentEvents,
                   development, mounted, drops, remounts>>
    /\ UNCHANGED agentVars

-----------------------------------------------------------------------------
(* Live events.                                                            *)

Broadcast ==
    /\ published < MaxEvents
    /\ published' = published + 1
    /\ UNCHANGED <<received, recentEvents, development, mounted, drops, remounts>>
    /\ UNCHANGED socketVars /\ UNCHANGED agentVars

addSecurityEvent(e) ==
    LET events == <<e>> \o recentEvents
    IN SubSeq(events, 1, IF Len(events) < KeepEvents THEN Len(events) ELSE KeepEvents)

onmessage(s) ==
    /\ ready[s] = "open" /\ received[s] < published
    /\ received' = [received EXCEPT ![s] = received[s] + 1]
    /\ recentEvents' = IF mounted THEN addSecurityEvent(received[s] + 1) ELSE recentEvents
    /\ UNCHANGED <<published, development, mounted, drops, remounts>>
    /\ UNCHANGED socketVars /\ UNCHANGED agentVars

-----------------------------------------------------------------------------
(* Mounting.                                                               *)

(* disconnectWS; the close event of the socket is still to come.           *)
Unmount ==
    /\ development /\ mounted /\ remounts < MaxRemounts
    /\ remounts' = remounts + 1 /\ mounted' = FALSE
    /\ shouldReconnect' = FALSE
    /\ timers' = IF timerHeld THEN timers - 1 ELSE timers
    /\ timerHeld' = FALSE
    /\ ClearHeartbeat
    /\ ready' = IF socket # NoSocket /\ Live(socket)
                THEN [ready EXCEPT ![socket] = "closing"] ELSE ready
    /\ socket' = NoSocket
    /\ UNCHANGED <<liveStatus, development, drops>>
    /\ UNCHANGED eventVars /\ UNCHANGED agentVars

Mount ==
    /\ ~mounted
    /\ mounted' = TRUE
    /\ connectWS
    /\ UNCHANGED <<timers, timerHeld, heartbeats, heartbeatHeld, liveStatus,
                   development, drops, remounts>>
    /\ UNCHANGED eventVars /\ UNCHANGED agentVars

-----------------------------------------------------------------------------
(* The status of the agent, polled from /api/health.                       *)

AgentChanges ==
    /\ flips < MaxFlips
    /\ flips' = flips + 1 /\ agentUp' = ~agentUp
    /\ UNCHANGED <<agentStatus, development, mounted, drops, remounts>>
    /\ UNCHANGED socketVars /\ UNCHANGED eventVars

HealthFetched ==
    /\ mounted /\ agentStatus # agentUp
    /\ agentStatus' = agentUp
    /\ UNCHANGED <<agentUp, flips, development, mounted, drops, remounts>>
    /\ UNCHANGED socketVars /\ UNCHANGED eventVars

(* What the header warns of.                                               *)
HeaderWarnings ==
    {w \in {"agentDisconnected", "liveDisconnected"} :
        \/ w = "agentDisconnected" /\ ~agentStatus
        \/ w = "liveDisconnected" /\ liveStatus # "connected"}

LiveNext ==
    \/ ReconnectIsDue
    \/ \E s \in Socket : onopen(s) \/ ServerCloses(s) \/ onclose(s) \/ onmessage(s)
    \/ Broadcast \/ Unmount \/ Mount
    \/ AgentChanges \/ HealthFetched

LiveSpec == LiveInit /\ [][LiveNext]_liveVars

-----------------------------------------------------------------------------
(* Properties.                                                             *)

LiveTypeOK ==
    /\ development \in BOOLEAN /\ mounted \in BOOLEAN
    /\ socket \in Socket \cup {NoSocket}
    /\ ready \in [Socket -> {"connecting", "open", "closing", "closed"}]
    /\ shouldReconnect \in BOOLEAN /\ timers \in Nat /\ timerHeld \in BOOLEAN
    /\ timerHeld => timers > 0
    /\ heartbeats \in Nat /\ heartbeatHeld \in BOOLEAN /\ (heartbeatHeld => heartbeats > 0)
    /\ liveStatus \in {"connected", "disconnected"}
    /\ published \in Nat /\ received \in [Socket -> 0 .. published]
    /\ recentEvents \in Seq(1 .. published)
    /\ agentUp \in BOOLEAN /\ agentStatus \in BOOLEAN

(* However many reconnections are due and however often the shell is       *)
(* mounted, there is one connection at most, and it is the one the module  *)
(* refers to: "Предотвращаем множественные соединения" (ws.ts:23).         *)
OneConnection == \A s \in Socket : Live(s) => s = socket

(* So the store never shows an event twice or out of order.                *)
EventsOnceInOrder ==
    \A i, j \in DOMAIN recentEvents : i < j => recentEvents[i] > recentEvents[j]

(* In the production build the module is always in one of three states: a  *)
(* connection that is or will be open, with its status and its heartbeat;  *)
(* a connection whose close event is to come; or one reconnection that is  *)
(* due.  No late event of an old connection disturbs a newer one.          *)
ProductionLife ==
    /\ socket # NoSocket /\ shouldReconnect
    /\ \A s \in Socket \ {socket} : ready[s] = "closed"
    /\ timers = (IF ready[socket] = "closed" THEN 1 ELSE 0)
    /\ ready[socket] = "open" => liveStatus = "connected" /\ heartbeatHeld
    /\ ready[socket] \in {"connecting", "closed"} =>
         liveStatus = "disconnected" /\ heartbeats = 0
    /\ heartbeats <= 1

OneLifeAtATime ==
    /\ OneConnection /\ EventsOnceInOrder
    /\ ~development => ProductionLife

(* In the production build, after connections have ceased to break and the *)
(* agent to come and go, the header comes to show both states as they are. *)
HeaderIsRight ==
    ~development => HeaderWarnings = (IF agentUp THEN {} ELSE {"agentDisconnected"})
HeaderFollows == <>[]HeaderIsRight
=============================================================================
