---------------------------- MODULE AgentClient ----------------------------
(***************************************************************************)
(* The WebSocket client of the agent (agent/ws/client.go) and its offline  *)
(* buffer.  The goroutines: Run, which dials, authenticates, drains the    *)
(* buffer and reads commands; the collectors of agent/main.go, which call  *)
(* Send; main, which shuts down.  They share conn and connected under mu   *)
(* and the buffer under its own mutex, and release them between a look and *)
(* the act that follows from it.                                           *)
(*                                                                         *)
(* The buffer is the queue of KeepLast; BufferedClient puts RingBuffer in  *)
(* its place.                                                              *)
(* Connections are numbered; a write to one that is not up fails.          *)
(***************************************************************************)
EXTENDS Integers, Sequences, SequencesExt, FiniteSets

CONSTANTS Collector,    \* goroutines that send telemetry
          Runner,       \* Run as a sender of command results
          Capacity,     \* of the buffer (1000 in NewClient)
          MaxMessages,  \* bound: messages sent
          MaxConns      \* bound: connections

ASSUME AgentClientAssumption ==
    /\ Runner \notin Collector
    /\ Capacity \in Nat \ {0} /\ MaxMessages \in Nat /\ MaxConns \in Nat

Sender == Collector \cup {Runner}
Message == 1 .. MaxMessages

(* A nil conn; no connection.                                              *)
None == 0

VARIABLES
    conn, connected, done,   \* fields of Client
    buffer,      \* the offline buffer
    run,         \* position of Run and connect
    own,         \* the local conn of connect
    buffered,    \* what connect drained and has not sent
    sender,      \* each Send under way: its message and the conn it saw
    main,        \* position of the shutdown
    flush,       \* SendDisconnect: what it drained, the conn it saw
    dialled,     \* number of connections made
    up,          \* the connection that works
    wire,        \* messages written and not yet received by the server
    received,    \* messages the server received, in order
    gone,        \* messages lost
    made         \* number of messages

clientVars == <<conn, connected, done>>
runVars == <<run, own, buffered>>
netVars == <<up, wire, received>>
vars == <<conn, connected, done, buffer, run, own, buffered, sender, main,
          flush, dialled, up, wire, received, gone, made>>

Resting == [pc |-> "rest"]

Init == /\ conn = None /\ connected = FALSE /\ done = FALSE
        /\ buffer = <<>>
        /\ run = "start" /\ own = None /\ buffered = <<>>
        /\ sender = [s \in Sender |-> Resting]
        /\ main = "serving" /\ flush = [msgs |-> <<>>, to |-> None]
        /\ dialled = 0 /\ up = None
        /\ wire = <<>> /\ received = <<>> /\ gone = {} /\ made = 0

(* buffer.Push: the oldest message is lost when the buffer is full;        *)
(* buffer.DrainAll empties it.                                             *)
Ring == INSTANCE KeepLast WITH content <- buffer, drained <- buffered
PushBuffer(m) == /\ buffer' = Ring!Kept(buffer, m)
                 /\ gone' = gone \cup IF Len(buffer) < Capacity THEN {} ELSE {Head(buffer)}

DrainKeeping == UNCHANGED buffer
DrainBuffer == buffer' = <<>>

(* The connection that works ends: the server still receives a part of     *)
(* what was written to it.                                                 *)
Hangup == \E k \in 0 .. Len(wire) :
             /\ up' = None
             /\ wire' = <<>>
             /\ received' = received \o SubSeq(wire, 1, k)
             /\ gone' = gone \cup ToSet(SubSeq(wire, k + 1, Len(wire)))

CloseConn(c) == IF c # None /\ c = up THEN Hangup ELSE UNCHANGED <<netVars, gone>>

Write(m) == wire' = Append(wire, m)

-----------------------------------------------------------------------------
(* Run and connect.                                                        *)

Start == /\ run = "start"
         /\ run' = IF done THEN "stopped" ELSE "dialing"
         /\ UNCHANGED <<clientVars, buffer, own, buffered, sender, main, flush,
                        dialled, netVars, gone, made>>

DialFails == /\ run = "dialing"
             /\ run' = "start"
             /\ UNCHANGED <<clientVars, buffer, own, buffered, sender, main, flush,
                            dialled, netVars, gone, made>>

(* c.conn is set before the authentication, and whether or not Close has   *)
(* been called.                                                            *)
Dial == /\ run = "dialing"
        /\ dialled < MaxConns
        /\ dialled' = dialled + 1
        /\ up' = dialled + 1 /\ own' = dialled + 1 /\ conn' = dialled + 1
        /\ run' = "auth"
        /\ UNCHANGED <<connected, done, buffer, buffered, sender, main, flush,
                       wire, received, gone, made>>

(* A failed authentication closes the connection and leaves c.conn.        *)
AuthFails == /\ run = "auth"
             /\ CloseConn(own)
             /\ run' = "start"
             /\ UNCHANGED <<clientVars, buffer, own, buffered, sender, main, flush,
                            dialled, made>>

AuthOk == /\ run = "auth" /\ own = up
          /\ connected' = TRUE
          /\ run' = "online"
          /\ UNCHANGED <<conn, done, buffer, own, buffered, sender, main, flush,
                         dialled, netVars, gone, made>>

Drain == /\ run = "online"
         /\ buffered' = buffer /\ DrainBuffer
         /\ run' = "sending"
         /\ UNCHANGED <<clientVars, own, sender, main, flush, dialled, netVars, gone, made>>

SendBuffered == /\ run = "sending" /\ buffered # <<>> /\ own = up
                /\ Write(Head(buffered))
                /\ buffered' = Tail(buffered)
                /\ UNCHANGED <<clientVars, buffer, run, own, sender, main, flush,
                               dialled, up, received, gone, made>>

(* A write fails: the message and those after it go back, one by one.      *)
SendBufferedFails == /\ run = "sending" /\ buffered # <<>> /\ own # up
                     /\ run' = "returning"
                     /\ UNCHANGED <<clientVars, buffer, own, buffered, sender, main,
                                    flush, dialled, netVars, gone, made>>

PushBack == /\ run = "returning" /\ buffered # <<>>
            /\ PushBuffer(Head(buffered))
            /\ buffered' = Tail(buffered)
            /\ UNCHANGED <<clientVars, run, own, sender, main, flush, dialled, netVars, made>>

EnterLoop == /\ run \in {"sending", "returning"} /\ buffered = <<>>
             /\ run' = "looping"
             /\ UNCHANGED <<clientVars, buffer, own, buffered, sender, main, flush,
                            dialled, netVars, gone, made>>

SessionEndsUnmarked == /\ conn' = None
                       /\ UNCHANGED <<connected, done>>
SessionEnds == /\ connected' = FALSE /\ conn' = None
               /\ UNCHANGED done

(* The head of the read loop looks at done, then ReadMessage blocks.       *)
LoopHead == /\ run = "looping"
            /\ IF done THEN SessionEnds /\ run' = "start"
                       ELSE UNCHANGED clientVars /\ run' = "reading"
            /\ UNCHANGED <<buffer, own, buffered, sender, main, flush, dialled,
                           netVars, gone, made>>

ReadFails == /\ run = "reading" /\ own # up
             /\ SessionEnds
             /\ run' = "start"
             /\ UNCHANGED <<buffer, own, buffered, sender, main, flush, dialled,
                            netVars, gone, made>>

-----------------------------------------------------------------------------
(* Send: a look at conn and connected, then a write or a push.             *)

Snapshot(s) == /\ sender[s] = Resting
               /\ made < MaxMessages
               /\ made' = made + 1
               /\ sender' = [sender EXCEPT ![s] =
                    [pc |-> "send", msg |-> made + 1, to |-> IF connected THEN conn ELSE None]]

Send(s) == /\ s \in Collector
           /\ Snapshot(s)
           /\ UNCHANGED <<clientVars, buffer, runVars, main, flush, dialled, netVars, gone>>

(* A command arrives; Run executes it and sends the result itself.         *)
Command == /\ run = "reading" /\ own = up
           /\ Snapshot(Runner)
           /\ run' = "replying"
           /\ UNCHANGED <<clientVars, buffer, own, buffered, main, flush, dialled, netVars, gone>>

Returns(s) == /\ sender' = [sender EXCEPT ![s] = Resting]
              /\ run' = IF s = Runner THEN "looping" ELSE run

SendWrites(s) == /\ sender[s].pc = "send" /\ sender[s].to # None /\ sender[s].to = up
                 /\ Write(sender[s].msg)
                 /\ Returns(s)
                 /\ UNCHANGED <<clientVars, buffer, own, buffered, main, flush, dialled,
                                up, received, gone, made>>

SendFails(s) == /\ sender[s].pc = "send" /\ sender[s].to \notin {None, up}
                /\ sender' = [sender EXCEPT ![s].to = None]
                /\ UNCHANGED <<clientVars, buffer, runVars, main, flush, dialled,
                               netVars, gone, made>>

SendPushes(s) == /\ sender[s].pc = "send" /\ sender[s].to = None
                 /\ PushBuffer(sender[s].msg)
                 /\ Returns(s)
                 /\ UNCHANGED <<clientVars, own, buffered, main, flush, dialled, netVars, made>>

-----------------------------------------------------------------------------
(* The shutdown of main: SendDisconnect, then Close.                       *)

Signal == /\ main = "serving"
          /\ flush' = [flush EXCEPT !.to = conn]
          /\ main' = IF conn = None THEN "closing" ELSE "draining"
          /\ UNCHANGED <<clientVars, buffer, runVars, sender, dialled, netVars, gone, made>>

FlushDrain == /\ main = "draining"
              /\ flush' = [flush EXCEPT !.msgs = buffer]
              /\ DrainBuffer
              /\ main' = "flushing"
              /\ UNCHANGED <<clientVars, runVars, sender, dialled, netVars, gone, made>>

FlushWrite == /\ main = "flushing" /\ flush.msgs # <<>> /\ flush.to = up
              /\ Write(Head(flush.msgs))
              /\ flush' = [flush EXCEPT !.msgs = Tail(@)]
              /\ UNCHANGED <<clientVars, buffer, runVars, sender, main, dialled,
                             up, received, gone, made>>

(* The first failed write drops the rest.                                  *)
FlushFails == /\ main = "flushing" /\ flush.msgs # <<>> /\ flush.to # up
              /\ gone' = gone \cup ToSet(flush.msgs)
              /\ flush' = [flush EXCEPT !.msgs = <<>>]
              /\ UNCHANGED <<clientVars, buffer, runVars, sender, main, dialled, netVars, made>>

Disconnect == /\ main = "flushing" /\ flush.msgs = <<>>
              /\ CloseConn(flush.to)
              /\ main' = "closing"
              /\ UNCHANGED <<clientVars, buffer, runVars, sender, flush, dialled, made>>

CloseFlagOnly == /\ done' = TRUE
                 /\ conn' = None /\ connected' = FALSE
                 /\ UNCHANGED <<netVars, gone>>
CloseClient == /\ done' = TRUE
               /\ conn' = None /\ connected' = FALSE
               /\ CloseConn(conn)

Close == /\ main = "closing"
         /\ CloseClient
         /\ main' = "closed"
         /\ UNCHANGED <<buffer, runVars, sender, flush, dialled, made>>

-----------------------------------------------------------------------------
(* The network and the server.                                             *)

Receive == /\ wire # <<>>
           /\ received' = Append(received, Head(wire))
           /\ wire' = Tail(wire)
           /\ UNCHANGED <<clientVars, buffer, runVars, sender, main, flush, dialled,
                          up, gone, made>>

Break == /\ up # None
         /\ Hangup
         /\ UNCHANGED <<clientVars, buffer, runVars, sender, main, flush, dialled, made>>

Session == Drain \/ SendBuffered \/ SendBufferedFails \/ PushBack \/ EnterLoop
           \/ LoopHead \/ ReadFails

(* The steps that leave the buffer alone.                                  *)
Unbuffered == \/ Start \/ DialFails \/ Dial \/ AuthFails \/ AuthOk
              \/ SendBuffered \/ SendBufferedFails \/ EnterLoop \/ LoopHead \/ ReadFails
              \/ Command \/ \E s \in Sender : Send(s) \/ SendWrites(s) \/ SendFails(s)
              \/ Signal \/ FlushWrite \/ FlushFails \/ Disconnect \/ Close
              \/ Receive \/ Break

Next == \/ Unbuffered
        \/ Drain \/ FlushDrain \/ PushBack
        \/ \E s \in Sender : SendPushes(s)

Spec == Init /\ [][Next]_vars

(* The goroutines run; a dial ends by its HandshakeTimeout; a write into a *)
(* connection that works is taken by the socket; main finishes what it     *)
(* began.  Nothing makes the network work, and nothing makes a live peer   *)
(* answer the authentication: ReadJSON has no deadline, and only returns   *)
(* by itself when the connection is down.                                  *)
Fairness == /\ WF_vars(Start) /\ WF_vars(Dial \/ DialFails)
            /\ WF_vars(own # up /\ AuthFails)
            /\ WF_vars(Session)
            /\ \A s \in Sender : WF_vars(SendWrites(s) \/ SendFails(s) \/ SendPushes(s))
            /\ WF_vars(FlushDrain) /\ WF_vars(FlushWrite \/ FlushFails)
            /\ WF_vars(Disconnect) /\ WF_vars(Close) /\ WF_vars(Receive)

FairSpec == Spec /\ Fairness

-----------------------------------------------------------------------------
(* Properties.                                                             *)

InSession == {"online", "sending", "returning", "looping", "reading", "replying"}

TypeOK == /\ conn \in 0 .. MaxConns /\ connected \in BOOLEAN /\ done \in BOOLEAN
          /\ buffer \in Seq(Message) /\ Len(buffer) <= Capacity
          /\ run \in InSession \cup {"start", "dialing", "auth", "stopped"}
          /\ own \in 0 .. MaxConns
          /\ buffered \in Seq(Message)
          /\ \A s \in Sender : sender[s] = Resting \/
                sender[s] \in [pc : {"send"}, msg : Message, to : 0 .. MaxConns]
          /\ main \in {"serving", "draining", "flushing", "closing", "closed"}
          /\ flush \in [msgs : Seq(Message), to : 0 .. MaxConns]
          /\ up \in {None, own}
          /\ wire \in Seq(Message) /\ received \in Seq(Message)
          /\ gone \subseteq Message /\ made \in 0 .. MaxMessages

Times(m, s) == Cardinality({i \in 1 .. Len(s) : s[i] = m})

(* Every telemetry message and command result is in exactly one place: in  *)
(* the hands of a goroutine, in the buffer, on the wire, received once, or *)
(* lost.  Through drains, failed writes, messages put back and overflows   *)
(* none is sent twice and none disappears unaccounted for.                 *)
OnePlace ==
    \A m \in 1 .. made :
        Cardinality({s \in Sender : sender[s].pc = "send" /\ sender[s].msg = m})
        + Times(m, buffer) + Times(m, buffered) + Times(m, flush.msgs)
        + Times(m, wire) + Times(m, received) + (IF m \in gone THEN 1 ELSE 0) = 1

(* Between sessions nobody is told that the client is connected, so that   *)
(* telemetry goes to the buffer and not to a dead connection; in a session *)
(* that Close has not ended, c.conn is the connection of the session.      *)
FlagFollowsSession ==
    /\ connected => run \in InSession
    /\ run \in InSession /\ ~done => connected /\ conn = own

(* Run waits for the auth reply of a peer that is there.                   *)
AwaitsReply == run = "auth" /\ own = up

(* After Close the goroutine of the client ends, whatever it was doing: a  *)
(* read that blocks is woken by the close of its connection, and a         *)
(* connection made too late is noticed by the check at the head of the     *)
(* read loop.  The one exception: a connection that was being made when    *)
(* Close was called, to a peer that is live and never answers the          *)
(* authentication, is waited for without end.                              *)
RunStops == done ~> (run = "stopped" \/ []AwaitsReply)
=============================================================================
