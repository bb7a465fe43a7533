--------------------------- MODULE CommandResults ---------------------------
(***************************************************************************)
(* Commands that wait for an answer: POST /api/processes/terminate calls   *)
(* send_command(await_result=True) of server/ws/agent.py, which files a    *)
(* future under a command id made of the clock in milliseconds, sends the  *)
(* command to the agent and waits 6 seconds; the receive loop completes    *)
(* the future with the command_result that carries the id.                 *)
(*                                                                         *)
(* The agent runs commands one at a time in the order of arrival, after a  *)
(* rate limit that may reject them, and keeps the results it cannot send   *)
(* for its next connection (module AgentClient).                           *)
(***************************************************************************)
EXTENDS Integers, Sequences, FiniteSets

CONSTANTS Request,   \* HTTP requests
          NoRequest, \* nobody
          MaxMs      \* bound: the clock in milliseconds

ASSUME CommandResultsAssumption == NoRequest \notin Request /\ MaxMs \in Nat \ {0}

VARIABLES
    ms,        \* int(time.time() * 1000)
    session,   \* an agent session is registered
    req,       \* position of each request
    id,        \* its command id
    pending,   \* _pending_command_results: the request whose future an id has
    future,    \* the request whose result completed the future of a request
    wire,      \* requests whose command is on its way to the agent
    running,   \* the request whose command the agent executes
    results    \* results on their way back: the request each one answers

vars == <<ms, session, req, id, pending, future, wire, running, results>>

Ids == 1 .. MaxMs

Init == /\ ms = 1 /\ session = TRUE
        /\ req = [r \in Request |-> "new"]
        /\ id = [r \in Request |-> 0]
        /\ pending = [i \in Ids |-> NoRequest]
        /\ future = [r \in Request |-> NoRequest]
        /\ wire = <<>> /\ running = NoRequest /\ results = <<>>

-----------------------------------------------------------------------------
(* send_command.                                                           *)

IdAhead == ms + 1
NewId == ms

(* No agent: _queue_process_command answers 503, send_command None.        *)
SendWithoutAgent(r) ==
    /\ req[r] = "new" /\ ~session
    /\ req' = [req EXCEPT ![r] = "failed"]
    /\ UNCHANGED <<ms, session, id, pending, future, wire, running, results>>

File(r) == /\ id' = [id EXCEPT ![r] = NewId]
           /\ pending' = [pending EXCEPT ![NewId] = r]

(* The future is filed before the command is sent ...                      *)
Send(r) ==
    /\ req[r] = "new" /\ session
    /\ File(r)
    /\ wire' = Append(wire, r)
    /\ req' = [req EXCEPT ![r] = "waiting"]
    /\ UNCHANGED <<ms, session, future, running, results>>

(* ... and stays filed when send_json raises.                              *)
SendRaises(r) ==
    /\ req[r] = "new" /\ session
    /\ File(r)
    /\ req' = [req EXCEPT ![r] = "raised"]
    /\ UNCHANGED <<ms, session, future, wire, running, results>>

(* wait_for returns the result when the future is done ...                 *)
Return(r) ==
    /\ req[r] = "waiting" /\ future[r] # NoRequest
    /\ req' = [req EXCEPT ![r] = "answered"]
    /\ UNCHANGED <<ms, session, id, pending, future, wire, running, results>>

(* ... and after the timeout takes back whatever is filed under its id.    *)
Forget(r) == pending' = [pending EXCEPT ![id[r]] = NoRequest]
Timeout(r) ==
    /\ req[r] = "waiting" /\ future[r] = NoRequest
    /\ Forget(r)
    /\ req' = [req EXCEPT ![r] = "failed"]
    /\ UNCHANGED <<ms, session, id, future, wire, running, results>>

-----------------------------------------------------------------------------
(* The agent.                                                              *)

(* Over the rate limit: an error result, the command is not executed.      *)
AgentRejects ==
    /\ wire # <<>> /\ running = NoRequest
    /\ results' = Append(results, Head(wire))
    /\ wire' = Tail(wire)
    /\ UNCHANGED <<ms, session, req, id, pending, future, running>>

AgentStarts ==
    /\ wire # <<>> /\ running = NoRequest
    /\ running' = Head(wire)
    /\ wire' = Tail(wire)
    /\ UNCHANGED <<ms, session, req, id, pending, future, results>>

AgentFinishes ==
    /\ running # NoRequest
    /\ results' = Append(results, running)
    /\ running' = NoRequest
    /\ UNCHANGED <<ms, session, req, id, pending, future, wire>>

-----------------------------------------------------------------------------
(* The receive loop, for a command_result.                                 *)

CompleteNewest(i, r) ==
    LET filed == {k \in Ids : pending[k] # NoRequest}
        newest == CHOOSE k \in filed \cup {i} : \A j \in filed \cup {i} : j <= k
        waiter == pending[newest]
    IN /\ pending' = [pending EXCEPT ![newest] = NoRequest]
       /\ future' = IF waiter # NoRequest /\ future[waiter] = NoRequest
                    THEN [future EXCEPT ![waiter] = r] ELSE future
Complete(i, r) ==
    LET waiter == pending[i]
    IN /\ pending' = [pending EXCEPT ![i] = NoRequest]
       /\ future' = IF waiter # NoRequest /\ future[waiter] = NoRequest
                    THEN [future EXCEPT ![waiter] = r] ELSE future

Receive ==
    /\ results # <<>> /\ session
    /\ Complete(id[Head(results)], Head(results))
    /\ results' = Tail(results)
    /\ UNCHANGED <<ms, session, req, id, wire, running>>

(* The connection breaks: of the commands in flight the agent still runs   *)
(* those it has received, of the results in flight those the agent still   *)
(* holds come back later.                                                  *)
SessionEnds ==
    /\ session
    /\ session' = FALSE
    /\ wire' \in {SubSeq(wire, 1, k) : k \in 0 .. Len(wire)}
    /\ results' \in {SubSeq(results, k, Len(results)) : k \in 1 .. Len(results) + 1}
    /\ UNCHANGED <<ms, req, id, pending, future, running>>

SessionBegins ==
    /\ ~session
    /\ session' = TRUE
    /\ UNCHANGED <<ms, req, id, pending, future, wire, running, results>>

Tick == /\ ms < MaxMs
        /\ ms' = ms + 1
        /\ UNCHANGED <<session, req, id, pending, future, wire, running, results>>

Next == \/ \E r \in Request : \/ SendWithoutAgent(r) \/ Send(r) \/ SendRaises(r)
                              \/ Return(r) \/ Timeout(r)
        \/ AgentRejects \/ AgentStarts \/ AgentFinishes
        \/ Receive \/ SessionEnds \/ SessionBegins \/ Tick

Spec == Init /\ [][Next]_vars

-----------------------------------------------------------------------------
(* Properties.                                                             *)

TypeOK == /\ ms \in Nat /\ session \in BOOLEAN
          /\ req \in [Request -> {"new", "waiting", "answered", "failed", "raised"}]
          /\ id \in [Request -> 0 .. MaxMs]
          /\ pending \in [Ids -> Request \cup {NoRequest}]
          /\ future \in [Request -> Request \cup {NoRequest}]
          /\ wire \in Seq(Request) /\ results \in Seq(Request)
          /\ running \in Request \cup {NoRequest}

(* A request is only ever answered with the result of a command that was   *)
(* sent in the same millisecond: results that come after the timeout of    *)
(* their request, or after a reconnection, never reach a newer request.    *)
AnswerFromSameId ==
    \A r \in Request : future[r] # NoRequest => id[future[r]] = id[r]

(* No future is filed for a request that nobody waits for any more, with   *)
(* one exception: send_json raised after the future was filed.  A request  *)
(* that timed out cannot take the answer of a later one, nor leave its     *)
(* entry in the dictionary for ever.                                       *)
EntryHasWaiter ==
    \A i \in Ids : pending[i] # NoRequest =>
        \/ req[pending[i]] = "waiting" /\ future[pending[i]] = NoRequest
        \/ req[pending[i]] = "raised"

(* Both: a late result, a timeout or a collision never joins an answer to  *)
(* a request of another command id, nor a request to nobody.               *)
AnswersFindTheirRequest == AnswerFromSameId /\ EntryHasWaiter
=============================================================================
