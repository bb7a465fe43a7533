----------------------------- MODULE QueryCache ------------------------------
(***************************************************************************)
(* What the web pages use of the query library (TanStack Query, see        *)
(* web/src/app/App.tsx and web/src/hooks): the state of one query.  There  *)
(* is one query for each key, and an answer goes to the query that asked,  *)
(* whatever key the page shows by then.  One fetch of a query runs at a    *)
(* time; an invalidation abandons it for a new one, unless the query has   *)
(* no data yet: then the first fetch goes on and nothing else is asked.    *)
(* Data outlive errors.                                                    *)
(***************************************************************************)
NoData == {}

NewQuery == [state |-> "pending", known |-> FALSE, data |-> NoData,
             fetch |-> "idle", reply |-> NoData]

Ask(q) == [q EXCEPT !.fetch = "asked", !.reply = NoData]
Invalidate(q) == IF q.fetch # "idle" /\ ~q.known THEN q ELSE Ask(q)
Answer(q, data) == [q EXCEPT !.fetch = "answered", !.reply = data]
Receive(q) == [state |-> "success", known |-> TRUE, data |-> q.reply,
               fetch |-> "idle", reply |-> NoData]
Fail(q) == [q EXCEPT !.state = "error", !.fetch = "idle", !.reply = NoData]

QueryType(data) == [state : {"pending", "success", "error"}, known : BOOLEAN, data : data,
                    fetch : {"idle", "asked", "answered"}, reply : data]
=============================================================================
