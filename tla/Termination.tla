---------------------------- MODULE Termination ----------------------------
(***************************************************************************)
(* What the termination of a process promises to who asks for it: a        *)
(* command that is asked for is carried out at most once, hits one process *)
(* at most and only before it has its outcome, and succeeds only if it has *)
(* hit one; its outcome answers one request at most, and a request has one *)
(* answer at most.                                                         *)
(*                                                                         *)
(* Whether and when a command arrives, what the host does meanwhile and    *)
(* whether the answer comes back is left open.                             *)
(***************************************************************************)
CONSTANTS Request, NoRequest, Process

VARIABLES asked,    \* requests whose command may be under way
          hit,      \* the processes that each command has signalled
          outcome,  \* what the agent says of each command
          answer    \* the request whose outcome a request was answered with

vars == <<asked, hit, outcome, answer>>

Init == /\ asked = {}
        /\ hit = [r \in Request |-> {}]
        /\ outcome = [r \in Request |-> "none"]
        /\ answer = [r \in Request |-> NoRequest]

Ask(r) == /\ r \notin asked
          /\ asked' = asked \cup {r}
          /\ UNCHANGED <<hit, outcome, answer>>

Hit(r, p) == /\ r \in asked /\ outcome[r] = "none"
             /\ hit[r] = {}
             /\ hit' = [hit EXCEPT ![r] = {p}]
             /\ UNCHANGED <<asked, outcome, answer>>

End(r, result) == /\ r \in asked /\ outcome[r] = "none"
                  /\ result = "success" => hit[r] # {}
                  /\ outcome' = [outcome EXCEPT ![r] = result]
                  /\ UNCHANGED <<asked, hit, answer>>

Answer(waiter, r) == /\ waiter \in asked /\ answer[waiter] = NoRequest
                     /\ outcome[r] # "none" /\ \A w \in Request : answer[w] # r
                     /\ answer' = [answer EXCEPT ![waiter] = r]
                     /\ UNCHANGED <<asked, hit, outcome>>

Next == \E r \in Request :
            \/ Ask(r)
            \/ \E p \in Process : Hit(r, p)
            \/ \E result \in {"success", "error"} : End(r, result)
            \/ \E waiter \in Request : Answer(waiter, r)

Spec == Init /\ [][Next]_vars
=============================================================================
