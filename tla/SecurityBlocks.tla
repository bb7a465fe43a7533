--------------------------- MODULE SecurityBlocks ----------------------------
(***************************************************************************)
(* Block and unblock on the security page (web/src/pages/Security.tsx,     *)
(* hooks/useSecurity.ts): the form, the button of an incident and the      *)
(* button of each row post to the server, which answers as soon as the     *)
(* statement is queued; success refetches the table at once, an interval   *)
(* does so every ten seconds.                                              *)
(***************************************************************************)
EXTENDS QueryCache, Sequences, Naturals, FiniteSets

CONSTANTS Address,
          Typo,          \* what the form may also hold: it is no address
          MaxBlockPosts, \* bound: requests of one visit of the page
          MaxFailures    \* bound: requests and fetches that fail

ASSUME SecurityBlocksAssumption ==
    Typo \notin Address /\ MaxBlockPosts \in Nat /\ MaxFailures \in Nat

Mutation == {"block", "unblock"}

VARIABLES
    table,         \* the table blocked_ips of the server
    writes,        \* statements that are queued for it
    blockedQuery,  \* the query of the table
    blockIp,       \* the field of the form, "" when it is empty
    blockPosts,    \* requests on their way, each until it is answered
    lastPost,      \* the last request of each mutation
    outcome,       \* isPending, isError and isSuccess of each mutation
    sentPosts, failed  \* what the bounds count

blocksVars == <<table, writes, blockedQuery, blockIp, blockPosts, lastPost,
                outcome, sentPosts, failed>>
formVars == <<blockIp, lastPost, outcome, blockPosts, sentPosts>>

BlocksInit ==
    /\ table \in SUBSET Address /\ writes = <<>>
    /\ blockedQuery = Ask(NewQuery)
    /\ blockIp = "" /\ blockPosts = {}
    /\ lastPost = [m \in Mutation |-> 0] /\ outcome = [m \in Mutation |-> "idle"]
    /\ sentPosts = 0 /\ failed = 0

(* What is rendered.                                                       *)
blocked == blockedQuery.data
BlockedRows == IF blockedQuery.state = "success" THEN blocked ELSE {}
isIpValid == blockIp \in Address
CanSubmit == blockIp # "" /\ isIpValid /\ outcome["block"] # "pending"

-----------------------------------------------------------------------------
(* The operator.                                                           *)

Mutate(m, ip) ==
    /\ sentPosts < MaxBlockPosts
    /\ sentPosts' = sentPosts + 1
    /\ blockPosts' = blockPosts \cup {[n |-> sentPosts + 1, mutation |-> m, ip |-> ip,
                                       queued |-> FALSE]}
    /\ lastPost' = [lastPost EXCEPT ![m] = sentPosts + 1]
    /\ outcome' = [outcome EXCEPT ![m] = "pending"]

EnterAddress(text) ==
    /\ blockIp = ""
    /\ blockIp' = text
    /\ UNCHANGED <<table, writes, blockedQuery, blockPosts, lastPost, outcome,
                   sentPosts, failed>>

(* The fields are emptied whatever becomes of the request.                 *)
handleBlock ==
    /\ CanSubmit
    /\ Mutate("block", blockIp)
    /\ blockIp' = ""
    /\ UNCHANGED <<table, writes, blockedQuery, failed>>

(* The button of an incident is there while its address is not listed.     *)
BlockSource(ip) ==
    /\ ip \notin blocked
    /\ Mutate("block", ip)
    /\ UNCHANGED <<table, writes, blockedQuery, blockIp, failed>>

Unblock(ip) ==
    /\ ip \in BlockedRows
    /\ Mutate("unblock", ip)
    /\ UNCHANGED <<table, writes, blockedQuery, blockIp, failed>>

-----------------------------------------------------------------------------
(* The server.                                                             *)

(* The statement is queued ...                                             *)
HandlePost(p) ==
    /\ p \in blockPosts /\ ~p.queued
    /\ writes' = Append(writes, [mutation |-> p.mutation, ip |-> p.ip])
    /\ blockPosts' = (blockPosts \ {p}) \cup {[p EXCEPT !.queued = TRUE]}
    /\ UNCHANGED <<table, blockedQuery, blockIp, lastPost, outcome, sentPosts, failed>>

(* ... and committed by the writer.                                        *)
CommitWrite ==
    /\ writes # <<>>
    /\ table' = IF Head(writes).mutation = "block" THEN table \cup {Head(writes).ip}
                                                   ELSE table \ {Head(writes).ip}
    /\ writes' = Tail(writes)
    /\ UNCHANGED <<blockedQuery, failed>> /\ UNCHANGED formVars

AnswerBlocked ==
    /\ blockedQuery.fetch = "asked"
    /\ blockedQuery' = Answer(blockedQuery, table)
    /\ UNCHANGED <<table, writes, failed>> /\ UNCHANGED formVars

-----------------------------------------------------------------------------
(* Answers.                                                                *)

SettlePost(p, result) ==
    /\ blockPosts' = blockPosts \ {p}
    /\ outcome' = IF lastPost[p.mutation] = p.n
                  THEN [outcome EXCEPT ![p.mutation] = result] ELSE outcome
    /\ UNCHANGED <<blockIp, lastPost, sentPosts>>

(* invalidateSecurityQueries with includeBlocked.                          *)
PostAnswered(p) ==
    /\ p \in blockPosts /\ p.queued
    /\ SettlePost(p, "success")
    /\ blockedQuery' = Invalidate(blockedQuery)
    /\ UNCHANGED <<table, writes, failed>>

(* Refused or lost: no agent, a conflict, a connection that breaks.        *)
PostLost(p) ==
    /\ p \in blockPosts /\ failed < MaxFailures
    /\ failed' = failed + 1
    /\ SettlePost(p, "error")
    /\ UNCHANGED <<table, writes, blockedQuery>>

(* refetchInterval.                                                        *)
PollUntilThere ==
    /\ blockedQuery.fetch = "idle" /\ blockedQuery.state # "success"
    /\ blockedQuery' = Ask(blockedQuery)
    /\ UNCHANGED <<table, writes, failed>> /\ UNCHANGED formVars
PollBlocked ==
    /\ blockedQuery.fetch = "idle"
    /\ blockedQuery' = Ask(blockedQuery)
    /\ UNCHANGED <<table, writes, failed>> /\ UNCHANGED formVars

BlockedArrive ==
    /\ blockedQuery.fetch = "answered"
    /\ blockedQuery' = Receive(blockedQuery)
    /\ UNCHANGED <<table, writes, failed>> /\ UNCHANGED formVars

BlockedFail ==
    /\ blockedQuery.fetch # "idle" /\ failed < MaxFailures
    /\ failed' = failed + 1
    /\ blockedQuery' = Fail(blockedQuery)
    /\ UNCHANGED <<table, writes>> /\ UNCHANGED formVars

BlocksNext ==
    \/ \E text \in Address \cup {Typo} : EnterAddress(text)
    \/ handleBlock
    \/ \E ip \in Address : BlockSource(ip) \/ Unblock(ip)
    \/ \E p \in blockPosts : HandlePost(p) \/ PostAnswered(p) \/ PostLost(p)
    \/ CommitWrite \/ AnswerBlocked \/ PollBlocked
    \/ BlockedArrive \/ BlockedFail

-----------------------------------------------------------------------------
(* Properties.                                                             *)

BlocksTypeOK ==
    /\ table \subseteq Address
    /\ writes \in Seq([mutation : Mutation, ip : Address])
    /\ blockedQuery \in QueryType(SUBSET Address)
    /\ blockIp \in Address \cup {"", Typo}
    /\ blockPosts \subseteq [n : 1 .. sentPosts, mutation : Mutation, ip : Address,
                             queued : BOOLEAN]
    /\ lastPost \in [Mutation -> 0 .. sentPosts]
    /\ outcome \in [Mutation -> {"idle", "pending", "success", "error"}]

(* When the operator and the failures have come to rest, the page comes to *)
(* show the table of the server for good: the refetch after a success may  *)
(* come before the commit, and may fail, but the interval repeats it.      *)
PageIsRight == blockedQuery.state = "success" /\ blocked = table /\ writes = <<>>
PageFollowsTable == <>[]PageIsRight
=============================================================================
