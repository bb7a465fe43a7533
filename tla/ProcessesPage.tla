---------------------------- MODULE ProcessesPage ----------------------------
(***************************************************************************)
(* The page of the processes (web/src/pages/Processes.tsx): a table that   *)
(* is fetched every five seconds, sorted, searched and paginated, and the  *)
(* confirmation of a termination, which posts the number of the process    *)
(* that was chosen.                                                        *)
(*                                                                         *)
(* An event is handled with what the last commit rendered.  Updates that   *)
(* effects queue, and the notices of the mutations, are rendered by a task *)
(* of their own (Rerender), which other events may overtake.               *)
(***************************************************************************)
EXTENDS Paging, Sequences

CONSTANTS Row,           \* entries of the table: a process as it was reported
          NoRow,         \* null
          PidOf,         \* the process number of each row
          ProtectedRow,  \* rows for which isProtectedProcess holds
          SortKey,
          RankBy,        \* the place of each row in the order of each key
          SearchTerm,
          Matching,      \* the rows that each term finds
          ProcsPerPage,
          MaxPosts       \* bound: requests of one visit of the page

ASSUME ProcessesPageAssumption ==
    /\ NoRow \notin Row /\ IsFiniteSet(Row)
    /\ RankBy \in [SortKey -> [Row -> Int]]
    /\ Matching \in [SearchTerm -> SUBSET Row]
    /\ ProcsPerPage \in Nat \ {0} /\ MaxPosts \in Nat

ActionKind == {"terminate", "force-kill"}
PostState == {"pending", "success", "error"}

VARIABLES
    procs,          \* data of the query
    procsQuery,     \* "loading", "error" or "ok"
    sortKey, sortDir, search,
    procPage,       \* the page that is rendered
    procPageQueued, \* its value after the updates that are queued
    selectedProcess, selectedAction,
    actionNotice,   \* the action of the notice, or ""
    mutation,       \* the request that each mutation observes, 0 for none
    posts,          \* the requests, in the order they were sent
    busy            \* isPending of a mutation, as it was rendered

processesVars == <<procs, procsQuery, sortKey, sortDir, search, procPage, procPageQueued,
                   selectedProcess, selectedAction, actionNotice, mutation, posts, busy>>
choiceVars == <<selectedProcess, selectedAction, actionNotice, mutation, posts>>
listVars == <<procs, procsQuery, sortKey, sortDir, search>>

Snapshots == {s \in SUBSET Row : \A p, q \in s : PidOf[p] = PidOf[q] => p = q}

ProcessesInit ==
    /\ procs \in Snapshots      \* an earlier visit may have left data in the cache
    /\ procsQuery = IF procs = {} THEN "loading" ELSE "ok"
    /\ sortKey \in SortKey /\ sortDir = "desc" /\ search \in SearchTerm
    /\ Matching[search] = Row   \* the empty search
    /\ procPage = 1 /\ procPageQueued = 1
    /\ selectedProcess = NoRow /\ selectedAction = "terminate" /\ actionNotice = ""
    /\ mutation = [a \in ActionKind |-> 0] /\ posts = <<>> /\ busy = FALSE

-----------------------------------------------------------------------------
(* What is rendered.                                                       *)

Before(p, q) == IF sortDir = "asc" THEN RankBy[sortKey][p] < RankBy[sortKey][q]
                                   ELSE RankBy[sortKey][p] > RankBy[sortKey][q]
Listed == procs \cap Matching[search]
Place == [p \in Listed |-> Cardinality({q \in Listed : Before(q, p)})]
TotalPages == PageCount(Cardinality(Listed), ProcsPerPage)
PagedProcesses == PageSlice(Listed, Place, procPage, ProcsPerPage)

(* The table gives way to the loading and the error block.                 *)
isProtectedProcess(p) == p \in ProtectedRow
RowsWithButtons ==
    {p \in PagedProcesses : procsQuery = "ok" /\ ~isProtectedProcess(p)}

(* The card below the table, with its title, text and buttons.             *)
Confirmation == selectedProcess # NoRow

Pending == \E a \in ActionKind : mutation[a] # 0 /\ posts[mutation[a]].state = "pending"

(* The block below the confirmation: error or success of the mutation of   *)
(* the chosen action.                                                      *)
Outcome == IF ~Confirmation \/ mutation[selectedAction] = 0 THEN 0
           ELSE mutation[selectedAction]

(* A render shows what was queued and the state of the mutations, and its  *)
(* effects queue the next updates.                                         *)
Render(toFirst) ==
    /\ procPage' = procPageQueued
    /\ procPageQueued' = Effects(procPageQueued, toFirst, TotalPages, TotalPages')
    /\ busy' = Pending'

-----------------------------------------------------------------------------
(* The query.                                                              *)

ProcessesFetched ==
    /\ procs' \in Snapshots /\ procsQuery' = "ok"
    /\ UNCHANGED <<sortKey, sortDir, search>> /\ UNCHANGED choiceVars
    /\ Render(FALSE)

(* The last data stay, but are not shown.                                  *)
ProcessesFetchFails ==
    /\ procsQuery # "error"
    /\ procsQuery' = "error"
    /\ UNCHANGED <<procs, sortKey, sortDir, search>> /\ UNCHANGED choiceVars
    /\ Render(FALSE)

-----------------------------------------------------------------------------
(* The table.                                                              *)

(* A second click on a header turns the order round.                       *)
handleSort(k) ==
    /\ sortKey' = k
    /\ sortDir' = IF k = sortKey /\ sortDir = "desc" THEN "asc" ELSE "desc"

SortHeader(k) ==
    /\ handleSort(k)
    /\ UNCHANGED <<procs, procsQuery, search>> /\ UNCHANGED choiceVars
    /\ Render(TRUE)

SearchFor(term) ==
    /\ term # search
    /\ search' = term
    /\ UNCHANGED <<procs, procsQuery, sortKey, sortDir>> /\ UNCHANGED choiceVars
    /\ Render(TRUE)

HasPages == procsQuery = "ok" /\ Cardinality(Listed) > ProcsPerPage
TurnTo(n) == /\ procPage' = n /\ procPageQueued' = n
             /\ busy' = Pending
             /\ UNCHANGED listVars /\ UNCHANGED choiceVars
PreviousPage == HasPages /\ procPage # 1 /\ TurnTo(AtLeast(1, procPageQueued - 1))
NextPage == HasPages /\ procPage # TotalPages /\ TurnTo(AtMost(TotalPages, procPageQueued + 1))

-----------------------------------------------------------------------------
(* The confirmation.                                                       *)

ResetTerminate == mutation' = [mutation EXCEPT !["terminate"] = 0]
ResetMutations == mutation' = [a \in ActionKind |-> 0]

(* The buttons of a row.                                                   *)
Choose(a, p) ==
    /\ p \in RowsWithButtons
    /\ ResetMutations
    /\ actionNotice' = "" /\ selectedAction' = a /\ selectedProcess' = p
    /\ UNCHANGED posts /\ UNCHANGED listVars
    /\ Render(FALSE)

(* The button is disabled as soon as the pending request is rendered.      *)
Confirm ==
    /\ Confirmation /\ ~busy /\ Len(posts) < MaxPosts
    /\ posts' = Append(posts, [action |-> selectedAction, pid |-> PidOf[selectedProcess],
                               state |-> "pending"])
    /\ mutation' = [mutation EXCEPT ![selectedAction] = Len(posts) + 1]
    /\ UNCHANGED <<selectedProcess, selectedAction, actionNotice, procPage, procPageQueued, busy>>
    /\ UNCHANGED listVars

Cancel ==
    /\ Confirmation
    /\ selectedProcess' = NoRow
    /\ ResetMutations
    /\ UNCHANGED <<selectedAction, actionNotice, posts>> /\ UNCHANGED listVars
    /\ Render(FALSE)

(* onSuccess belongs to the mutation and runs for every request, whether a *)
(* reset has detached it or not: it closes the confirmation that is open.  *)
PostSucceeds(n) ==
    /\ posts[n].state = "pending"
    /\ posts' = [posts EXCEPT ![n].state = "success"]
    /\ actionNotice' = posts[n].action
    /\ selectedProcess' = NoRow
    /\ UNCHANGED <<selectedAction, mutation>> /\ UNCHANGED listVars
    /\ Render(FALSE)

PostFails(n) ==
    /\ posts[n].state = "pending"
    /\ posts' = [posts EXCEPT ![n].state = "error"]
    /\ UNCHANGED <<selectedProcess, selectedAction, actionNotice, mutation>>
    /\ UNCHANGED listVars
    /\ Render(FALSE)

RerenderProcesses ==
    /\ procPage # procPageQueued \/ busy # Pending
    /\ procPage' = procPageQueued /\ busy' = Pending
    /\ UNCHANGED procPageQueued /\ UNCHANGED listVars /\ UNCHANGED choiceVars

ProcessesNext ==
    \/ ProcessesFetched \/ ProcessesFetchFails
    \/ \E k \in SortKey : SortHeader(k)
    \/ \E term \in SearchTerm : SearchFor(term)
    \/ PreviousPage \/ NextPage
    \/ \E a \in ActionKind, p \in Row : Choose(a, p)
    \/ Confirm \/ Cancel
    \/ \E n \in DOMAIN posts : PostSucceeds(n) \/ PostFails(n)
    \/ RerenderProcesses

ProcessesSpec == ProcessesInit /\ [][ProcessesNext]_processesVars

-----------------------------------------------------------------------------
(* Properties.                                                             *)

ProcessesTypeOK ==
    /\ procs \in Snapshots /\ procsQuery \in {"loading", "error", "ok"}
    /\ sortKey \in SortKey /\ sortDir \in {"asc", "desc"} /\ search \in SearchTerm
    /\ procPage \in Nat \ {0} /\ procPageQueued \in Nat \ {0}
    /\ selectedProcess \in Row \cup {NoRow} /\ selectedAction \in ActionKind
    /\ actionNotice \in ActionKind \cup {""}
    /\ posts \in Seq([action : ActionKind, pid : {PidOf[p] : p \in Row}, state : PostState])
    /\ mutation \in [ActionKind -> 0 .. Len(posts)]
    /\ busy \in BOOLEAN

(* What the confirmation says of a request, that it runs, failed or was    *)
(* accepted, it says of a request for the process and the action that it   *)
(* shows, although requests outlive the confirmation they were sent from   *)
(* and complete after another process was chosen.                          *)
OutcomeIsOfTheChoice ==
    Outcome # 0 => /\ posts[Outcome].pid = PidOf[selectedProcess]
                   /\ posts[Outcome].action = selectedAction

(* Once its updates have been rendered the table shows a page that exists: *)
(* a list that shrinks between two clicks, by a poll or by a search, never *)
(* leaves the operator on a page without rows.                             *)
ProcessPageExists == procPage = procPageQueued => procPage \in 1 .. TotalPages
=============================================================================
