------------------------------ MODULE Dashboard ------------------------------
(***************************************************************************)
(* The dashboard (web/src/pages/Dashboard.tsx, hooks/useMetrics.ts): four  *)
(* queries, each with its own interval, that fail and recover one by one.  *)
(* The newest sample and the history of the samples are two of them, so    *)
(* the page may hold two states of one table.  Records only come newer,    *)
(* and an answer is known here by the newest record that it holds; the     *)
(* history leaves a record out once it is more than an hour old.           *)
(***************************************************************************)
EXTENDS QueryCache, Naturals

CONSTANTS MaxRecords,  \* bound: records of all tables
          MaxOutages   \* bound: fetches that fail

ASSUME DashboardAssumption == MaxRecords \in Nat /\ MaxOutages \in Nat

Source == {"metrics", "history", "services", "events"}
Recorded == {"samples", "services", "events"}
TableOf(s) == IF s \in {"metrics", "history"} THEN "samples" ELSE s

VARIABLES
    newest,  \* the newest record of each table of the server, 0 for none
    aged,    \* the newest sample is older than the hour of the history
    panels,  \* the query of each source
    outages  \* what the bound counts

dashboardVars == <<newest, aged, panels, outages>>

DashboardInit ==
    /\ newest = [t \in Recorded |-> 0]
    /\ aged = FALSE
    /\ panels = [s \in Source |-> Ask(NewQuery)]
    /\ outages = 0

-----------------------------------------------------------------------------
(* What is rendered.  The last data of a query that fails stay below its   *)
(* error line.                                                             *)

Failed(s) == panels[s].state = "error"
hasCriticalIssue == \E s \in Source : Failed(s)

(* The lists say that there is nothing, while they are loaded too.         *)
Shown(s) == [error |-> Failed(s), rows |-> panels[s].data,
             nothing |-> panels[s].data = NoData /\ ~Failed(s)]
ServicesCard == Shown("services")
EventsCard == Shown("events")
Charts == Shown("history").rows
MetricCards == IF Shown("metrics").rows = NoData THEN {0} ELSE Shown("metrics").rows

lastMetricsTimestamp ==
    IF panels["metrics"].data # NoData THEN panels["metrics"].data ELSE panels["history"].data

SystemStateCard == [healthy |-> ~hasCriticalIssue, lastUpdate |-> lastMetricsTimestamp]

-----------------------------------------------------------------------------
(* The server.                                                             *)

AddRecord(t) ==
    /\ newest["samples"] + newest["services"] + newest["events"] < MaxRecords
    /\ newest' = [newest EXCEPT ![t] = @ + 1]
    /\ aged' = (aged /\ t # "samples")
    /\ UNCHANGED <<panels, outages>>

(* No sample comes for an hour.                                            *)
HourPasses ==
    /\ newest["samples"] # 0 /\ ~aged
    /\ aged' = TRUE
    /\ UNCHANGED <<newest, panels, outages>>

(* Of the samples, the history gives those of the last hour.               *)
Held(s) == LET n == newest[TableOf(s)]
           IN  IF n = 0 \/ (s = "history" /\ aged) THEN NoData ELSE {n}

AnswerPanel(s) ==
    /\ panels[s].fetch = "asked"
    /\ panels' = [panels EXCEPT ![s] = Answer(@, Held(s))]
    /\ UNCHANGED <<newest, aged, outages>>

-----------------------------------------------------------------------------
(* The queries.                                                            *)

(* The interval goes on after an error; a fetch that could bring nothing   *)
(* new to a query without an error is left out.                            *)
PollPanel(s) ==
    /\ panels[s].fetch = "idle"
    /\ Failed(s) \/ panels[s].data # Held(s)
    /\ panels' = [panels EXCEPT ![s] = Ask(@)]
    /\ UNCHANGED <<newest, aged, outages>>

PanelArrives(s) ==
    /\ panels[s].fetch = "answered"
    /\ panels' = [panels EXCEPT ![s] = Receive(@)]
    /\ UNCHANGED <<newest, aged, outages>>

PanelFails(s) ==
    /\ panels[s].fetch # "idle" /\ outages < MaxOutages
    /\ panels' = [panels EXCEPT ![s] = Fail(@)]
    /\ outages' = outages + 1
    /\ UNCHANGED <<newest, aged>>

PanelGoesOn(s) == AnswerPanel(s) \/ PollPanel(s) \/ PanelArrives(s)

DashboardNext ==
    \/ \E t \in Recorded : AddRecord(t)
    \/ HourPasses
    \/ \E s \in Source : PanelGoesOn(s) \/ PanelFails(s)

DashboardSpec == DashboardInit /\ [][DashboardNext]_dashboardVars

-----------------------------------------------------------------------------
(* Properties.                                                             *)

DashboardTypeOK ==
    /\ newest \in [Recorded -> 0 .. MaxRecords] /\ aged \in BOOLEAN
    /\ outages \in 0 .. MaxOutages
    /\ panels \in [Source -> QueryType({NoData} \cup {{n} : n \in 1 .. MaxRecords})]

(* Every card shows the newest records and no error, the time of the last  *)
(* update is that of the newest sample, and the system is called healthy.  *)
DashboardIsRight ==
    /\ SystemStateCard = [healthy |-> TRUE, lastUpdate |-> Held("metrics")]
    /\ ServicesCard.rows = Held("services") /\ EventsCard.rows = Held("events")
    /\ Charts = Held("history")
    /\ MetricCards = {newest["samples"]}
=============================================================================
