-------------------------------- MODULE WebUi --------------------------------
(***************************************************************************)
(* The web interface (web/src): the shell with its live connection, and    *)
(* the pages.  Apart from the query cache, where each uses keys of its     *)
(* own, the parts share nothing that one of them writes and another reads, *)
(* except the messages of the connection, which a page takes as they come. *)
(* So a behaviour of this module follows one part, and the others stay as  *)
(* they were opened.                                                       *)
(***************************************************************************)
EXTENDS ProcessesPage, LiveSocket, SecurityEvents, SecurityBlocks, SecurityIncidents,
        SecurityAudit, SettingsPage, LogView, Dashboard

VARIABLE part  \* the part that is followed

webVars == <<part, processesVars, liveVars, eventsVars, blocksVars, incidentsVars,
             auditVars, settingsVars, logsVars, dashboardVars>>

Part == {"processes", "live", "events", "blocks", "incidents", "audit", "settings",
         "logs", "dashboard"}

(* A part that is not followed has one initial state.                      *)
WebInit ==
    /\ part \in Part
    /\ ProcessesInit /\ (part # "processes" => procs = {})
    /\ LiveInit /\ (part # "live" => ~development)
    /\ EventsInit /\ (part # "events" => recorded = {})
    /\ BlocksInit /\ (part # "blocks" => table = {})
    /\ IncidentsInit
    /\ AuditInit /\ (part # "audit" => audited = {})
    /\ SettingsInit /\ (part # "settings" => card = "mode" /\ row = EmptyRow)
    /\ LogsInit /\ (part # "logs" => location = NoLogFilter)
    /\ DashboardInit

Only(p) ==
    /\ part = p /\ part' = p
    /\ p # "processes" => UNCHANGED processesVars
    /\ p # "live" => UNCHANGED liveVars
    /\ p # "events" => UNCHANGED eventsVars
    /\ p # "blocks" => UNCHANGED blocksVars
    /\ p # "incidents" => UNCHANGED incidentsVars
    /\ p # "audit" => UNCHANGED auditVars
    /\ p # "settings" => UNCHANGED settingsVars
    /\ p # "logs" => UNCHANGED logsVars
    /\ p # "dashboard" => UNCHANGED dashboardVars

WebNext ==
    \/ Only("processes") /\ ProcessesNext
    \/ Only("live") /\ LiveNext
    \/ Only("events") /\ EventsNext
    \/ Only("blocks") /\ BlocksNext
    \/ Only("incidents") /\ IncidentsNext
    \/ Only("audit") /\ AuditNext
    \/ Only("settings") /\ SettingsNext
    \/ Only("logs") /\ LogsNext
    \/ Only("dashboard") /\ DashboardNext

(* A timer that is due fires, the events of a socket and the answers of    *)
(* the server are delivered, the interval of a query goes on, the writer   *)
(* commits, and React renders what is queued.                              *)
WebFairness ==
    /\ WF_liveVars(part = "live" /\ ReconnectIsDue)
    /\ \A s \in Socket : WF_liveVars(part = "live" /\ onopen(s))
    /\ \A s \in Socket : WF_liveVars(part = "live" /\ onclose(s))
    /\ WF_liveVars(part = "live" /\ HealthFetched)
    /\ WF_blocksVars(part = "blocks" /\ \E p \in blockPosts : HandlePost(p))
    /\ WF_blocksVars(part = "blocks" /\ \E p \in blockPosts : PostAnswered(p))
    /\ WF_blocksVars(part = "blocks" /\ CommitWrite)
    /\ WF_blocksVars(part = "blocks" /\ AnswerBlocked)
    /\ WF_blocksVars(part = "blocks" /\ PollBlocked)
    /\ WF_blocksVars(part = "blocks" /\ BlockedArrive)
    /\ WF_logsVars(part = "logs" /\ RunEffects)
    /\ WF_logsVars(part = "logs" /\ RenderQueued)
    /\ WF_logsVars(part = "logs" /\ RenderLocation)
    /\ WF_dashboardVars(part = "dashboard" /\ \E s \in Source : PanelGoesOn(s))

WebSpec == WebInit /\ [][WebNext]_webVars /\ WebFairness

-----------------------------------------------------------------------------
(* Properties of the parts, beside those of their modules.                 *)

WebTypeOK ==
    /\ part \in Part
    /\ ProcessesTypeOK /\ LiveTypeOK /\ EventsTypeOK /\ BlocksTypeOK
    /\ IncidentsTypeOK /\ AuditTypeOK /\ SettingsTypeOK /\ LogsTypeOK /\ DashboardTypeOK

(* A list that shrinks between two clicks, by a poll, a search or a        *)
(* filter, never leaves the operator on a page that does not exist.        *)
PagesExist == ProcessPageExists /\ EventPageExists

(* The tables that show a choice of the operator's, a type of events or a  *)
(* trace of the response, show nothing else (Security.tsx).                *)
TablesMatchChoice == EventsMatchFilter /\ TrailMatchesChoice

(* After the connections have ceased to break, the header comes to show    *)
(* the connection and the agent as they are (ws.ts, useSystemStatus.ts).   *)
HeaderComesToFollow == <>[](part = "live" => HeaderIsRight)

(* After the last record and the last failure every card of the dashboard  *)
(* comes to show the newest and no error, and after the operator's last    *)
(* request the table of the blocked addresses is the server's              *)
(* (Dashboard.tsx, useSecurity.ts).                                        *)
TablesComeToFollow ==
    <>[]((part = "blocks" => PageIsRight) /\ (part = "dashboard" => DashboardIsRight))

(* The filters of the logs and the address bar come to rest: the effects   *)
(* that copy each to the other do not answer each other for ever           *)
(* (Logs.tsx).                                                             *)
LogsComeToRest == <>[](part = "logs" => LogsSettled)
=============================================================================
