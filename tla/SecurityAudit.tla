--------------------------- MODULE SecurityAudit -----------------------------
(***************************************************************************)
(* The response trail of the security page (web/src/pages/Security.tsx):   *)
(* the entries of the audit log, of one trace after a click on an event or *)
(* on an incident, else the latest.  The card stays where it is when       *)
(* another filter or another incident is chosen.                           *)
(***************************************************************************)
EXTENDS QueryCache

CONSTANTS Entry,      \* entries of the audit log
          Trace,
          AnyTrace,   \* ''
          TraceOf     \* the trace of each entry

ASSUME SecurityAuditAssumption == AnyTrace \notin Trace /\ TraceOf \in [Entry -> Trace]

VARIABLES
    audited,         \* the table response_audit of the server
    selectedTraceId,
    auditQueries     \* the query of each trace

auditVars == <<audited, selectedTraceId, auditQueries>>

AuditInit ==
    /\ audited \in SUBSET Entry
    /\ selectedTraceId = AnyTrace
    /\ auditQueries = [t \in Trace \cup {AnyTrace} |-> NewQuery]

OfTrace(t) == {e \in Entry : t = AnyTrace \/ TraceOf[e] = t}

(* The query is known by its key.                                          *)
AuditKey == selectedTraceId
auditEntries ==
    IF auditQueries[AuditKey].state = "success" THEN auditQueries[AuditKey].data ELSE {}

-----------------------------------------------------------------------------
AppendAudit(e) ==
    /\ e \notin audited
    /\ audited' = audited \cup {e}
    /\ UNCHANGED <<selectedTraceId, auditQueries>>

AnswerAudit(t) ==
    /\ auditQueries[t].fetch = "asked"
    /\ auditQueries' = [auditQueries EXCEPT ![t] = Answer(@, audited \cap OfTrace(t))]
    /\ UNCHANGED <<audited, selectedTraceId>>

(* When the page turns to a trace, and by the interval.                    *)
AskAudit ==
    /\ auditQueries[AuditKey].fetch = "idle"
    /\ auditQueries' = [auditQueries EXCEPT ![AuditKey] = Ask(@)]
    /\ UNCHANGED <<audited, selectedTraceId>>

AuditArrives(t) ==
    /\ auditQueries[t].fetch = "answered"
    /\ auditQueries' = [auditQueries EXCEPT ![t] = Receive(@)]
    /\ UNCHANGED <<audited, selectedTraceId>>

AuditFails(t) ==
    /\ auditQueries[t].fetch # "idle"
    /\ auditQueries' = [auditQueries EXCEPT ![t] = Fail(@)]
    /\ UNCHANGED <<audited, selectedTraceId>>

-----------------------------------------------------------------------------
(* The operator.                                                           *)

setSelectedTraceId(t) ==
    /\ selectedTraceId' = t
    /\ UNCHANGED <<audited, auditQueries>>

(* The button of an event of the table ...                                 *)
ShowTrailOfEvent == \E e \in audited : setSelectedTraceId(TraceOf[e])

(* ... and that of the displayed incident, for its latest trace.           *)
ShowTrailOfIncident == \E t \in Trace : setSelectedTraceId(t)

ResetTrail == selectedTraceId # AnyTrace /\ setSelectedTraceId(AnyTrace)

AuditNext ==
    \/ \E e \in Entry : AppendAudit(e)
    \/ AskAudit
    \/ \E t \in Trace \cup {AnyTrace} : AnswerAudit(t) \/ AuditArrives(t) \/ AuditFails(t)
    \/ ShowTrailOfEvent \/ ShowTrailOfIncident \/ ResetTrail

AuditSpec == AuditInit /\ [][AuditNext]_auditVars

-----------------------------------------------------------------------------
(* Properties.                                                             *)

AuditTypeOK ==
    /\ audited \subseteq Entry /\ selectedTraceId \in Trace \cup {AnyTrace}
    /\ auditQueries \in [Trace \cup {AnyTrace} -> QueryType(SUBSET Entry)]

(* The entries under the heading of a trace are of that trace, however     *)
(* late the answer for another one comes.                                  *)
TrailMatchesChoice == auditEntries \subseteq OfTrace(selectedTraceId)
=============================================================================
