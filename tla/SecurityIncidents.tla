-------------------------- MODULE SecurityIncidents --------------------------
(***************************************************************************)
(* The incidents of the security page (web/src/pages/Security.tsx): the    *)
(* list, which changes with every poll and every choice of a filter, the   *)
(* incident that is displayed next to it, its details, its status and the  *)
(* note that the operator writes about it.                                 *)
(*                                                                         *)
(* The displayed incident is the selected one or, while that is not in the *)
(* list, the first.  Two effects follow the list: one moves the selection  *)
(* to what is displayed, one empties the note when the selection moved.    *)
(* Their updates are rendered by a later task (RerenderIncidents).         *)
(***************************************************************************)
EXTENDS Sequences, Naturals, FiniteSets

CONSTANTS Incident, NoIncident,
          MaxListed,  \* bound: incidents in the list
          MaxNotes    \* bound: notes that are sent

ASSUME SecurityIncidentsAssumption ==
    NoIncident \notin Incident /\ MaxListed \in Nat /\ MaxNotes \in Nat

VARIABLES
    incidents,          \* the list, newest first; empty while there are no data
    selectedIncidentId, selectedQueued,  \* rendered, and after queued updates
    incidentNote, noteQueued,  \* the incidents that the text was written about
    fetching, fetched,  \* whose details are asked for, and are in the cache
    notesSent,          \* addIncidentNote: incident, text and state of each request
    statusSent          \* updateIncidentStatus: the incident of the request that runs

incidentsVars == <<incidents, selectedIncidentId, selectedQueued, incidentNote, noteQueued,
                   fetching, fetched, notesSent, statusSent>>
selectionVars == <<selectedIncidentId, selectedQueued, incidentNote, noteQueued>>

Lists == {l \in UNION {[1 .. n -> Incident] : n \in 0 .. MaxListed} :
             \A i, j \in DOMAIN l : l[i] = l[j] => i = j}
Listing(l) == {l[i] : i \in DOMAIN l}

IncidentsInit ==
    /\ incidents = <<>>
    /\ selectedIncidentId = NoIncident /\ selectedQueued = NoIncident
    /\ incidentNote = {} /\ noteQueued = {}
    /\ fetching = {} /\ fetched = {}
    /\ notesSent = <<>> /\ statusSent = NoIncident

(* selectedIncident: find, else the first, else null.                      *)
Displayed(l, id) ==
    IF id \in Listing(l) THEN id ELSE IF l = <<>> THEN NoIncident ELSE l[1]
selectedIncident == Displayed(incidents, selectedIncidentId)

-----------------------------------------------------------------------------
(* A render and its effects.                                               *)

(* The effect on [incidents].                                              *)
Reselect(l, id) == Displayed(l, id)

(* The effect on [selectedIncidentId].                                     *)
ClearWithTheList(note, before, after) == IF after = NoIncident THEN {} ELSE note
ClearNote(note, before, after) == IF before = after THEN note ELSE {}

(* What a render leaves, when id and note are the values it shows.         *)
CommitIncidents(l, id, note) ==
    /\ incidents' = l
    /\ selectedIncidentId' = id /\ incidentNote' = note
    /\ selectedQueued' = IF l = incidents THEN id ELSE Reselect(l, id)
    /\ noteQueued' = ClearNote(note, selectedIncidentId, id)

-----------------------------------------------------------------------------
(* The list: an answer of the query, or another filter with its own data.  *)

IncidentsChange ==
    /\ \E l \in Lists \ {incidents} : CommitIncidents(l, selectedQueued, noteQueued)
    /\ UNCHANGED <<fetching, fetched, notesSent, statusSent>>

RerenderIncidents ==
    /\ <<selectedIncidentId, incidentNote>> # <<selectedQueued, noteQueued>>
    /\ CommitIncidents(incidents, selectedQueued, noteQueued)
    /\ UNCHANGED <<fetching, fetched, notesSent, statusSent>>

setSelectedIncidentId(i) ==
    /\ i \in Listing(incidents)
    /\ CommitIncidents(incidents, i, noteQueued)
    /\ UNCHANGED <<fetching, fetched, notesSent, statusSent>>

-----------------------------------------------------------------------------
(* The note.  The text that is typed is about the incident on the screen,  *)
(* and goes on from the text on the screen.  A key pressed between an      *)
(* effect and the task that renders it (less than a millisecond after the  *)
(* choice of another incident) is left out.                                *)

setIncidentNote ==
    /\ selectedIncident # NoIncident /\ incidentNote = noteQueued
    /\ \E text \in {{}, incidentNote \cup {selectedIncident}} :
         CommitIncidents(incidents, selectedQueued, text)
    /\ UNCHANGED <<fetching, fetched, notesSent, statusSent>>

NotePending == notesSent # <<>> /\ notesSent[Len(notesSent)].state = "pending"

handleAddIncidentNote ==
    /\ selectedIncident # NoIncident /\ incidentNote # {} /\ ~NotePending
    /\ Len(notesSent) < MaxNotes
    /\ notesSent' = Append(notesSent, [incident |-> selectedIncident, text |-> incidentNote,
                                       state |-> "pending"])
    /\ UNCHANGED <<incidents, fetching, fetched, statusSent>> /\ UNCHANGED selectionVars

(* onSuccess of this call empties the field, whatever it holds by then.    *)
NoteStored(n) ==
    /\ notesSent[n].state = "pending"
    /\ notesSent' = [notesSent EXCEPT ![n].state = "success"]
    /\ CommitIncidents(incidents, selectedQueued, {})
    /\ fetching' = fetching \cup {notesSent[n].incident}
    /\ UNCHANGED <<fetched, statusSent>>

NoteFails(n) ==
    /\ notesSent[n].state = "pending"
    /\ notesSent' = [notesSent EXCEPT ![n].state = "error"]
    /\ UNCHANGED <<incidents, fetching, fetched, statusSent>> /\ UNCHANGED selectionVars

-----------------------------------------------------------------------------
(* The status; which of the three is set makes no difference here.         *)

handleIncidentStatus ==
    /\ selectedIncident # NoIncident /\ statusSent = NoIncident
    /\ statusSent' = selectedIncident
    /\ UNCHANGED <<incidents, fetching, fetched, notesSent>> /\ UNCHANGED selectionVars

StatusSettled ==
    /\ statusSent # NoIncident
    /\ statusSent' = NoIncident
    /\ fetching' \in {fetching, fetching \cup {statusSent}}
    /\ UNCHANGED <<incidents, fetched, notesSent>> /\ UNCHANGED selectionVars

-----------------------------------------------------------------------------
(* The details: events, notes, audit entries and block of one incident.    *)
(* An answer goes to the query of the incident that was asked for.         *)

DetailKey == selectedIncident

incidentDetail == {DetailKey} \cap fetched

AskDetails ==
    /\ DetailKey # NoIncident
    /\ fetching' = fetching \cup {DetailKey}
    /\ UNCHANGED <<incidents, fetched, notesSent, statusSent>> /\ UNCHANGED selectionVars

AnswerDetails(i) ==
    /\ i \in fetching
    /\ fetching' = fetching \ {i} /\ fetched' = fetched \cup {i}
    /\ UNCHANGED <<incidents, notesSent, statusSent>> /\ UNCHANGED selectionVars

DetailsFail(i) ==
    /\ i \in fetching
    /\ fetching' = fetching \ {i}
    /\ UNCHANGED <<incidents, fetched, notesSent, statusSent>> /\ UNCHANGED selectionVars

IncidentsNext ==
    \/ IncidentsChange \/ RerenderIncidents
    \/ \E i \in Incident : setSelectedIncidentId(i) \/ AnswerDetails(i) \/ DetailsFail(i)
    \/ setIncidentNote \/ handleAddIncidentNote
    \/ \E n \in DOMAIN notesSent : NoteStored(n) \/ NoteFails(n)
    \/ handleIncidentStatus \/ StatusSettled \/ AskDetails

IncidentsSpec == IncidentsInit /\ [][IncidentsNext]_incidentsVars

-----------------------------------------------------------------------------
(* Properties.                                                             *)

IncidentsTypeOK ==
    /\ incidents \in Lists
    /\ {selectedIncidentId, selectedQueued} \subseteq Incident \cup {NoIncident}
    /\ incidentNote \subseteq Incident /\ noteQueued \subseteq Incident
    /\ fetching \subseteq Incident /\ fetched \subseteq Incident
    /\ notesSent \in Seq([incident : Incident, text : SUBSET Incident,
                          state : {"pending", "success", "error"}])
    /\ statusSent \in Incident \cup {NoIncident}

NoteSettled == selectedIncidentId = selectedQueued /\ incidentNote = noteQueued

(* Once the effects have been rendered, a note that is being written is    *)
(* about the incident on the screen and no other: a list that changes, or  *)
(* the choice of another incident, takes the text with it.                 *)
NoteIsAboutDisplayed ==
    NoteSettled => /\ selectedIncidentId = selectedIncident
                   /\ incidentNote \subseteq {selectedIncident}
=============================================================================
