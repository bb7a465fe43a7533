----------------------------- MODULE WebUiProofs ------------------------------
(***************************************************************************)
(* What the pages of the web interface show is of what the operator chose, *)
(* for any number of rows, events, incidents, requests and renders.        *)
(***************************************************************************)
EXTENDS WebUi, SequenceTheorems, FiniteSetTheorems, TLAPS

(* A step of the interface is a step of each part, or leaves it alone.     *)
LEMMA PartsStep ==
    [WebNext]_webVars =>
      /\ [ProcessesNext]_processesVars /\ [LiveNext]_liveVars
      /\ [EventsNext]_eventsVars /\ [BlocksNext]_blocksVars
      /\ [IncidentsNext]_incidentsVars /\ [AuditNext]_auditVars
      /\ [SettingsNext]_settingsVars /\ [LogsNext]_logsVars
      /\ [DashboardNext]_dashboardVars /\ (part \in Part => part' \in Part)
  BY DEF WebNext, Only, Part, webVars

-----------------------------------------------------------------------------
(* The confirmation of the processes page.  A choice forgets the requests  *)
(* of the one before, so whatever a mutation observes was sent from the    *)
(* confirmation that is open.                                              *)

Post == [action : ActionKind, pid : {PidOf[p] : p \in Row}, state : PostState]

ConfirmationInv ==
    /\ posts \in Seq(Post)
    /\ mutation \in [ActionKind -> 0 .. Len(posts)]
    /\ selectedProcess \in Row \cup {NoRow}
    /\ selectedAction \in ActionKind
    /\ selectedProcess # NoRow =>
         \A a \in ActionKind : mutation[a] # 0 =>
             /\ posts[mutation[a]].pid = PidOf[selectedProcess]
             /\ posts[mutation[a]].action = selectedAction

LEMMA ConfirmationStep == ConfirmationInv /\ [ProcessesNext]_processesVars => ConfirmationInv'
  <1> SUFFICES ASSUME ConfirmationInv, [ProcessesNext]_processesVars PROVE ConfirmationInv'
    OBVIOUS
  <1> USE DEF ConfirmationInv
  <1>1. ASSUME NEW a \in ActionKind, NEW p \in Row, Choose(a, p) PROVE ConfirmationInv'
    <2>1. /\ posts' = posts /\ mutation' = [k \in ActionKind |-> 0]
          /\ selectedProcess' = p /\ selectedAction' = a
      BY <1>1 DEF Choose, ResetMutations
    <2>2. Len(posts) \in Nat
      OBVIOUS
    <2> QED
      BY <2>1, <2>2
  <1>2. CASE Cancel
    <2>1. /\ posts' = posts /\ mutation' = [k \in ActionKind |-> 0]
          /\ selectedProcess' = NoRow /\ selectedAction' = selectedAction
      BY <1>2 DEF Cancel, ResetMutations
    <2>2. Len(posts) \in Nat
      OBVIOUS
    <2> QED
      BY <2>1, <2>2
  <1>3. CASE Confirm
    <2> DEFINE post == [action |-> selectedAction, pid |-> PidOf[selectedProcess],
                        state |-> "pending"]
    <2>1. post \in Post
      BY <1>3 DEF Confirm, Confirmation, Post, PostState
    <2>2. /\ posts' = Append(posts, post)
          /\ mutation' = [mutation EXCEPT ![selectedAction] = Len(posts) + 1]
          /\ UNCHANGED <<selectedProcess, selectedAction>>
      BY <1>3 DEF Confirm
    <2> HIDE DEF post
    <2>3. /\ posts' \in Seq(Post)
          /\ Len(posts') = Len(posts) + 1 /\ posts'[Len(posts) + 1] = post
          /\ \A k \in 1 .. Len(posts) : posts'[k] = posts[k]
      BY <2>1, <2>2
    <2>4. mutation' \in [ActionKind -> 0 .. Len(posts')]
      BY <2>2, <2>3
    <2>5. post.pid = PidOf[selectedProcess] /\ post.action = selectedAction
      BY DEF post
    <2>6. ASSUME NEW a \in ActionKind, mutation'[a] # 0, selectedProcess # NoRow
          PROVE  /\ posts'[mutation'[a]].pid = PidOf[selectedProcess]
                 /\ posts'[mutation'[a]].action = selectedAction
      <3>1. CASE a = selectedAction
        BY <2>2, <2>3, <2>5, <3>1
      <3>2. CASE a # selectedAction
        BY <2>2, <2>3, <2>6, <3>2
      <3> QED
        BY <3>1, <3>2
    <2> QED
      BY <2>2, <2>3, <2>4, <2>6
  <1>4. ASSUME NEW n \in DOMAIN posts, NEW end \in PostState,
               posts' = [posts EXCEPT ![n].state = end],
               selectedProcess' \in {selectedProcess, NoRow},
               UNCHANGED <<mutation, selectedAction>>
        PROVE  ConfirmationInv'
    <2>1. n \in 1 .. Len(posts) /\ posts[n] \in Post
      OBVIOUS
    <2>2. [posts[n] EXCEPT !.state = end] \in Post
      BY <2>1 DEF Post
    <2>3. /\ posts' \in Seq(Post) /\ Len(posts') = Len(posts)
          /\ \A k \in 1 .. Len(posts) : /\ posts'[k].pid = posts[k].pid
                                        /\ posts'[k].action = posts[k].action
      <3>1. posts' = [posts EXCEPT ![n] = [posts[n] EXCEPT !.state = end]]
        BY <1>4
      <3>2. /\ [posts[n] EXCEPT !.state = end].pid = posts[n].pid
            /\ [posts[n] EXCEPT !.state = end].action = posts[n].action
        BY <2>1 DEF Post
      <3> QED
        BY <2>1, <2>2, <3>1, <3>2
    <2> QED
      BY <1>4, <2>3
  <1>5. ASSUME NEW n \in DOMAIN posts, PostSucceeds(n) \/ PostFails(n) PROVE ConfirmationInv'
    BY <1>4, <1>5 DEF PostSucceeds, PostFails, PostState
  <1>6. CASE UNCHANGED choiceVars
    BY <1>6 DEF choiceVars
  <1> QED
    BY <1>1, <1>2, <1>3, <1>5, <1>6
       DEF ProcessesNext, ProcessesFetched, ProcessesFetchFails, SortHeader, SearchFor,
           PreviousPage, NextPage, TurnTo, RerenderProcesses, processesVars, choiceVars

LEMMA ConfirmationInitially == WebInit => ConfirmationInv
  <1> SUFFICES ASSUME WebInit PROVE ConfirmationInv
    OBVIOUS
  <1>1. /\ posts = <<>> /\ mutation = [a \in ActionKind |-> 0]
          /\ selectedProcess = NoRow /\ selectedAction = "terminate"
    BY DEF WebInit, ProcessesInit
  <1>2. posts \in Seq(Post) /\ Len(posts) = 0
    BY <1>1
  <1> QED
    BY <1>1, <1>2 DEF ConfirmationInv, ActionKind

(* What the confirmation says of a request is of a request for the process *)
(* and the action that it shows, although requests outlive their           *)
(* confirmations and overlap (Processes.tsx:44-59, 81-103).                *)
THEOREM OutcomeIsOfItsChoice == WebSpec => []OutcomeIsOfTheChoice
  <1>1. WebInit => ConfirmationInv
    BY ConfirmationInitially
  <1>2. ConfirmationInv /\ [WebNext]_webVars => ConfirmationInv'
    BY PartsStep, ConfirmationStep
  <1>3. ConfirmationInv => OutcomeIsOfTheChoice
    BY DEF ConfirmationInv, OutcomeIsOfTheChoice, Outcome, Confirmation
  <1> QED
    BY <1>1, <1>2, <1>3, PTL DEF WebSpec

-----------------------------------------------------------------------------
(* The tables of the security page.  An answer is one to the query that    *)
(* asked, and stays with its key.                                          *)

(* A query of the cache whose data and reply are of one kind.              *)
LEMMA QueryKeepsType ==
    ASSUME NEW D, NEW q \in QueryType(D), NEW d \in D, NoData \in D
    PROVE  /\ Ask(q) \in QueryType(D) /\ Invalidate(q) \in QueryType(D)
           /\ Answer(q, d) \in QueryType(D) /\ Receive(q) \in QueryType(D) /\ Fail(q) \in QueryType(D)
           /\ NewQuery \in QueryType(D)
  BY DEF QueryType, Ask, Invalidate, Answer, Receive, Fail, NewQuery

EventsInv ==
    /\ filterType \in Filter
    /\ DOMAIN eventQueries = Filter
    /\ \A f \in Filter : eventQueries[f] \in QueryType(SUBSET Matches(f))

LEMMA EventsStep == EventsInv /\ [EventsNext]_eventsVars => EventsInv'
  <1> SUFFICES ASSUME EventsInv, [EventsNext]_eventsVars PROVE EventsInv'
    OBVIOUS
  <1>1. ASSUME NEW f \in Filter, NEW q \in QueryType(SUBSET Matches(f)),
               eventQueries' = [eventQueries EXCEPT ![f] = q], filterType' = filterType
        PROVE  EventsInv'
    BY <1>1 DEF EventsInv, Filter, Matches
  <1>2. \A f \in Filter : {} \in SUBSET Matches(f) /\ recorded \cap Matches(f) \in SUBSET Matches(f)
    OBVIOUS
  <1>3. CASE AskEvents
    <2>1. Invalidate(eventQueries[filterType]) \in QueryType(SUBSET Matches(filterType))
      BY <1>2, QueryKeepsType DEF EventsInv, NoData
    <2> QED
      BY <1>1, <1>3, <2>1 DEF AskEvents, EventsKey, EventsInv
  <1>4. ASSUME NEW f \in Filter, AnswerEvents(f) \/ EventsArrive(f) \/ EventsFail(f)
        PROVE  EventsInv'
    <2>1. \A q \in {Answer(eventQueries[f], recorded \cap Matches(f)), Receive(eventQueries[f]),
                    Fail(eventQueries[f])} : q \in QueryType(SUBSET Matches(f))
      BY <1>2, QueryKeepsType DEF EventsInv, NoData
    <2> QED
      BY <1>1, <1>4, <2>1 DEF AnswerEvents, EventsArrive, EventsFail
  <1>5. ASSUME NEW f \in Filter, setFilterType(f) PROVE EventsInv'
    BY <1>5 DEF setFilterType, EventsInv, Filter, Matches
  <1>6. CASE UNCHANGED <<filterType, eventQueries>>
    BY <1>6 DEF EventsInv, Filter, Matches
  <1> QED
    BY <1>3, <1>4, <1>5, <1>6
       DEF EventsNext, RecordEvent, PreviousEvents, NextEvents, TurnEventsTo, RerenderEvents, eventsVars

AuditInv ==
    /\ selectedTraceId \in Trace \cup {AnyTrace}
    /\ DOMAIN auditQueries = Trace \cup {AnyTrace}
    /\ \A t \in Trace \cup {AnyTrace} : auditQueries[t] \in QueryType(SUBSET OfTrace(t))

LEMMA AuditStep == AuditInv /\ audited \subseteq Entry /\ [AuditNext]_auditVars =>
                     AuditInv' /\ audited' \subseteq Entry
  <1> SUFFICES ASSUME AuditInv, audited \subseteq Entry, [AuditNext]_auditVars
               PROVE  AuditInv' /\ audited' \subseteq Entry
    OBVIOUS
  <1> DEFINE Key == Trace \cup {AnyTrace}
  <1>1. ASSUME NEW t \in Key, NEW q \in QueryType(SUBSET OfTrace(t)),
               auditQueries' = [auditQueries EXCEPT ![t] = q],
               selectedTraceId' = selectedTraceId
        PROVE  AuditInv'
    BY <1>1 DEF AuditInv, OfTrace
  <1>2. \A t \in Key : {} \in SUBSET OfTrace(t) /\ audited \cap OfTrace(t) \in SUBSET OfTrace(t)
    OBVIOUS
  <1>3. CASE AskAudit
    <2>1. Ask(auditQueries[selectedTraceId]) \in QueryType(SUBSET OfTrace(selectedTraceId))
      BY <1>2, QueryKeepsType DEF AuditInv, NoData
    <2> QED
      BY <1>1, <1>3, <2>1 DEF AskAudit, AuditKey, AuditInv
  <1>4. ASSUME NEW t \in Key, AnswerAudit(t) \/ AuditArrives(t) \/ AuditFails(t)
        PROVE  AuditInv' /\ audited' \subseteq Entry
    <2>1. /\ auditQueries[t] \in QueryType(SUBSET OfTrace(t))
          /\ audited \cap OfTrace(t) \in SUBSET OfTrace(t) /\ NoData \in SUBSET OfTrace(t)
      BY DEF AuditInv, NoData
    <2>2. \A q \in {Answer(auditQueries[t], audited \cap OfTrace(t)), Receive(auditQueries[t]),
                    Fail(auditQueries[t])} : q \in QueryType(SUBSET OfTrace(t))
      BY ONLY <2>1, QueryKeepsType
    <2> QED
      BY <1>1, <1>4, <2>2 DEF AnswerAudit, AuditArrives, AuditFails
  <1>5. ASSUME NEW t \in Key, setSelectedTraceId(t) PROVE AuditInv' /\ audited' \subseteq Entry
    BY <1>5 DEF setSelectedTraceId, AuditInv, OfTrace
  <1>6. CASE UNCHANGED <<selectedTraceId, auditQueries>> /\ audited' \subseteq Entry
    BY <1>6 DEF AuditInv, OfTrace
  <1>7. \A e \in audited : TraceOf[e] \in Key
    BY SecurityAuditAssumption
  <1> QED
    BY <1>3, <1>4, <1>5, <1>6, <1>7
       DEF AuditNext, AppendAudit, ShowTrailOfEvent, ShowTrailOfIncident, ResetTrail, AskAudit, auditVars

(* The events under a filter and the entries under the heading of a trace  *)
(* are of that filter and that trace, in whatever order the answers to the *)
(* choices before come (useSecurity.ts:13-61).                             *)
THEOREM TablesShowTheChoice == WebSpec => []TablesMatchChoice
  <1> DEFINE Inv == EventsInv /\ AuditInv /\ audited \subseteq Entry
  <1>1. WebInit => Inv
    <2> SUFFICES ASSUME WebInit PROVE Inv
      OBVIOUS
    <2>1. \A D : NewQuery \in QueryType(SUBSET D)
      BY DEF NewQuery, QueryType, NoData
    <2>2. EventsInit /\ AuditInit
      BY DEF WebInit
    <2> QED
      BY <2>1, <2>2 DEF EventsInit, AuditInit, EventsInv, AuditInv, Filter
  <1>2. Inv /\ [WebNext]_webVars => Inv'
    BY PartsStep, EventsStep, AuditStep
  <1>3. Inv => TablesMatchChoice
    BY DEF EventsInv, AuditInv, TablesMatchChoice, EventsMatchFilter, TrailMatchesChoice,
           events, auditEntries, EventsKey, AuditKey, QueryType
  <1> HIDE DEF Inv
  <1> QED
    BY <1>1, <1>2, <1>3, PTL DEF WebSpec

-----------------------------------------------------------------------------
(* The note of an incident.                                                *)

NoteInv ==
    /\ incidents \in Lists
    /\ Displayed(incidents, selectedQueued) = selectedQueued
    /\ noteQueued \subseteq {selectedIncidentId}

LEMMA DisplayedIsDisplayed ==
    ASSUME NEW l \in Lists, NEW i PROVE Displayed(l, Displayed(l, i)) = Displayed(l, i)
  <1>1. l # <<>> => l[1] \in Listing(l)
    BY DEF Lists, Listing
  <1>2. NoIncident \notin Listing(l)
    BY SecurityIncidentsAssumption DEF Lists, Listing
  <1> QED
    BY <1>1, <1>2 DEF Displayed

(* A commit that shows the selection i and the note keeps the invariant    *)
(* when they belong together.                                              *)
LEMMA CommitKeepsNote ==
    ASSUME NoteInv, NEW l \in Lists, NEW i, NEW note, CommitIncidents(l, i, note),
           l = incidents => Displayed(l, i) = i,
           i = selectedIncidentId => note \subseteq {i}
    PROVE  NoteInv'
  BY DisplayedIsDisplayed DEF NoteInv, CommitIncidents, Reselect, ClearNote

LEMMA NoteStep == NoteInv /\ [IncidentsNext]_incidentsVars => NoteInv'
  <1> SUFFICES ASSUME NoteInv, [IncidentsNext]_incidentsVars PROVE NoteInv'
    OBVIOUS
  <1>1. CASE IncidentsChange
    BY <1>1, CommitKeepsNote DEF IncidentsChange, NoteInv
  <1>2. CASE RerenderIncidents
    BY <1>2, CommitKeepsNote DEF RerenderIncidents, NoteInv
  <1>3. ASSUME NEW i \in Incident, setSelectedIncidentId(i) PROVE NoteInv'
    BY <1>3, CommitKeepsNote DEF setSelectedIncidentId, NoteInv, Displayed
  <1>4. CASE setIncidentNote
    <2>1. PICK text \in {{}, incidentNote \cup {selectedIncident}} :
               CommitIncidents(incidents, selectedQueued, text)
      BY <1>4 DEF setIncidentNote
    <2>2. selectedQueued = selectedIncidentId => text \subseteq {selectedQueued}
      BY <1>4 DEF setIncidentNote, NoteInv, selectedIncident
    <2> QED
      BY <2>1, <2>2, CommitKeepsNote DEF NoteInv
  <1>5. ASSUME NEW n \in DOMAIN notesSent, NoteStored(n) PROVE NoteInv'
    BY <1>5, CommitKeepsNote DEF NoteStored, NoteInv
  <1>6. CASE UNCHANGED <<incidents, selectionVars>>
    BY <1>6 DEF selectionVars, NoteInv
  <1> QED
    BY <1>1, <1>2, <1>3, <1>4, <1>5, <1>6
       DEF IncidentsNext, AnswerDetails, DetailsFail, handleAddIncidentNote, NoteFails,
           handleIncidentStatus, StatusSettled, AskDetails, incidentsVars, selectionVars

(* Once the effects are rendered, the text that is being written is about  *)
(* the incident on the screen (Security.tsx:63-75).                        *)
THEOREM NoteFollowsIncident == WebSpec => []NoteIsAboutDisplayed
  <1>1. WebInit => NoteInv
    <2> SUFFICES ASSUME WebInit PROVE NoteInv
      OBVIOUS
    <2>1. IncidentsInit
      BY DEF WebInit
    <2>2. <<>> \in [1 .. 0 -> Incident] /\ 0 \in 0 .. MaxListed
      BY SecurityIncidentsAssumption
    <2>3. <<>> \in Lists
      BY <2>2 DEF Lists
    <2> QED
      BY <2>1, <2>3, SecurityIncidentsAssumption DEF IncidentsInit, NoteInv, Displayed, Listing
  <1>2. NoteInv /\ [WebNext]_webVars => NoteInv'
    BY PartsStep, NoteStep
  <1>3. NoteInv => NoteIsAboutDisplayed
    BY DEF NoteInv, NoteIsAboutDisplayed, NoteSettled, selectedIncident
  <1> QED
    BY <1>1, <1>2, <1>3, PTL DEF WebSpec

-----------------------------------------------------------------------------
(* The pages of the tables.  The number that is queued is inside the pages *)
(* of the list at every moment, the one that is rendered only when it is   *)
(* the same.                                                               *)

LEMMA AtLeastOnePage ==
    ASSUME NEW S, IsFiniteSet(S), NEW L, L \subseteq S, NEW size \in Nat \ {0}
    PROVE  PageCount(Cardinality(L), size) \in Nat \ {0}
  <1>1. Cardinality(L) \in Nat
    BY FS_Subset, FS_CardinalityType
  <1>2. (Cardinality(L) + size - 1) \div size \in Int
    BY <1>1
  <1> QED
    BY <1>2 DEF PageCount, AtLeast

LEMMA EffectsStayInside ==
    ASSUME NEW before \in Nat \ {0}, NEW after \in Nat \ {0}, NEW queued \in 1 .. before,
           NEW toFirst \in BOOLEAN
    PROVE  Effects(queued, toFirst, before, after) \in 1 .. after
  BY DEF Effects, AtMost

PagesInv ==
    /\ procs \subseteq Row /\ search \in SearchTerm
    /\ procPageQueued \in 1 .. TotalPages

LEMMA PagesStep == PagesInv /\ [ProcessesNext]_processesVars => PagesInv'
  <1> SUFFICES ASSUME PagesInv, [ProcessesNext]_processesVars PROVE PagesInv'
    OBVIOUS
  <1>1. TotalPages \in Nat \ {0} /\ TotalPages' \in Nat \ {0}
    <2>1. ASSUME NEW l PROVE PageCount(Cardinality(l \cap Row), ProcsPerPage) \in Nat \ {0}
      BY AtLeastOnePage, ProcessesPageAssumption
    <2>2. procs' \subseteq Row
      BY DEF ProcessesNext, ProcessesFetched, ProcessesFetchFails, SortHeader, SearchFor,
           PreviousPage, NextPage, TurnTo, Choose, Confirm, Cancel, PostSucceeds, PostFails,
           RerenderProcesses, processesVars, listVars, PagesInv, Snapshots
    <2>3. Listed \cap Row = Listed /\ Listed' \cap Row = Listed'
      BY <2>2 DEF Listed, PagesInv
    <2> QED
      BY <2>1, <2>3 DEF TotalPages
  <1>2. ASSUME NEW toFirst \in BOOLEAN, Render(toFirst), procs' \subseteq Row, search' \in SearchTerm
        PROVE  PagesInv'
    BY <1>1, <1>2, EffectsStayInside DEF PagesInv, Render
  <1>3. ASSUME listVars' = listVars PROVE TotalPages' = TotalPages /\ procs' = procs /\ search' = search
    BY <1>3 DEF listVars, TotalPages, Listed
  <1>4. CASE PreviousPage
    BY <1>1, <1>3, <1>4 DEF PreviousPage, TurnTo, AtLeast, PagesInv
  <1>5. CASE NextPage
    BY <1>1, <1>3, <1>5 DEF NextPage, TurnTo, AtMost, PagesInv
  <1>6. CASE Confirm \/ RerenderProcesses \/ UNCHANGED processesVars
    BY <1>3, <1>6 DEF Confirm, RerenderProcesses, processesVars, PagesInv, listVars
  <1>7. ASSUME NEW n, PostSucceeds(n) \/ PostFails(n) PROVE PagesInv'
    BY <1>2, <1>3, <1>7 DEF PostSucceeds, PostFails, PagesInv
  <1>8. CASE Cancel
    BY <1>2, <1>3, <1>8 DEF Cancel, PagesInv
  <1>9. ASSUME NEW a, NEW p, Choose(a, p) PROVE PagesInv'
    BY <1>2, <1>3, <1>9 DEF Choose, PagesInv
  <1>10. CASE ProcessesFetched
    BY <1>2, <1>10 DEF ProcessesFetched, PagesInv, Snapshots
  <1>11. CASE ProcessesFetchFails
    BY <1>2, <1>11 DEF ProcessesFetchFails, PagesInv
  <1>12. ASSUME NEW k, SortHeader(k) PROVE PagesInv'
    BY <1>2, <1>12 DEF SortHeader, PagesInv
  <1>13. ASSUME NEW term \in SearchTerm, SearchFor(term) PROVE PagesInv'
    BY <1>2, <1>13 DEF SearchFor, PagesInv
  <1> QED
    BY <1>4, <1>5, <1>6, <1>7, <1>8, <1>9, <1>10, <1>11, <1>12, <1>13 DEF ProcessesNext

LEMMA EventPagesStep ==
    EventsInv /\ EventsInv' /\ eventsPageQueued \in 1 .. TotalEventPages
    /\ [EventsNext]_eventsVars => eventsPageQueued' \in 1 .. TotalEventPages'
  <1> SUFFICES ASSUME EventsInv, EventsInv', eventsPageQueued \in 1 .. TotalEventPages,
                      [EventsNext]_eventsVars
               PROVE  eventsPageQueued' \in 1 .. TotalEventPages'
    OBVIOUS
  <1>1. TotalEventPages \in Nat \ {0} /\ TotalEventPages' \in Nat \ {0}
    <2>1. ASSUME NEW l PROVE PageCount(Cardinality(l \cap Event), EventsPerPage) \in Nat \ {0}
      BY AtLeastOnePage, SecurityEventsAssumption
    <2>2. events \cap Event = events /\ events' \cap Event = events'
      BY DEF EventsInv, events, EventsKey, QueryType, Matches
    <2> QED
      BY <2>1, <2>2 DEF TotalEventPages
  <1>2. ASSUME NEW toFirst \in BOOLEAN, RenderEvents(toFirst)
        PROVE  eventsPageQueued' \in 1 .. TotalEventPages'
    BY <1>1, <1>2, EffectsStayInside DEF RenderEvents
  <1>3. ASSUME UNCHANGED filterType, events' = events PROVE TotalEventPages' = TotalEventPages
    BY <1>3 DEF TotalEventPages
  <1>4. CASE PreviousEvents
    BY <1>1, <1>3, <1>4 DEF PreviousEvents, TurnEventsTo, AtLeast, events, EventsKey
  <1>5. CASE NextEvents
    BY <1>1, <1>3, <1>5 DEF NextEvents, TurnEventsTo, AtMost, events, EventsKey
  <1>6. CASE RerenderEvents \/ UNCHANGED eventsVars \/ \E e \in Event : RecordEvent(e)
    BY <1>3, <1>6 DEF RerenderEvents, eventsVars, RecordEvent, events, EventsKey
  <1>7. CASE AskEvents
    <2>1. events' = events
      BY <1>7 DEF AskEvents, events, EventsKey, Ask, Invalidate, EventsInv, QueryType
    <2> QED
      BY <1>3, <1>7, <2>1 DEF AskEvents
  <1>8. ASSUME NEW f \in Filter, AnswerEvents(f) PROVE eventsPageQueued' \in 1 .. TotalEventPages'
    <2>1. events' = events
      BY <1>8 DEF AnswerEvents, events, EventsKey, Answer, EventsInv, QueryType
    <2> QED
      BY <1>3, <1>8, <2>1 DEF AnswerEvents
  <1>9. ASSUME NEW f \in Filter, EventsArrive(f) \/ EventsFail(f) \/ setFilterType(f)
        PROVE  eventsPageQueued' \in 1 .. TotalEventPages'
    BY <1>2, <1>9 DEF EventsArrive, EventsFail, setFilterType
  <1> QED
    BY <1>4, <1>5, <1>6, <1>7, <1>8, <1>9 DEF EventsNext

LEMMA PagesInitially ==
    WebInit => PagesInv /\ EventsInv /\ eventsPageQueued \in 1 .. TotalEventPages
  <1> SUFFICES ASSUME WebInit
               PROVE  PagesInv /\ EventsInv /\ eventsPageQueued \in 1 .. TotalEventPages
    OBVIOUS
  <1>1. ProcessesInit /\ EventsInit
    BY DEF WebInit
  <1>2. TotalPages \in Nat \ {0}
    BY <1>1, AtLeastOnePage, ProcessesPageAssumption
       DEF ProcessesInit, Snapshots, Listed, TotalPages
  <1>3. PagesInv
    <2>1. procs \subseteq Row /\ search \in SearchTerm
      BY <1>1 DEF ProcessesInit, Snapshots
    <2>2. procPageQueued = 1
      BY <1>1 DEF ProcessesInit
    <2>3. 1 \in 1 .. TotalPages
      BY ONLY <1>2
    <2> QED
      BY <2>1, <2>2, <2>3 DEF PagesInv
  <1>4. \A D : NewQuery \in QueryType(SUBSET D) /\ NewQuery.data = {}
    BY DEF NewQuery, QueryType, NoData
  <1>5. EventsInv /\ events = {}
    BY <1>1, <1>4 DEF EventsInit, EventsInv, Filter, events, EventsKey
  <1>6. PageCount(Cardinality({}), EventsPerPage) \in Nat \ {0}
    BY AtLeastOnePage, FS_EmptySet, SecurityEventsAssumption
  <1> QED
    BY <1>1, <1>3, <1>5, <1>6 DEF EventsInit, TotalEventPages

(* Once its updates are rendered a table shows a page that exists, however *)
(* the list shrinks between two clicks (Processes.tsx, Security.tsx).      *)
THEOREM PagesAlwaysExist == WebSpec => []PagesExist
  <1> DEFINE Inv == PagesInv /\ EventsInv /\ eventsPageQueued \in 1 .. TotalEventPages
  <1>1. WebInit => Inv
    BY PagesInitially
  <1>2. Inv /\ [WebNext]_webVars => Inv'
    BY PartsStep, PagesStep, EventsStep, EventPagesStep
  <1>3. Inv => PagesExist
    BY DEF PagesInv, PagesExist, ProcessPageExists, EventPageExists
  <1> HIDE DEF Inv
  <1> QED
    BY <1>1, <1>2, <1>3, PTL DEF WebSpec

-----------------------------------------------------------------------------
(* The live connection.                                                    *)

(* The connection; the events that are kept, all of them older than any    *)
(* that is to come; the timers; and the production build.                  *)
SocketInv ==
    /\ ready \in [Socket -> {"connecting", "open", "closing", "closed"}]
    /\ socket \in Socket \cup {NoSocket}
    /\ OneConnection

KeptInv ==
    /\ published \in Nat /\ received \in [Socket -> 0 .. published]
    /\ recentEvents \in Seq(1 .. published) /\ EventsOnceInOrder
    /\ \A s \in Socket : ready[s] = "open" =>
         \A i \in DOMAIN recentEvents : recentEvents[i] <= received[s]

TimersInv ==
    /\ heartbeats \in Nat /\ heartbeatHeld \in BOOLEAN /\ (heartbeatHeld => heartbeats > 0)
    /\ timers \in Nat /\ timerHeld \in BOOLEAN /\ (timerHeld => timers > 0)

ProductionInv ==
    ~development => /\ mounted /\ ProductionLife
                    /\ heartbeats = (IF heartbeatHeld THEN 1 ELSE 0)

LiveInv == /\ development \in BOOLEAN /\ mounted \in BOOLEAN
           /\ SocketInv /\ KeptInv /\ TimersInv /\ ProductionInv

(* The newest events, the oldest of them forgotten. *)
LEMMA AddedInOrder ==
    ASSUME NEW n \in Nat, NEW e \in 1 .. n, NEW before \in Seq(1 .. n), recentEvents = before,
           \A i, j \in DOMAIN before : i < j => before[i] > before[j],
           \A i \in DOMAIN before : before[i] < e
    PROVE  /\ addSecurityEvent(e) \in Seq(1 .. n)
           /\ \A i, j \in DOMAIN addSecurityEvent(e) :
                i < j => addSecurityEvent(e)[i] > addSecurityEvent(e)[j]
           /\ \A i \in DOMAIN addSecurityEvent(e) : addSecurityEvent(e)[i] <= e
  <1> DEFINE all == <<e>> \o before
             last == IF Len(all) < KeepEvents THEN Len(all) ELSE KeepEvents
  <1>1. /\ all \in Seq(1 .. n) /\ Len(all) = Len(before) + 1 /\ all[1] = e
        /\ \A i \in 2 .. Len(all) : all[i] = before[i - 1]
    OBVIOUS
  <1>2. last \in 0 .. Len(all)
    BY <1>1, LiveSocketAssumption
  <1>3. addSecurityEvent(e) = SubSeq(all, 1, last)
    BY DEF addSecurityEvent
  <1>4. \A i, j \in 1 .. Len(all) : i < j => all[i] > all[j]
    <2>1. ASSUME NEW j \in 2 .. Len(all) PROVE j - 1 \in DOMAIN before
      BY <1>1
    <2> QED
      BY <1>1, <2>1
  <1>5. \A i \in 1 .. Len(all) : all[i] \in 1 .. n /\ all[i] <= e
    <2>1. ASSUME NEW j \in 2 .. Len(all) PROVE j - 1 \in DOMAIN before
      BY <1>1
    <2> QED
      BY <1>1, <2>1
  <1> HIDE DEF all, last
  <1>6. /\ SubSeq(all, 1, last) \in Seq(1 .. n)
        /\ Len(SubSeq(all, 1, last)) = last
        /\ \A i \in 1 .. last : SubSeq(all, 1, last)[i] = all[i]
    <2>1. \A i \in 1 .. last : all[i] \in 1 .. n
      BY <1>1, <1>2, <1>5
    <2>2. last \in Int /\ 1 \in Int
      BY <1>2
    <2> QED
      BY <2>1, <2>2, <1>1, <1>2, SubSeqProperties
  <1>7. /\ DOMAIN addSecurityEvent(e) = 1 .. last
        /\ \A i \in 1 .. last : i \in 1 .. Len(all) /\ addSecurityEvent(e)[i] = all[i]
    BY <1>1, <1>2, <1>3, <1>6
  <1> QED
    BY <1>3, <1>4, <1>5, <1>6, <1>7

(* A call of connectWS, with what it leaves alone.                         *)
LEMMA Connecting ==
    ASSUME LiveInv, connectWS, ~development => ready[socket] = "closed",
           UNCHANGED <<heartbeats, heartbeatHeld, liveStatus, development, eventVars>>,
           ~development => mounted' /\ timers' = 0, mounted' \in BOOLEAN,
           timers' \in Nat, timerHeld' \in BOOLEAN, timerHeld' => timers' > 0
    PROVE  LiveInv'
  <1>1. CASE socket # NoSocket /\ Live(socket)
    <2>1. UNCHANGED <<socket, ready, shouldReconnect>>
      BY <1>1 DEF connectWS
    <2> QED
      BY <1>1, <2>1 DEF LiveInv, SocketInv, KeptInv, TimersInv, ProductionInv, OneConnection, Live,
                        EventsOnceInOrder, eventVars
  <1>2. CASE ~(socket # NoSocket /\ Live(socket))
    <2>1. PICK s \in Socket : /\ ready[s] = "closed" /\ socket' = s /\ shouldReconnect'
                              /\ ready' = [ready EXCEPT ![s] = "connecting"]
      BY <1>2 DEF connectWS, NewSocket
    <2>2. \A t \in Socket : ~Live(t)
      BY <1>2, LiveSocketAssumption DEF LiveInv, SocketInv, OneConnection
    <2>3. SocketInv'
      BY <2>1, <2>2 DEF OneConnection, Live, LiveInv, SocketInv
    <2>4. KeptInv'
      BY <2>1 DEF LiveInv, SocketInv, KeptInv, EventsOnceInOrder, eventVars
    <2>5. ASSUME ~development PROVE ProductionLife'
      BY <2>1, <2>5, LiveSocketAssumption
         DEF LiveInv, SocketInv, ProductionInv, ProductionLife, TimersInv
    <2> QED
      BY <2>3, <2>4, <2>5 DEF LiveInv, TimersInv, ProductionInv
  <1> QED
    BY <1>1, <1>2

LEMMA LiveStep == LiveInv /\ [LiveNext]_liveVars => LiveInv'
  <1> SUFFICES ASSUME LiveInv, [LiveNext]_liveVars PROVE LiveInv'
    OBVIOUS
  <1> USE DEF LiveInv
  <1>1. CASE ReconnectIsDue
    <2>1. ~development => ready[socket] = "closed" /\ timers = 1
      BY <1>1 DEF ProductionInv, ProductionLife, ReconnectIsDue
    <2> QED
      BY <1>1, <2>1, Connecting DEF ReconnectIsDue, TimersInv, ProductionInv
  <1>2. ASSUME NEW s \in Socket, onopen(s) PROVE LiveInv'
    <2>1. SocketInv'
      BY <1>2 DEF onopen, SocketInv, OneConnection, Live
    <2>2. KeptInv'
      <3>1. \A i \in DOMAIN recentEvents : recentEvents[i] <= published
        BY DEF KeptInv
      <3> QED
        BY <1>2, <3>1 DEF onopen, SocketInv, KeptInv, EventsOnceInOrder
    <2>3. ProductionInv' /\ TimersInv'
      BY <1>2 DEF onopen, SocketInv, TimersInv, ProductionInv, ProductionLife, Notify
    <2> QED
      BY <1>2, <2>1, <2>2, <2>3 DEF onopen
  <1>3. ASSUME NEW s \in Socket, ServerCloses(s) PROVE LiveInv'
    <2>1. SocketInv'
      BY <1>3 DEF ServerCloses, SocketInv, OneConnection, Live
    <2>2. KeptInv'
      BY <1>3 DEF ServerCloses, SocketInv, KeptInv, EventsOnceInOrder, eventVars
    <2>3. ProductionInv' /\ TimersInv'
      BY <1>3 DEF ServerCloses, SocketInv, TimersInv, ProductionInv, ProductionLife, Live
    <2> QED
      BY <1>3, <2>1, <2>2, <2>3 DEF ServerCloses
  <1>4. ASSUME NEW s \in Socket, onclose(s) PROVE LiveInv'
    <2>1. SocketInv'
      BY <1>4 DEF onclose, SocketInv, OneConnection, Live
    <2>2. KeptInv'
      BY <1>4 DEF onclose, SocketInv, KeptInv, EventsOnceInOrder
    <2>3. TimersInv'
      <3>1. heartbeats' \in Nat /\ heartbeatHeld' = FALSE
        BY <1>4 DEF onclose, TimersInv, ClearHeartbeat
      <3>2. CASE shouldReconnect
        <4>1. timers' = timers + 1 /\ timerHeld' = TRUE
          BY <1>4, <3>2 DEF onclose, ScheduleReconnect
        <4>2. timers' \in Nat /\ timers' > 0
          BY <4>1 DEF TimersInv
        <4> QED
          BY <3>1, <4>1, <4>2 DEF TimersInv
      <3>3. CASE ~shouldReconnect
        BY <1>4, <3>1, <3>3 DEF onclose, TimersInv, ScheduleReconnect
      <3> QED
        BY <3>2, <3>3
    <2>4. ASSUME ~development PROVE ProductionInv'
      <3>1. s = socket /\ timers = 0 /\ shouldReconnect /\ mounted
        BY <1>4, <2>4 DEF onclose, ProductionInv, ProductionLife
      <3>2. /\ timers' = 1 /\ heartbeats' = 0 /\ heartbeatHeld' = FALSE
            /\ liveStatus' = "disconnected" /\ ready' = [ready EXCEPT ![s] = "closed"]
            /\ UNCHANGED <<mounted, development, socket, shouldReconnect>>
        BY <1>4, <2>4, <3>1
           DEF onclose, ScheduleReconnect, ClearHeartbeat, Notify, ProductionInv
      <3> QED
        BY <2>4, <3>1, <3>2 DEF SocketInv, ProductionInv, ProductionLife
    <2>5. development => ProductionInv'
      BY <1>4 DEF onclose, ProductionInv
    <2> QED
      BY <1>4, <2>1, <2>2, <2>3, <2>4, <2>5 DEF onclose
  <1>5. ASSUME NEW s \in Socket, onmessage(s) PROVE LiveInv'
    <2>1. /\ received' = [received EXCEPT ![s] = received[s] + 1]
          /\ UNCHANGED <<development, mounted, published, socketVars>>
          /\ ready[s] = "open" /\ received[s] + 1 \in 1 .. published
      BY <1>5 DEF onmessage, KeptInv
    <2>2. \A t \in Socket : ready[t] = "open" => t = s
      BY <2>1 DEF SocketInv, OneConnection, Live
    <2>3. /\ recentEvents' \in Seq(1 .. published) /\ EventsOnceInOrder'
          /\ \A i \in DOMAIN recentEvents' : recentEvents'[i] <= received[s] + 1
      <3>1. CASE mounted
        <4>1. recentEvents' = addSecurityEvent(received[s] + 1)
          BY <1>5, <3>1 DEF onmessage
        <4>2. \A i \in DOMAIN recentEvents : recentEvents[i] < received[s] + 1
          BY <2>1 DEF KeptInv
        <4> QED
          BY <2>1, <4>1, <4>2, AddedInOrder DEF KeptInv, EventsOnceInOrder
      <3>2. CASE ~mounted
        BY <1>5, <2>1, <3>2 DEF onmessage, KeptInv, EventsOnceInOrder
      <3> QED
        BY <3>1, <3>2
    <2>4. KeptInv'
      BY <2>1, <2>2, <2>3 DEF KeptInv, socketVars
    <2> QED
      BY <2>1, <2>4 DEF SocketInv, TimersInv, OneConnection, Live, ProductionInv, ProductionLife,
                        socketVars
  <1>6. CASE Broadcast
    <2>1. KeptInv'
      BY <1>6 DEF Broadcast, KeptInv, EventsOnceInOrder, socketVars
    <2> QED
      BY <1>6, <2>1 DEF Broadcast, SocketInv, TimersInv, OneConnection, Live, ProductionInv,
                        ProductionLife, socketVars
  <1>7. CASE Unmount
    <2>1. development /\ development' /\ mounted' = FALSE
      BY <1>7 DEF Unmount
    <2>2. SocketInv' /\ \A s \in Socket : ready'[s] = "open" => ready[s] = "open"
      BY <1>7, LiveSocketAssumption DEF Unmount, SocketInv, OneConnection, Live
    <2>3. TimersInv'
      <3>1. heartbeats' \in Nat /\ heartbeatHeld' = FALSE
        BY <1>7 DEF Unmount, TimersInv, ClearHeartbeat
      <3>2. timers' \in Nat /\ timerHeld' = FALSE
        BY <1>7 DEF Unmount, TimersInv
      <3> QED
        BY <3>1, <3>2 DEF TimersInv
    <2>4. KeptInv'
      BY <1>7, <2>2 DEF Unmount, KeptInv, EventsOnceInOrder, eventVars
    <2> QED
      BY <2>1, <2>2, <2>3, <2>4 DEF ProductionInv
  <1>8. CASE Mount
    BY <1>8, Connecting DEF Mount, ProductionInv, TimersInv
  <1>9. CASE AgentChanges \/ HealthFetched \/ UNCHANGED liveVars
    BY <1>9 DEF AgentChanges, HealthFetched, liveVars, SocketInv, KeptInv, TimersInv, ProductionInv,
                OneConnection, Live, EventsOnceInOrder, ProductionLife, socketVars, eventVars
  <1> QED
    BY <1>1, <1>2, <1>3, <1>4, <1>5, <1>6, <1>7, <1>8, <1>9 DEF LiveNext

LEMMA LiveInitially == LiveInit => LiveInv
  <1> SUFFICES ASSUME LiveInit PROVE LiveInv
    OBVIOUS
  <1>1. PICK old \in Socket \ {socket} :
          ready = [s \in Socket |-> IF s = socket THEN "connecting"
                                    ELSE IF development /\ s = old THEN "closing" ELSE "closed"]
    BY DEF LiveInit
  <1>2. SocketInv
    BY <1>1 DEF LiveInit, SocketInv, OneConnection, Live
  <1>3. <<>> \in Seq(1 .. 0) /\ DOMAIN <<>> = {}
    OBVIOUS
  <1>4. KeptInv
    BY <1>3 DEF LiveInit, KeptInv, EventsOnceInOrder
  <1>5. ProductionInv
    BY <1>1, LiveSocketAssumption DEF LiveInit, ProductionInv, ProductionLife
  <1> QED
    BY <1>2, <1>4, <1>5 DEF LiveInit, LiveInv, TimersInv

(* There is one connection at most, no event is shown twice or out of      *)
(* order, and in the production build the module is always in one of the   *)
(* three states of its life (ws.ts:20-92, store.ts).                       *)
THEOREM OneLife == WebSpec => []OneLifeAtATime
  <1>1. WebInit => LiveInv
    BY LiveInitially DEF WebInit
  <1>2. LiveInv /\ [WebNext]_webVars => LiveInv'
    BY PartsStep, LiveStep
  <1>3. LiveInv => OneLifeAtATime
    BY DEF LiveInv, SocketInv, KeptInv, ProductionInv, OneLifeAtATime
  <1> QED
    BY <1>1, <1>2, <1>3, PTL DEF WebSpec

-----------------------------------------------------------------------------
(* The form of the settings.                                               *)

SettingsData == {{}} \cup {{r} : r \in Rows}
SettingsRequest == [n : Nat, kind : Kind, token : Token \cup {NoToken}, policy : Policy, reply : SettingsData]

(* Nothing that has begun before the last write is still to come. *)
FormIsOfServer ==
    /\ settingsQuery.fetch = "answered" => settingsQuery.reply = {row}
    /\ settingsQuery.fetch = "idle" /\ settingsQuery.state = "success" =>
         settingsQuery.data = {row}
    /\ ~edited => draftPolicy = row.policy \/ settingsQuery.data # {row}

SettingsInv ==
    /\ row \in Rows /\ settingsQuery \in QueryType(SettingsData)
    /\ settingsQuery.fetch = "answered" => settingsQuery.reply # NoData
    /\ draftPolicy \in Policy /\ draftToken \in Token \cup {NoToken}
    /\ requestCount \in Nat /\ requests \subseteq SettingsRequest
    /\ \A q \in requests :
         /\ q.kind = "test" => q.reply = {}
         /\ q.kind = "disconnect" => card # "mode" /\ q.token = NoToken
    /\ ~unsure =>
         /\ \A q, r \in requests : q = r
         /\ (\A q \in requests : q.reply = {}) => FormIsOfServer
         /\ \A q \in requests : q.reply # {} =>
              q.reply = {row} /\ (q.kind = "disconnect" => row.policy = DefaultPolicy)

LEMMA StoredIsRow ==
    ASSUME row \in Rows, NEW q \in SettingsRequest
    PROVE  /\ Stored(q) \in Rows
           /\ (CHOOSE r \in {Stored(q)} : TRUE) = Stored(q)
           /\ card # "mode" /\ q.token = NoToken => Stored(q).policy = DefaultPolicy
  BY SettingsPageAssumption DEF Stored, Rows, EmptyRow, SettingsRequest

LEMMA SettingsStep == SettingsInv /\ [SettingsNext]_settingsVars => SettingsInv'
  <1> SUFFICES ASSUME SettingsInv, [SettingsNext]_settingsVars PROVE SettingsInv'
    OBVIOUS
  <1>0. /\ \A r \in Rows : {r} \in SettingsData /\ (CHOOSE x \in {r} : TRUE) = r /\ r.policy \in Policy
        /\ \A d \in SettingsData : d = {} \/ \E r \in Rows : d = {r}
        /\ NoData \in SettingsData
    BY DEF SettingsData, Rows, NoData
  <1>1. CASE SettingsArrive
    <2>1. /\ settingsQuery' \in QueryType(SettingsData)
          /\ settingsQuery'.data = settingsQuery.reply /\ settingsQuery'.fetch = "idle"
          /\ settingsQuery'.reply = NoData
      BY <1>0, <1>1, QueryKeepsType DEF SettingsArrive, SettingsInv, QueryType, Receive
    <2>2. /\ UNCHANGED <<card, row, draftToken, requests, requestCount, unsure>>
          /\ settingsQuery.fetch = "answered"
      BY <1>1 DEF SettingsArrive, mutationState, formState, Fill
    <2>3. PICK r \in Rows : settingsQuery.reply = {r}
      BY <1>0, <2>2 DEF SettingsInv, QueryType, NoData
    <2>4. \/ r.policy = draftPolicy' /\ ~edited'
          \/ settingsQuery.data = {r} /\ UNCHANGED <<draftPolicy, edited>>
      BY <1>0, <1>1, <2>3 DEF SettingsArrive, Fill, formState
    <2>5. r.policy \in Policy
      BY <1>0
    <2> QED
      BY <2>1, <2>2, <2>3, <2>4, <2>5 DEF SettingsInv, FormIsOfServer
  <1>2. CASE SettingsFail
    <2>1. /\ settingsQuery' \in QueryType(SettingsData)
          /\ settingsQuery'.data = settingsQuery.data /\ settingsQuery'.fetch = "idle"
          /\ settingsQuery'.state = "error"
      BY <1>0, <1>2, QueryKeepsType DEF SettingsFail, SettingsInv, QueryType, Fail
    <2>2. UNCHANGED <<card, row, draftToken, draftPolicy, edited, requests, requestCount, unsure>>
      BY <1>2 DEF SettingsFail, mutationState, formState
    <2> QED
      BY <2>1, <2>2 DEF SettingsInv, FormIsOfServer
  <1>3. CASE AnswerSettings
    <2>1. /\ settingsQuery' \in QueryType(SettingsData)
          /\ settingsQuery'.data = settingsQuery.data /\ settingsQuery'.fetch = "answered"
          /\ settingsQuery'.reply = {row}
      BY <1>0, <1>3, QueryKeepsType DEF AnswerSettings, SettingsInv, QueryType, Answer
    <2>2. UNCHANGED <<card, row, draftToken, draftPolicy, edited, requests, requestCount, unsure>>
      BY <1>3 DEF AnswerSettings, mutationState, formState
    <2> QED
      BY <2>1, <2>2 DEF SettingsInv, FormIsOfServer, NoData
  <1>4. ASSUME NEW token \in Token \cup {NoToken}, EnterToken(token) PROVE SettingsInv'
    BY <1>4 DEF EnterToken, SettingsInv, FormIsOfServer, mutationState
  <1>5. ASSUME NEW p \in Policy, EnterPolicy(p) PROVE SettingsInv'
    BY <1>5 DEF EnterPolicy, SettingsInv, FormIsOfServer, mutationState
  <1>6. ASSUME NEW kind \in Kind, NEW token \in Token \cup {NoToken}, NEW policy \in Policy,
               Submit(kind, token, policy),
               kind = "disconnect" => card # "mode" /\ token = NoToken
        PROVE  SettingsInv'
    <2> DEFINE request == [n |-> requestCount + 1, kind |-> kind, token |-> token,
                           policy |-> policy, reply |-> {}]
    <2>1. request \in SettingsRequest /\ requestCount + 1 \in Nat
      BY <1>0 DEF SettingsInv, SettingsRequest, NoData
    <2>2. /\ requests' = requests \cup {request} /\ requestCount' = requestCount + 1
          /\ unsure' = (unsure \/ requests # {})
          /\ UNCHANGED <<card, row, settingsQuery, draftToken, draftPolicy, edited>>
      BY <1>6 DEF Submit, formState
    <2>3. request.kind = kind /\ request.token = token /\ request.reply = {}
      OBVIOUS
    <2> HIDE DEF request
    <2> QED
      BY <1>6, <2>1, <2>2, <2>3 DEF SettingsInv, FormIsOfServer
  <1>7. ASSUME NEW q \in requests, HandleSave(q) PROVE SettingsInv'
    <2> DEFINE handled == [q EXCEPT !.reply = {Stored(q)}]
    <2>1. q \in SettingsRequest
      BY DEF SettingsInv
    <2>2. /\ Stored(q) \in Rows
          /\ card # "mode" /\ q.token = NoToken => Stored(q).policy = DefaultPolicy
      BY <2>1, StoredIsRow DEF SettingsInv
    <2>3. /\ handled \in SettingsRequest /\ handled.reply = {Stored(q)}
          /\ handled.kind = q.kind /\ handled.token = q.token
      BY <1>0, <2>1, <2>2 DEF SettingsRequest
    <2>4. /\ row' = Stored(q) /\ requests' = (requests \ {q}) \cup {handled}
          /\ UNCHANGED <<card, settingsQuery, draftToken, draftPolicy, edited, requestCount, unsure>>
          /\ q.kind # "test"
      BY <1>7 DEF HandleSave, Acceptable, formState
    <2> HIDE DEF handled
    <2>5. \A x \in requests' : x = handled \/ (x \in requests /\ x # q)
      BY <2>4
    <2> QED
      BY <2>2, <2>3, <2>4, <2>5 DEF SettingsInv
  <1>8. ASSUME NEW q \in requests, Saved(q) PROVE SettingsInv'
    <2>1. /\ settingsQuery' \in QueryType(SettingsData)
          /\ \/ settingsQuery'.fetch = "asked"
             \/ settingsQuery' = settingsQuery /\ settingsQuery.fetch = "answered"
                /\ ~settingsQuery.known
      <3>1. settingsQuery' = Invalidate(settingsQuery) /\ settingsQuery \in QueryType(SettingsData)
        BY <1>8 DEF Saved, SettingsInv
      <3> QED
        BY <1>0, <3>1, QueryKeepsType DEF QueryType, Ask, Invalidate
    <2>2. q \in SettingsRequest /\ q.reply \in SettingsData /\ q.reply # {}
      BY <1>8 DEF SettingsInv, SettingsRequest, Saved
    <2>3. PICK r \in Rows : q.reply = {r}
      BY <1>0, <2>2
    <2>4. /\ draftToken' = NoToken /\ edited' = FALSE
          /\ draftPolicy' = r.policy \/ (q.kind = "disconnect" /\ draftPolicy' = DefaultPolicy)
      BY <1>0, <1>8, <2>3 DEF Saved, SavedMode, SavedIntegration, Disconnected, Filled
    <2>5. /\ requests' = requests \ {q}
          /\ UNCHANGED <<card, row, requestCount>> /\ unsure' = (unsure \/ Overtaken)
      BY <1>8 DEF Saved, Answered
    <2>6. r.policy \in Policy /\ DefaultPolicy \in Policy
      BY <1>0, SettingsPageAssumption
    <2>7. ~unsure => r = row /\ (q.kind = "disconnect" => row.policy = DefaultPolicy)
      BY <2>2, <2>3 DEF SettingsInv
    <2> QED
      BY <2>1, <2>4, <2>5, <2>6, <2>7 DEF SettingsInv, FormIsOfServer, Overtaken
  <1>9. ASSUME NEW q \in requests, SaveRefused(q) \/ AnswerLost(q) \/ Tested(q)
        PROVE  SettingsInv'
    <2>1. /\ requests' = requests \ {q}
          /\ UNCHANGED <<card, row, requestCount, settingsQuery, draftToken, draftPolicy, edited>>
          /\ unsure' \/ (unsure' = unsure /\ (q.reply = {} \/ q.kind = "test"))
      BY <1>9 DEF SaveRefused, AnswerLost, Tested, Answered, formState
    <2>2. q.kind = "test" => q.reply = {}
      BY DEF SettingsInv
    <2> QED
      BY <2>1, <2>2 DEF SettingsInv, FormIsOfServer
  <1>10. CASE SaveMode \/ SaveTelegram \/ SaveSlack \/ DisconnectTelegram \/ DisconnectSlack
              \/ SendTest
    BY <1>6, <1>10, SettingsPageAssumption
       DEF SaveMode, SaveTelegram, SaveSlack, DisconnectTelegram, DisconnectSlack, SendTest,
           Kind, SettingsInv
  <1>11. CASE UNCHANGED settingsVars
    BY <1>11 DEF settingsVars, SettingsInv, FormIsOfServer
  <1> QED
    BY <1>1, <1>2, <1>3, <1>4, <1>5, <1>7, <1>8, <1>9, <1>10, <1>11 DEF SettingsNext

LEMMA SettingsInitially == SettingsInit => SettingsInv
  <1>1. EmptyRow \in Rows /\ DefaultPolicy \in Policy
    BY SettingsPageAssumption DEF EmptyRow, Rows
  <1>2. NewQuery \in QueryType(SettingsData) /\ Ask(NewQuery) \in QueryType(SettingsData)
    BY DEF NewQuery, QueryType, SettingsData, NoData, Ask
  <1>3. Ask(NewQuery).fetch = "asked" /\ Ask(NewQuery).data = {}
    BY DEF NewQuery, Ask, NoData
  <1> QED
    BY <1>1, <1>2, <1>3, SettingsPageAssumption DEF SettingsInit, SettingsInv, FormIsOfServer

(* When nothing is on its way, a form that was not touched shows what the  *)
(* server holds, except after overlapping requests, a lost answer or a     *)
(* save that overtook the first fetch (Settings.tsx).                      *)
THEOREM FormFollowsServer == WebSpec => []FormShowsServer
  <1>1. WebInit => SettingsInv
    BY SettingsInitially DEF WebInit
  <1>2. SettingsInv /\ [WebNext]_webVars => SettingsInv'
    BY PartsStep, SettingsStep
  <1>3. SettingsInv => FormShowsServer
    BY DEF SettingsInv, FormIsOfServer, FormShowsServer, Quiet
  <1> QED
    BY <1>1, <1>2, <1>3, PTL DEF WebSpec

-----------------------------------------------------------------------------
(* The page of the logs.                                                   *)

LogsInv ==
    /\ effectsDue \subseteq {"params", "filters"}
    /\ lineCount \in Nat
    /\ liveLogs \in Seq(1 .. lineCount) /\ liveQueued \in Seq(1 .. lineCount)
    /\ "filters" \notin effectsDue =>
         /\ subscribed = {logFilter}
         /\ \A i \in DOMAIN liveQueued : liveQueued[i] \in LinesOf[logFilter]

LEMMA LastLinesAreLines ==
    ASSUME NEW S, NEW lines \in Seq(S)
    PROVE  /\ LastLines(lines) \in Seq(S)
           /\ \A i \in DOMAIN LastLines(lines) :
                \E j \in DOMAIN lines : LastLines(lines)[i] = lines[j]
  <1> DEFINE first == 1 + (IF Len(lines) > KeepLines THEN Len(lines) - KeepLines ELSE 0)
  <1>1. Len(lines) \in Nat /\ first \in Int /\ first >= 1
    BY LogViewAssumption
  <1> HIDE DEF first
  <1>2. \A i \in first .. Len(lines) : lines[i] \in S
    BY <1>1
  <1>3. LastLines(lines) = SubSeq(lines, first, Len(lines))
    BY DEF LastLines, first
  <1>4. /\ LastLines(lines) \in Seq(S)
        /\ Len(LastLines(lines)) = (IF first <= Len(lines) THEN Len(lines) - first + 1 ELSE 0)
        /\ \A i \in 1 .. Len(lines) - first + 1 : LastLines(lines)[i] = lines[first + i - 1]
    BY <1>1, <1>2, <1>3, SubSeqProperties
  <1>5. \A i \in 1 .. Len(lines) - first + 1 : first + i - 1 \in DOMAIN lines
    BY <1>1
  <1>6. \A i \in DOMAIN LastLines(lines) : i \in 1 .. Len(lines) - first + 1
    BY <1>1, <1>4
  <1> QED
    BY <1>4, <1>5, <1>6

LEMMA LogsStep == LogsInv /\ [LogsNext]_logsVars => LogsInv'
  <1> SUFFICES ASSUME LogsInv, [LogsNext]_logsVars PROVE LogsInv'
    OBVIOUS
  <1> USE DEF LogsInv
  <1>0. <<>> \in Seq(1 .. lineCount) /\ DOMAIN <<>> = {}
    OBVIOUS
  <1>1. CASE RunEffects
    BY <1>0, <1>1 DEF RunEffects, ResetLive, Subscribe
  <1>2. CASE RenderQueued
    BY <1>2 DEF RenderQueued
  <1>3. CASE RenderLocation
    BY <1>3 DEF RenderLocation
  <1>4. ASSUME NEW f \in LogFilter, EnterFilter(f) PROVE LogsInv'
    BY <1>0, <1>4 DEF EnterFilter
  <1>5. ASSUME NEW f \in LogFilter, OpenLink(f) PROVE LogsInv'
    BY <1>5 DEF OpenLink
  <1>6. CASE LineArrives
    <2> DEFINE added == Append(liveQueued, lineCount')
    <2>1. /\ lineCount' \in Nat /\ lineCount' = lineCount + 1
          /\ \A q \in Seq(1 .. lineCount) : q \in Seq(1 .. lineCount')
      BY <1>6 DEF LineArrives
    <2>2. /\ added \in Seq(1 .. lineCount') /\ Len(added) = Len(liveQueued) + 1
          /\ \A j \in DOMAIN added : added[j] = lineCount' \/ \E k \in DOMAIN liveQueued :
                                                                added[j] = liveQueued[k]
      BY <2>1
    <2>3. CASE \E f \in subscribed : lineCount' \in LinesOf[f]
      <3>1. liveQueued' = LastLines(added)
        BY <1>6, <2>3 DEF LineArrives
      <3> HIDE DEF added
      <3>0. /\ LastLines(added) \in Seq(1 .. lineCount')
            /\ \A i \in DOMAIN LastLines(added) :
                 \E j \in DOMAIN added : LastLines(added)[i] = added[j]
        BY <2>2, LastLinesAreLines
      <3>2. \A i \in DOMAIN liveQueued' : \/ liveQueued'[i] = lineCount'
                                          \/ \E k \in DOMAIN liveQueued : liveQueued'[i] = liveQueued[k]
        BY ONLY <2>2, <3>0, <3>1
      <3>3. liveQueued' \in Seq(1 .. lineCount')
        BY <3>0, <3>1
      <3>4. UNCHANGED <<effectsDue, subscribed, logFilter, liveLogs>>
        BY <1>6 DEF LineArrives
      <3> QED
        BY <2>1, <2>3, <3>2, <3>3, <3>4
    <2>4. CASE ~ \E f \in subscribed : lineCount' \in LinesOf[f]
      BY <1>6, <2>1, <2>4 DEF LineArrives
    <2> QED
      BY <2>3, <2>4
  <1>7. CASE UNCHANGED logsVars
    BY <1>7 DEF logsVars
  <1> QED
    BY <1>1, <1>2, <1>3, <1>4, <1>5, <1>6, <1>7 DEF LogsNext

ChoiceInv ==
    ~overtaken =>
      /\ filterQueued \subseteq {wanted}
      /\ "params" \in effectsDue => searchParams = wanted /\ filterQueued = {}
      /\ filterQueued # {} =>
           effectsDue = {} /\ searchParams = wanted /\ location = logFilter
      /\ effectsDue = {"filters"} => logFilter = wanted /\ searchParams = wanted
      /\ effectsDue = {} /\ filterQueued = {} =>
           location = wanted /\ logFilter \in {wanted, searchParams}

LEMMA ChoiceStep ==
    LogsInv /\ ChoiceInv /\ [LogsNext]_logsVars => ChoiceInv'
  <1> SUFFICES ASSUME LogsInv, ChoiceInv, [LogsNext]_logsVars PROVE ChoiceInv'
    OBVIOUS
  <1>0. effectsDue \in {{}, {"params"}, {"filters"}, {"params", "filters"}}
    BY DEF LogsInv
  <1> USE DEF ChoiceInv
  <1>1. CASE RunEffects
    BY <1>0, <1>1 DEF RunEffects, FromParams, ToParams
  <1>2. CASE RenderQueued
    <2>1. CASE filterQueued = {}
      BY <1>2, <2>1 DEF RenderQueued
    <2>2. ASSUME filterQueued # {}, ~overtaken PROVE ChoiceInv'
      <3>1. filterQueued = {wanted} /\ (CHOOSE f \in filterQueued : TRUE) = wanted
        BY <2>2
      <3>2. logFilter' = wanted /\ UNCHANGED <<location, searchParams, wanted>> /\ filterQueued' = {}
        BY <1>2, <2>2, <3>1 DEF RenderQueued
      <3>3. effectsDue' = (IF logFilter' = logFilter THEN {} ELSE {"filters"})
        BY <1>2 DEF RenderQueued
      <3> QED
        BY <2>2, <3>2, <3>3
    <2>3. CASE overtaken
      BY <1>2, <2>3 DEF RenderQueued
    <2> QED
      BY <2>1, <2>2, <2>3
  <1>3. CASE RenderLocation
    BY <1>3 DEF RenderLocation
  <1>4. ASSUME NEW f \in LogFilter, EnterFilter(f) PROVE ChoiceInv'
    BY <1>4 DEF EnterFilter
  <1>5. ASSUME NEW f \in LogFilter, OpenLink(f) PROVE ChoiceInv'
    BY <1>5 DEF OpenLink, LocationSettled
  <1>6. CASE LineArrives
    BY <1>6 DEF LineArrives
  <1>7. CASE UNCHANGED logsVars
    BY <1>7 DEF logsVars
  <1> QED
    BY <1>1, <1>2, <1>3, <1>4, <1>5, <1>6, <1>7 DEF LogsNext

LEMMA LogsInitially == LogsInit => LogsInv /\ ChoiceInv
  <1>1. <<>> \in Seq(1 .. 0)
    OBVIOUS
  <1> QED
    BY <1>1 DEF LogsInit, LogsInv, ChoiceInv

(* The live lines on the page are of the filters on the page               *)
(* (Logs.tsx, useWebSocket.ts).                                            *)
THEOREM LiveLinesFollowFilter == WebSpec => []LiveLinesMatch
  <1>1. WebInit => LogsInv
    BY LogsInitially DEF WebInit
  <1>2. LogsInv /\ [WebNext]_webVars => LogsInv'
    BY PartsStep, LogsStep
  <1>3. LogsInv => LiveLinesMatch
    BY DEF LogsInv, LiveLinesMatch, LogsSettled, LocationSettled
  <1> QED
    BY <1>1, <1>2, <1>3, PTL DEF WebSpec

(* When the two effects have come to rest, the filters and the address bar *)
(* are the choice that was made last, except for choices that overtook the *)
(* effects of the one before (Logs.tsx).                                   *)
THEOREM LastChoiceWins == WebSpec => []LinkIsApplied
  <1>1. WebInit => LogsInv /\ ChoiceInv
    BY LogsInitially DEF WebInit
  <1>2. LogsInv /\ ChoiceInv /\ [WebNext]_webVars => LogsInv' /\ ChoiceInv'
    BY PartsStep, LogsStep, ChoiceStep
  <1>3. LogsInv /\ ChoiceInv => LinkIsApplied
    BY DEF LogsInv, ChoiceInv, LinkIsApplied, LogsSettled, LocationSettled
  <1> QED
    BY <1>1, <1>2, <1>3, PTL DEF WebSpec

-----------------------------------------------------------------------------
(* Types, part by part.                                                    *)

ProcessesInv == ProcessesTypeOK /\ ConfirmationInv /\ PagesInv

LEMMA ProcessesTypes == ProcessesInv /\ [ProcessesNext]_processesVars => ProcessesInv'
  <1> SUFFICES ASSUME ProcessesInv, [ProcessesNext]_processesVars PROVE ProcessesInv'
    OBVIOUS
  <1>1. ConfirmationInv' /\ PagesInv'
    BY ConfirmationStep, PagesStep DEF ProcessesInv
  <1>2. procPageQueued' \in Nat \ {0} /\ procPage' \in Nat \ {0}
    <2>1. procPageQueued' \in Nat \ {0}
      BY <1>1 DEF PagesInv
    <2>2. procPage' \in {procPage, procPageQueued, procPageQueued'}
      BY DEF ProcessesNext, ProcessesFetched, ProcessesFetchFails, SortHeader, SearchFor,
             PreviousPage, NextPage, TurnTo, Choose, Confirm, Cancel, PostSucceeds, PostFails,
             RerenderProcesses, processesVars, Render
    <2> QED
      BY <2>1, <2>2 DEF ProcessesInv, ProcessesTypeOK
  <1>3. busy' \in BOOLEAN
    BY DEF ProcessesNext, ProcessesFetched, ProcessesFetchFails, SortHeader, SearchFor,
           PreviousPage, NextPage, TurnTo, Choose, Confirm, Cancel, PostSucceeds, PostFails,
           RerenderProcesses, processesVars, Render, Pending, ProcessesInv, ProcessesTypeOK
  <1>3a. \A n \in DOMAIN posts : posts[n].action \in ActionKind
    <2>1. posts \in Seq(Post)
      BY DEF ProcessesInv, ConfirmationInv
    <2>2. \A n \in DOMAIN posts : posts[n] \in Post
      BY <2>1
    <2> QED
      BY <2>2 DEF Post
  <1>4. actionNotice' \in ActionKind \cup {""}
    BY <1>3a DEF ProcessesNext, ProcessesFetched, ProcessesFetchFails, SortHeader, SearchFor,
           PreviousPage, NextPage, TurnTo, Choose, Confirm, Cancel, PostSucceeds, PostFails,
           RerenderProcesses, processesVars, choiceVars, ProcessesInv, ProcessesTypeOK
  <1>5. /\ procs' \in Snapshots /\ procsQuery' \in {"loading", "error", "ok"}
        /\ sortKey' \in SortKey /\ sortDir' \in {"asc", "desc"} /\ search' \in SearchTerm
    BY DEF ProcessesNext, ProcessesFetched, ProcessesFetchFails, SortHeader, handleSort, SearchFor,
           PreviousPage, NextPage, TurnTo, Choose, Confirm, Cancel, PostSucceeds, PostFails,
           RerenderProcesses, processesVars, listVars, ProcessesInv, ProcessesTypeOK
  <1>6. /\ posts' \in Seq(Post) /\ mutation' \in [ActionKind -> 0 .. Len(posts')]
        /\ selectedProcess' \in Row \cup {NoRow} /\ selectedAction' \in ActionKind
    BY <1>1 DEF ConfirmationInv
  <1> QED
    BY <1>1, <1>2, <1>3, <1>4, <1>5, <1>6 DEF ProcessesInv, ProcessesTypeOK, Post

LiveTypesInv == LiveInv /\ LiveTypeOK

LEMMA LiveTypes == LiveTypesInv /\ [LiveNext]_liveVars => LiveTypesInv'
  <1> SUFFICES ASSUME LiveTypesInv, [LiveNext]_liveVars PROVE LiveTypesInv'
    OBVIOUS
  <1>1. LiveInv'
    BY LiveStep DEF LiveTypesInv
  <1>2. shouldReconnect' \in BOOLEAN
    BY DEF LiveNext, ReconnectIsDue, connectWS, NewSocket, onopen, ServerCloses, onclose, onmessage,
           Broadcast, Unmount, Mount, AgentChanges, HealthFetched, liveVars, socketVars,
           LiveTypesInv, LiveTypeOK
  <1>3. liveStatus' \in {"connected", "disconnected"}
    BY DEF LiveNext, ReconnectIsDue, onopen, ServerCloses, onclose, onmessage, Notify,
           Broadcast, Unmount, Mount, AgentChanges, HealthFetched, liveVars, socketVars,
           LiveTypesInv, LiveTypeOK
  <1>4. agentUp' \in BOOLEAN /\ agentStatus' \in BOOLEAN
    BY DEF LiveNext, ReconnectIsDue, onopen, ServerCloses, onclose, onmessage,
           Broadcast, Unmount, Mount, AgentChanges, HealthFetched, liveVars, agentVars,
           LiveTypesInv, LiveTypeOK
  <1> QED
    BY <1>1, <1>2, <1>3, <1>4
       DEF LiveTypesInv, LiveTypeOK, LiveInv, SocketInv, KeptInv, TimersInv

EventsTypesInv == EventsInv /\ EventsTypeOK /\ eventsPageQueued \in 1 .. TotalEventPages

LEMMA EventsTypes == EventsTypesInv /\ [EventsNext]_eventsVars => EventsTypesInv'
  <1> SUFFICES ASSUME EventsTypesInv, [EventsNext]_eventsVars PROVE EventsTypesInv'
    OBVIOUS
  <1>1. EventsInv' /\ eventsPageQueued' \in 1 .. TotalEventPages'
    BY EventsStep, EventPagesStep DEF EventsTypesInv
  <1>2. eventsPageQueued' \in Nat \ {0} /\ eventsPage' \in Nat \ {0}
    <2>1. eventsPageQueued' \in Nat \ {0}
      BY <1>1
    <2>2. eventsPage' \in {eventsPage, eventsPageQueued, eventsPageQueued'}
      BY DEF EventsNext, RecordEvent, AskEvents, AnswerEvents, EventsArrive, EventsFail,
             setFilterType, PreviousEvents, NextEvents, TurnEventsTo, RerenderEvents, RenderEvents,
             eventsVars
    <2> QED
      BY <2>1, <2>2 DEF EventsTypesInv, EventsTypeOK
  <1>3. recorded' \subseteq Event
    BY DEF EventsNext, RecordEvent, AskEvents, AnswerEvents, EventsArrive, EventsFail,
           setFilterType, PreviousEvents, NextEvents, TurnEventsTo, RerenderEvents,
           eventsVars, EventsTypesInv, EventsTypeOK
  <1>4. eventQueries' \in [Filter -> QueryType(SUBSET Event)]
    <2>0. filterType \in Filter /\ eventQueries \in [Filter -> QueryType(SUBSET Event)]
      BY DEF EventsTypesInv, EventsTypeOK
    <2>1. ASSUME NEW f \in Filter
          PROVE  /\ Invalidate(eventQueries[f]) \in QueryType(SUBSET Event)
                 /\ Answer(eventQueries[f], recorded \cap Matches(f)) \in QueryType(SUBSET Event)
                 /\ Receive(eventQueries[f]) \in QueryType(SUBSET Event)
                 /\ Fail(eventQueries[f]) \in QueryType(SUBSET Event)
      <3>1. recorded \cap Matches(f) \in SUBSET Event /\ NoData \in SUBSET Event
        BY DEF Matches, NoData
      <3> QED
        BY <2>0, <3>1, QueryKeepsType
    <2>2. CASE AskEvents
      BY <2>0, <2>1, <2>2 DEF AskEvents, EventsKey
    <2>3. ASSUME NEW f \in Filter, AnswerEvents(f) \/ EventsArrive(f) \/ EventsFail(f)
          PROVE  eventQueries' \in [Filter -> QueryType(SUBSET Event)]
      BY <2>0, <2>1, <2>3 DEF AnswerEvents, EventsArrive, EventsFail
    <2>4. CASE UNCHANGED eventQueries
      BY <2>0, <2>4
    <2> QED
      BY <2>2, <2>3, <2>4 DEF EventsNext, RecordEvent, setFilterType, PreviousEvents, NextEvents,
                              TurnEventsTo, RerenderEvents, eventsVars
  <1> QED
    BY <1>1, <1>2, <1>3, <1>4 DEF EventsTypesInv, EventsTypeOK, EventsInv

BlockPost == [n : Nat, mutation : Mutation, ip : Address, queued : BOOLEAN]
BlockWrite == [mutation : Mutation, ip : Address]

BlocksTypesInv ==
    /\ table \subseteq Address /\ writes \in Seq(BlockWrite)
    /\ blockedQuery \in QueryType(SUBSET Address)
    /\ blockIp \in Address \cup {"", Typo}
    /\ blockPosts \subseteq BlockPost /\ sentPosts \in Nat
    /\ \A p \in blockPosts : p.n \in 1 .. sentPosts
    /\ lastPost \in [Mutation -> 0 .. sentPosts]
    /\ outcome \in [Mutation -> {"idle", "pending", "success", "error"}]

LEMMA BlocksTypes == BlocksTypesInv /\ [BlocksNext]_blocksVars => BlocksTypesInv'
  <1> SUFFICES ASSUME BlocksTypesInv, [BlocksNext]_blocksVars PROVE BlocksTypesInv'
    OBVIOUS
  <1>a. /\ table \subseteq Address /\ blockIp \in Address \cup {"", Typo}
        /\ blockedQuery \in QueryType(SUBSET Address)
    BY DEF BlocksTypesInv
  <1>b. writes \in Seq(BlockWrite)
    BY DEF BlocksTypesInv
  <1>c. /\ blockPosts \subseteq BlockPost /\ sentPosts \in Nat
        /\ \A p \in blockPosts : p.n \in 1 .. sentPosts
    BY DEF BlocksTypesInv
  <1>d. lastPost \in [Mutation -> 0 .. sentPosts]
    BY DEF BlocksTypesInv
  <1>e. outcome \in [Mutation -> {"idle", "pending", "success", "error"}]
    BY DEF BlocksTypesInv
  <1>0. {} \in SUBSET Address /\ NoData = {} /\ blocked \subseteq Address
    BY <1>a DEF NoData, blocked, QueryType
  <1>1. ASSUME NEW m \in Mutation, NEW ip \in Address, Mutate(m, ip),
               UNCHANGED <<table, writes, blockedQuery>>, blockIp' \in {blockIp, ""}
        PROVE  BlocksTypesInv'
    <2> DEFINE post == [n |-> sentPosts + 1, mutation |-> m, ip |-> ip, queued |-> FALSE]
    <2>1. post \in BlockPost /\ post.n = sentPosts + 1
      <3>1. sentPosts + 1 \in Nat
        BY <1>c
      <3> QED
        BY <3>1, Zenon DEF BlockPost
    <2>2. /\ sentPosts' = sentPosts + 1 /\ blockPosts' = blockPosts \cup {post}
          /\ lastPost' = [lastPost EXCEPT ![m] = sentPosts + 1]
          /\ outcome' = [outcome EXCEPT ![m] = "pending"]
      BY <1>1 DEF Mutate
    <2> HIDE DEF post
    <2>3. /\ blockPosts' \subseteq BlockPost /\ sentPosts' \in Nat
          /\ \A p \in blockPosts' : p.n \in 1 .. sentPosts'
      BY <1>c, <2>1, <2>2
    <2>4. lastPost' \in [Mutation -> 0 .. sentPosts']
      BY <1>c, <1>d, <2>2
    <2>5. outcome' \in [Mutation -> {"idle", "pending", "success", "error"}]
      BY <1>e, <2>2
    <2> QED
      BY <1>1, <1>a, <1>b, <2>3, <2>4, <2>5 DEF BlocksTypesInv
  <1>2. ASSUME NEW text \in Address \cup {Typo}, EnterAddress(text) PROVE BlocksTypesInv'
    BY <1>2 DEF EnterAddress, BlocksTypesInv
  <1>3. CASE handleBlock
    BY <1>1, <1>3 DEF handleBlock, CanSubmit, isIpValid, Mutation
  <1>4. ASSUME NEW ip \in Address, BlockSource(ip) \/ Unblock(ip) PROVE BlocksTypesInv'
    BY <1>1, <1>4 DEF BlockSource, Unblock, Mutation
  <1>5. ASSUME NEW p \in blockPosts, HandlePost(p) PROVE BlocksTypesInv'
    <2> DEFINE handled == [p EXCEPT !.queued = TRUE]
               statement == [mutation |-> p.mutation, ip |-> p.ip]
    <2>1. /\ handled \in BlockPost /\ handled.n = p.n /\ statement \in BlockWrite
      <3>1. p \in BlockPost
        BY <1>c
      <3> QED
        BY <3>1 DEF BlockPost, BlockWrite
    <2>2. /\ writes' = Append(writes, statement)
          /\ blockPosts' = (blockPosts \ {p}) \cup {handled}
          /\ UNCHANGED <<table, blockedQuery, blockIp, lastPost, outcome, sentPosts>>
      BY <1>5 DEF HandlePost
    <2> HIDE DEF handled, statement
    <2>3. writes' \in Seq(BlockWrite)
      BY <1>b, <2>1, <2>2
    <2>4. blockPosts' \subseteq BlockPost /\ \A x \in blockPosts' : x.n \in 1 .. sentPosts
      BY <1>c, <2>1, <2>2
    <2> QED
      BY <2>2, <2>3, <2>4 DEF BlocksTypesInv
  <1>6. ASSUME NEW p \in blockPosts, NEW result \in {"success", "error"}, SettlePost(p, result),
               UNCHANGED <<table, writes>>, blockedQuery' \in QueryType(SUBSET Address)
        PROVE  BlocksTypesInv'
    <2>1. blockPosts' = blockPosts \ {p} /\ UNCHANGED <<blockIp, lastPost, sentPosts>>
      BY <1>6 DEF SettlePost
    <2>2. outcome' \in [Mutation -> {"idle", "pending", "success", "error"}]
      <3>1. CASE lastPost[p.mutation] = p.n
        BY <1>6, <1>e, <3>1 DEF SettlePost
      <3>2. CASE lastPost[p.mutation] # p.n
        BY <1>6, <1>e, <3>2 DEF SettlePost
      <3> QED
        BY <3>1, <3>2
    <2> QED
      BY <1>6, <1>a, <1>b, <1>c, <1>d, <2>1, <2>2 DEF BlocksTypesInv
  <1>7. /\ Ask(blockedQuery) \in QueryType(SUBSET Address)
        /\ Invalidate(blockedQuery) \in QueryType(SUBSET Address)
        /\ Answer(blockedQuery, table) \in QueryType(SUBSET Address)
        /\ Receive(blockedQuery) \in QueryType(SUBSET Address)
        /\ Fail(blockedQuery) \in QueryType(SUBSET Address)
    BY <1>0, <1>a, QueryKeepsType
  <1>8. ASSUME NEW p \in blockPosts, PostAnswered(p) \/ PostLost(p) PROVE BlocksTypesInv'
    <2>1. /\ UNCHANGED <<table, writes>> /\ blockedQuery' \in QueryType(SUBSET Address)
          /\ SettlePost(p, "success") \/ SettlePost(p, "error")
      BY <1>7, <1>8, <1>a DEF PostAnswered, PostLost
    <2> QED
      BY <1>6, <2>1
  <1>9. CASE CommitWrite
    <2>1. writes # <<>> /\ writes' = Tail(writes) /\ UNCHANGED <<blockedQuery, formVars>>
      BY <1>9 DEF CommitWrite
    <2>2. writes' \in Seq(BlockWrite) /\ Head(writes) \in BlockWrite
      BY <1>b, <2>1
    <2>3. table' \subseteq Address
      BY <1>9, <1>a, <2>2 DEF CommitWrite, BlockWrite
    <2> QED
      BY <2>1, <2>2, <2>3 DEF formVars, BlocksTypesInv
  <1>10. CASE AnswerBlocked \/ PollBlocked \/ BlockedArrive \/ BlockedFail
    <2>1. blockedQuery' \in QueryType(SUBSET Address) /\ UNCHANGED <<table, writes, formVars>>
      BY <1>7, <1>10 DEF AnswerBlocked, PollBlocked, BlockedArrive, BlockedFail
    <2> QED
      BY <2>1 DEF formVars, BlocksTypesInv
  <1>11. CASE UNCHANGED blocksVars
    BY <1>11 DEF blocksVars, BlocksTypesInv
  <1> QED
    BY <1>2, <1>3, <1>4, <1>5, <1>8, <1>9, <1>10, <1>11 DEF BlocksNext

LEMMA IncidentsTypes == IncidentsTypeOK /\ [IncidentsNext]_incidentsVars => IncidentsTypeOK'
  <1> SUFFICES ASSUME IncidentsTypeOK, [IncidentsNext]_incidentsVars PROVE IncidentsTypeOK'
    OBVIOUS
  <1> USE DEF IncidentsTypeOK
  <1> DEFINE Note == [incident : Incident, text : SUBSET Incident,
                      state : {"pending", "success", "error"}]
             Id == Incident \cup {NoIncident}
  <1>1. \A l \in Lists, i \in Id : Displayed(l, i) \in Id
    BY DEF Lists, Listing, Displayed
  <1>2. ASSUME NEW l \in Lists, NEW i \in Id, NEW note \in SUBSET Incident,
               CommitIncidents(l, i, note)
        PROVE  /\ incidents' \in Lists
               /\ {selectedIncidentId', selectedQueued'} \subseteq Incident \cup {NoIncident}
               /\ incidentNote' \subseteq Incident /\ noteQueued' \subseteq Incident
    BY <1>1, <1>2 DEF CommitIncidents, Reselect, ClearNote
  <1>3. selectedIncident \in Id
    BY <1>1 DEF selectedIncident
  <1>4. CASE IncidentsChange \/ RerenderIncidents
    BY <1>2, <1>4 DEF IncidentsChange, RerenderIncidents
  <1>5. ASSUME NEW i \in Incident, setSelectedIncidentId(i) PROVE IncidentsTypeOK'
    BY <1>2, <1>5 DEF setSelectedIncidentId
  <1>6. CASE setIncidentNote
    BY <1>2, <1>3, <1>6 DEF setIncidentNote
  <1>7. ASSUME NEW n \in DOMAIN notesSent, NEW end \in {"pending", "success", "error"}
        PROVE  /\ [notesSent EXCEPT ![n].state = end] \in Seq(Note)
               /\ notesSent[n].incident \in Incident
    <2>0. notesSent \in Seq(Note)
      OBVIOUS
    <2> DEFINE note == [notesSent[n] EXCEPT !.state = end]
    <2> HIDE DEF Note, IncidentsTypeOK
    <2>1. n \in 1 .. Len(notesSent) /\ notesSent[n] \in Note
      BY <2>0
    <2>2. note \in Note /\ notesSent[n].incident \in Incident
      BY <2>1 DEF Note
    <2>3. [notesSent EXCEPT ![n].state = end] = [notesSent EXCEPT ![n] = note]
      OBVIOUS
    <2> HIDE DEF note
    <2>4. [notesSent EXCEPT ![n] = note] \in Seq(Note)
      BY <2>0, <2>1, <2>2
    <2> QED
      BY <2>2, <2>3, <2>4
  <1>8. ASSUME NEW n \in DOMAIN notesSent, NoteStored(n) PROVE IncidentsTypeOK'
    BY <1>2, <1>7, <1>8 DEF NoteStored
  <1>9. ASSUME NEW n \in DOMAIN notesSent, NoteFails(n) PROVE IncidentsTypeOK'
    BY <1>7, <1>9 DEF NoteFails, selectionVars
  <1>10. CASE handleAddIncidentNote
    <2>1. [incident |-> selectedIncident, text |-> incidentNote, state |-> "pending"] \in Note
      BY <1>3, <1>10 DEF handleAddIncidentNote
    <2> QED
      BY <1>10, <2>1 DEF handleAddIncidentNote, selectionVars
  <1>11. CASE handleIncidentStatus \/ StatusSettled \/ AskDetails
    BY <1>3, <1>11 DEF handleIncidentStatus, StatusSettled, AskDetails, DetailKey, selectionVars
  <1>12. ASSUME NEW i \in Incident, AnswerDetails(i) \/ DetailsFail(i) PROVE IncidentsTypeOK'
    BY <1>12 DEF AnswerDetails, DetailsFail, selectionVars
  <1>13. CASE UNCHANGED incidentsVars
    BY <1>13 DEF incidentsVars
  <1> QED
    BY <1>4, <1>5, <1>6, <1>8, <1>9, <1>10, <1>11, <1>12, <1>13 DEF IncidentsNext

AuditTypesInv == AuditInv /\ AuditTypeOK

LEMMA AuditTypes == AuditTypesInv /\ [AuditNext]_auditVars => AuditTypesInv'
  <1> SUFFICES ASSUME AuditTypesInv, [AuditNext]_auditVars PROVE AuditTypesInv'
    OBVIOUS
  <1> DEFINE Key == Trace \cup {AnyTrace}
  <1>1. AuditInv' /\ audited' \subseteq Entry
    BY AuditStep DEF AuditTypesInv, AuditTypeOK
  <1>2. selectedTraceId \in Key /\ auditQueries \in [Key -> QueryType(SUBSET Entry)]
    BY DEF AuditTypesInv, AuditTypeOK
  <1>3. ASSUME NEW t \in Key
        PROVE  /\ Ask(auditQueries[t]) \in QueryType(SUBSET Entry)
               /\ Answer(auditQueries[t], audited \cap OfTrace(t)) \in QueryType(SUBSET Entry)
               /\ Receive(auditQueries[t]) \in QueryType(SUBSET Entry)
               /\ Fail(auditQueries[t]) \in QueryType(SUBSET Entry)
    <2>1. audited \cap OfTrace(t) \in SUBSET Entry /\ NoData \in SUBSET Entry
      BY DEF OfTrace, NoData
    <2> QED
      BY <1>2, <2>1, QueryKeepsType
  <1>4. CASE AskAudit
    BY <1>1, <1>2, <1>3, <1>4 DEF AskAudit, AuditKey, AuditTypesInv, AuditTypeOK, AuditInv
  <1>5. ASSUME NEW t \in Key, AnswerAudit(t) \/ AuditArrives(t) \/ AuditFails(t)
        PROVE  AuditTypesInv'
    BY <1>1, <1>2, <1>3, <1>5
       DEF AnswerAudit, AuditArrives, AuditFails, AuditTypesInv, AuditTypeOK, AuditInv
  <1>6. CASE UNCHANGED auditQueries
    BY <1>1, <1>2, <1>6 DEF AuditTypesInv, AuditTypeOK, AuditInv
  <1> QED
    BY <1>4, <1>5, <1>6
       DEF AuditNext, AppendAudit, ShowTrailOfEvent, ShowTrailOfIncident, ResetTrail,
           setSelectedTraceId, auditVars

SettingsTypesInv ==
    /\ SettingsInv /\ card \in Card /\ edited \in BOOLEAN /\ unsure \in BOOLEAN
    /\ \A q \in requests : q.n \in 1 .. requestCount

LEMMA SettingsTypes == SettingsTypesInv /\ [SettingsNext]_settingsVars => SettingsTypesInv'
  <1> SUFFICES ASSUME SettingsTypesInv, [SettingsNext]_settingsVars PROVE SettingsTypesInv'
    OBVIOUS
  <1>1. SettingsInv' /\ requestCount \in Nat /\ requests \subseteq SettingsRequest
    BY SettingsStep DEF SettingsTypesInv, SettingsInv
  <1>2. card' \in Card
    BY DEF SettingsNext, SettingsArrive, SettingsFail, AnswerSettings, EnterToken, EnterPolicy,
           SaveMode, SaveTelegram, SaveSlack, DisconnectTelegram, DisconnectSlack, SendTest, Submit,
           HandleSave, Saved, SaveRefused, AnswerLost, Tested, Answered, settingsVars,
           SettingsTypesInv
  <1>3. edited' \in BOOLEAN
    BY DEF SettingsNext, SettingsArrive, SettingsFail, AnswerSettings, EnterToken, EnterPolicy,
           SaveMode, SaveTelegram, SaveSlack, DisconnectTelegram, DisconnectSlack, SendTest, Submit,
           HandleSave, Saved, SavedMode, SavedIntegration, Disconnected, Filled, SaveRefused,
           AnswerLost, Tested, Fill, formState, settingsVars, SettingsTypesInv
  <1>4. unsure' \in BOOLEAN
    BY DEF SettingsNext, SettingsArrive, SettingsFail, AnswerSettings, EnterToken, EnterPolicy,
           SaveMode, SaveTelegram, SaveSlack, DisconnectTelegram, DisconnectSlack, SendTest, Submit,
           HandleSave, Saved, SaveRefused, AnswerLost, Tested, mutationState, settingsVars,
           SettingsTypesInv
  <1>5. \A q \in requests' : q.n \in 1 .. requestCount'
    <2>0. \A q \in requests : q.n \in 1 .. requestCount
      BY DEF SettingsTypesInv
    <2>1. ASSUME NEW kind, NEW token, NEW policy, Submit(kind, token, policy)
          PROVE  \A q \in requests' : q.n \in 1 .. requestCount'
      BY <1>1, <2>0, <2>1 DEF Submit
    <2>2. ASSUME NEW q \in requests, HandleSave(q)
          PROVE  \A r \in requests' : r.n \in 1 .. requestCount'
      <3>1. [q EXCEPT !.reply = {Stored(q)}].n = q.n
        BY <1>1 DEF SettingsRequest
      <3> QED
        BY <2>0, <2>2, <3>1 DEF HandleSave
    <2>3. CASE requests' \subseteq requests /\ requestCount' = requestCount
      BY <2>0, <2>3
    <2>4. ASSUME NEW q, Answered(q) PROVE requests' \subseteq requests /\ requestCount' = requestCount
      BY <2>4 DEF Answered
    <2> QED
      BY <2>1, <2>2, <2>3, <2>4
         DEF SettingsNext, SettingsArrive, SettingsFail, AnswerSettings, EnterToken, EnterPolicy,
             SaveMode, SaveTelegram, SaveSlack, DisconnectTelegram, DisconnectSlack, SendTest,
             Saved, SaveRefused, AnswerLost, Tested, mutationState, settingsVars
  <1> QED
    BY <1>1, <1>2, <1>3, <1>4, <1>5 DEF SettingsTypesInv

LogsTypesInv == LogsInv /\ LogsTypeOK

LEMMA LogsTypes == LogsTypesInv /\ [LogsNext]_logsVars => LogsTypesInv'
  <1> SUFFICES ASSUME LogsTypesInv, [LogsNext]_logsVars PROVE LogsTypesInv'
    OBVIOUS
  <1>1. LogsInv'
    BY LogsStep DEF LogsTypesInv
  <1>2. /\ {location', searchParams', logFilter', wanted'} \subseteq LogFilter
        /\ filterQueued' \subseteq LogFilter /\ subscribed' \subseteq LogFilter
    BY DEF LogsNext, RunEffects, FromParams, ToParams, Subscribe, RenderQueued, RenderLocation,
           EnterFilter, OpenLink, LineArrives, logsVars, LogsTypesInv, LogsTypeOK
  <1>3. overtaken' \in BOOLEAN
    BY DEF LogsNext, RunEffects, RenderQueued, RenderLocation, EnterFilter, OpenLink, LineArrives,
           logsVars, LogsTypesInv, LogsTypeOK
  <1> QED
    BY <1>1, <1>2, <1>3 DEF LogsTypesInv, LogsTypeOK, LogsInv

PanelData == {NoData} \cup {{n} : n \in 1 .. MaxRecords}

LEMMA DashboardTypes == DashboardTypeOK /\ [DashboardNext]_dashboardVars => DashboardTypeOK'
  <1> SUFFICES ASSUME DashboardTypeOK, [DashboardNext]_dashboardVars PROVE DashboardTypeOK'
    OBVIOUS
  <1>1. /\ newest \in [Recorded -> 0 .. MaxRecords] /\ aged \in BOOLEAN
        /\ outages \in 0 .. MaxOutages
        /\ panels \in [Source -> QueryType(PanelData)]
    BY DEF DashboardTypeOK, PanelData
  <1>2. ASSUME NEW t \in Recorded, AddRecord(t) PROVE DashboardTypeOK'
    <2>1. newest[t] + 1 \in 0 .. MaxRecords
      BY <1>1, <1>2, DashboardAssumption DEF AddRecord, Recorded
    <2>2. newest' \in [Recorded -> 0 .. MaxRecords]
      BY <1>1, <1>2, <2>1 DEF AddRecord
    <2>3. aged' \in BOOLEAN
      BY <1>2 DEF AddRecord
    <2> QED
      BY <1>1, <1>2, <2>2, <2>3 DEF AddRecord, DashboardTypeOK, PanelData
  <1>3. ASSUME NEW s \in Source
        PROVE  /\ Ask(panels[s]) \in QueryType(PanelData)
               /\ Answer(panels[s], Held(s)) \in QueryType(PanelData)
               /\ Receive(panels[s]) \in QueryType(PanelData)
               /\ Fail(panels[s]) \in QueryType(PanelData)
    <2>1. TableOf(s) \in Recorded
      BY DEF TableOf, Source, Recorded
    <2>2. Held(s) \in PanelData
      <3>1. newest[TableOf(s)] = 0 \/ newest[TableOf(s)] \in 1 .. MaxRecords
        BY <1>1, <2>1, DashboardAssumption
      <3> QED
        BY <3>1 DEF Held, PanelData
    <2>3. NoData \in PanelData
      BY DEF PanelData
    <2> QED
      BY <1>1, <2>2, <2>3, QueryKeepsType
  <1>4. ASSUME NEW s \in Source, PanelGoesOn(s) \/ PanelFails(s) PROVE DashboardTypeOK'
    <2>1. panels' \in [Source -> QueryType(PanelData)]
      BY <1>1, <1>3, <1>4 DEF PanelGoesOn, AnswerPanel, PollPanel, PanelArrives, PanelFails
    <2>2. newest' = newest /\ aged' = aged /\ outages' \in 0 .. MaxOutages
      BY <1>1, <1>4, DashboardAssumption
         DEF PanelGoesOn, AnswerPanel, PollPanel, PanelArrives, PanelFails
    <2> QED
      BY <1>1, <2>1, <2>2 DEF DashboardTypeOK, PanelData
  <1>5. CASE UNCHANGED dashboardVars
    BY <1>5 DEF dashboardVars, DashboardTypeOK
  <1>6. CASE HourPasses
    BY <1>1, <1>6 DEF HourPasses, DashboardTypeOK, PanelData
  <1> QED
    BY <1>2, <1>4, <1>5, <1>6 DEF DashboardNext

TypesInv ==
    /\ part \in Part
    /\ ProcessesInv /\ LiveTypesInv /\ EventsTypesInv /\ BlocksTypesInv /\ IncidentsTypeOK
    /\ AuditTypesInv /\ SettingsTypesInv /\ LogsTypesInv /\ DashboardTypeOK

LEMMA TypesInitially == WebInit => TypesInv
  <1> SUFFICES ASSUME WebInit PROVE TypesInv
    OBVIOUS
  <1>1. /\ ProcessesInit /\ LiveInit /\ EventsInit /\ BlocksInit /\ IncidentsInit
        /\ AuditInit /\ SettingsInit /\ LogsInit /\ DashboardInit /\ part \in Part
    BY DEF WebInit
  <1>2. \A D : NoData \in D =>
          NewQuery \in QueryType(D) /\ Ask(NewQuery) \in QueryType(D)
    BY DEF NewQuery, Ask, QueryType
  <1>3. \A S : <<>> \in Seq(S) /\ Len(<<>>) = 0
    OBVIOUS
  <1>4. ProcessesInv
    <2>1. ConfirmationInv /\ PagesInv
      BY ConfirmationInitially, PagesInitially
    <2>2. posts \in Seq(Post) /\ mutation \in [ActionKind -> 0 .. Len(posts)]
      BY <2>1 DEF ConfirmationInv
    <2>3. /\ procs \in Snapshots /\ procsQuery \in {"loading", "error", "ok"}
          /\ sortKey \in SortKey /\ sortDir \in {"asc", "desc"} /\ search \in SearchTerm
      <3>1. CASE procs = {}
        BY ONLY <1>1, <3>1 DEF ProcessesInit
      <3>2. CASE procs # {}
        BY ONLY <1>1, <3>2 DEF ProcessesInit
      <3> QED
        BY ONLY <3>1, <3>2
    <2>5. /\ procPage \in Nat \ {0} /\ procPageQueued \in Nat \ {0}
          /\ selectedProcess \in Row \cup {NoRow}
      <3>1. procPage = 1 /\ procPageQueued = 1 /\ selectedProcess = NoRow
        BY ONLY <1>1, Zenon DEF ProcessesInit
      <3> QED
        BY ONLY <3>1
    <2>6. selectedAction \in ActionKind /\ actionNotice \in ActionKind \cup {""}
      BY ONLY <1>1 DEF ProcessesInit, ActionKind
    <2>4. busy \in BOOLEAN
      BY <1>1 DEF ProcessesInit
    <2> QED
      BY <2>1, <2>2, <2>3, <2>4, <2>5, <2>6 DEF ProcessesInv, ProcessesTypeOK, Post
  <1>5. LiveTypesInv
    <2>1. LiveInv
      BY <1>1, LiveInitially
    <2> QED
      BY <1>1, <2>1 DEF LiveInit, LiveTypesInv, LiveTypeOK, LiveInv, SocketInv, KeptInv, TimersInv
  <1>6. EventsTypesInv
    <2>1. EventsInv /\ eventsPageQueued \in 1 .. TotalEventPages
      BY PagesInitially
    <2> QED
      BY <1>1, <1>2, <2>1 DEF EventsInit, EventsTypesInv, EventsTypeOK, EventsInv, NoData
  <1>7. BlocksTypesInv
    <2>1. /\ table \subseteq Address /\ writes = <<>> /\ blockIp = "" /\ blockPosts = {}
          /\ sentPosts = 0
      BY ONLY <1>1 DEF BlocksInit
    <2>4. lastPost \in [Mutation -> 0 .. 0]
      <3>1. lastPost = [m \in Mutation |-> 0]
        BY ONLY <1>1, Zenon DEF BlocksInit
      <3> QED
        BY ONLY <3>1
    <2>5. outcome \in [Mutation -> {"idle", "pending", "success", "error"}]
      BY ONLY <1>1 DEF BlocksInit
    <2>2. blockedQuery \in QueryType(SUBSET Address)
      BY <1>1, <1>2 DEF BlocksInit, NoData
    <2>3. writes \in Seq(BlockWrite)
      BY <1>3, <2>1
    <2> QED
      BY <2>1, <2>2, <2>3, <2>4, <2>5 DEF BlocksTypesInv
  <1>8. IncidentsTypeOK
    <2>1. <<>> \in Lists
      BY SecurityIncidentsAssumption DEF Lists
    <2> QED
      BY <1>1, <1>3, <2>1 DEF IncidentsInit, IncidentsTypeOK
  <1>9. AuditTypesInv
    <2>1. AuditInv
      BY <1>1, <1>2 DEF AuditInit, AuditInv, NoData
    <2> QED
      BY <1>1, <1>2, <2>1 DEF AuditInit, AuditTypesInv, AuditTypeOK, NoData
  <1>10. SettingsTypesInv
    BY <1>1, SettingsInitially DEF SettingsInit, SettingsTypesInv
  <1>11. LogsTypesInv
    <2>1. LogsInv
      BY <1>1, LogsInitially
    <2> QED
      BY <1>1, <1>3, <2>1, LogViewAssumption DEF LogsInit, LogsTypesInv, LogsTypeOK, LogsInv
  <1>12. DashboardTypeOK
    <2>1. newest \in [Recorded -> 0 .. MaxRecords] /\ outages \in 0 .. MaxOutages
      BY <1>1, DashboardAssumption DEF DashboardInit
    <2>2. panels \in [Source -> QueryType({NoData} \cup {{n} : n \in 1 .. MaxRecords})]
      BY <1>1, <1>2 DEF DashboardInit
    <2>3. aged \in BOOLEAN
      BY <1>1 DEF DashboardInit
    <2> QED
      BY <2>1, <2>2, <2>3 DEF DashboardTypeOK
  <1> QED
    BY <1>1, <1>4, <1>5, <1>6, <1>7, <1>8, <1>9, <1>10, <1>11, <1>12 DEF TypesInv

LEMMA TypesAreTypes == TypesInv => WebTypeOK
  <1> SUFFICES ASSUME TypesInv PROVE WebTypeOK
    OBVIOUS
  <1>1. /\ part \in Part /\ ProcessesTypeOK /\ LiveTypeOK /\ EventsTypeOK /\ IncidentsTypeOK
        /\ AuditTypeOK /\ LogsTypeOK /\ DashboardTypeOK
    BY DEF TypesInv, ProcessesInv, LiveTypesInv, EventsTypesInv, AuditTypesInv, LogsTypesInv
  <1>2. BlocksTypeOK
    <2>1. blockPosts \subseteq [n : 1 .. sentPosts, mutation : Mutation, ip : Address,
                                queued : BOOLEAN]
      BY DEF TypesInv, BlocksTypesInv, BlockPost
    <2> QED
      BY <2>1 DEF TypesInv, BlocksTypesInv, BlocksTypeOK, BlockWrite
  <1>3. SettingsTypeOK
    <2>1. requests \subseteq [n : 1 .. requestCount, kind : Kind, token : Token \cup {NoToken},
                              policy : Policy, reply : SettingsData]
      BY DEF TypesInv, SettingsTypesInv, SettingsInv, SettingsRequest
    <2> QED
      BY <2>1 DEF TypesInv, SettingsTypesInv, SettingsInv, SettingsTypeOK, SettingsData
  <1> QED
    BY <1>1, <1>2, <1>3 DEF WebTypeOK

(* Every variable of the interface keeps its type.                         *)
THEOREM WebTypesCorrect == WebSpec => []WebTypeOK
  <1>1. TypesInv /\ [WebNext]_webVars => TypesInv'
    BY PartsStep, ProcessesTypes, LiveTypes, EventsTypes, BlocksTypes, IncidentsTypes, AuditTypes,
       SettingsTypes, LogsTypes, DashboardTypes DEF TypesInv
  <1> QED
    BY <1>1, TypesInitially, TypesAreTypes, PTL DEF WebSpec
=============================================================================
