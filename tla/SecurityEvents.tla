--------------------------- MODULE SecurityEvents ----------------------------
(***************************************************************************)
(* The events of the security page (web/src/pages/Security.tsx,            *)
(* hooks/useSecurity.ts): a table filtered by type and paginated, fetched  *)
(* every ten seconds under a key that holds the filter.                    *)
(***************************************************************************)
EXTENDS Paging, QueryCache

CONSTANTS Event,
          EventType,     \* EVENT_TYPES
          AllTypes,      \* the empty filter
          TypeOf,        \* the type of each event
          AgeOf,         \* the place of each event in the order of the server
          EventsPerPage

ASSUME SecurityEventsAssumption ==
    /\ AllTypes \notin EventType /\ IsFiniteSet(Event)
    /\ TypeOf \in [Event -> EventType] /\ AgeOf \in [Event -> Int]
    /\ EventsPerPage \in Nat \ {0}

Filter == EventType \cup {AllTypes}

VARIABLES
    recorded,         \* the table security_events of the server
    filterType,
    eventQueries,     \* the query of each filter
    eventsPage,       \* the page that is rendered
    eventsPageQueued  \* its value after the updates that are queued

eventsVars == <<recorded, filterType, eventQueries, eventsPage, eventsPageQueued>>

EventsInit ==
    /\ recorded \in SUBSET Event
    /\ filterType = AllTypes
    /\ eventQueries = [f \in Filter |-> NewQuery]
    /\ eventsPage = 1 /\ eventsPageQueued = 1

Matches(f) == {e \in Event : f = AllTypes \/ TypeOf[e] = f}

-----------------------------------------------------------------------------
(* What is rendered.                                                       *)

KeyWithoutFilter == AllTypes
EventsKey == filterType

events == eventQueries[EventsKey].data
EventPlace == [e \in events |-> Cardinality({d \in events : AgeOf[d] < AgeOf[e]})]
TotalEventPages == PageCount(Cardinality(events), EventsPerPage)
EventsTable ==
    IF eventQueries[EventsKey].state = "success"
    THEN PageSlice(events, EventPlace, eventsPage, EventsPerPage) ELSE {}

RenderEvents(toFirst) ==
    /\ eventsPage' = eventsPageQueued
    /\ eventsPageQueued' =
         Effects(eventsPageQueued, toFirst, TotalEventPages, TotalEventPages')

-----------------------------------------------------------------------------
(* The server.                                                             *)

RecordEvent(e) ==
    /\ e \notin recorded
    /\ recorded' = recorded \cup {e}
    /\ UNCHANGED <<filterType, eventQueries, eventsPage, eventsPageQueued>>

AnswerEvents(f) ==
    /\ eventQueries[f].fetch = "asked"
    /\ eventQueries' = [eventQueries EXCEPT ![f] = Answer(@, recorded \cap Matches(f))]
    /\ UNCHANGED <<recorded, filterType, eventsPage, eventsPageQueued>>

-----------------------------------------------------------------------------
(* The query of the filter that is chosen is fetched when the page turns   *)
(* to it, by the interval, and after a block, an unblock or a change of an *)
(* incident (invalidateSecurityQueries); the last one also abandons a      *)
(* fetch that runs, if the filter has data.                                *)

AskEvents ==
    /\ eventQueries' = [eventQueries EXCEPT ![EventsKey] = Invalidate(@)]
    /\ UNCHANGED <<recorded, filterType, eventsPage, eventsPageQueued>>

EventsArrive(f) ==
    /\ eventQueries[f].fetch = "answered"
    /\ eventQueries' = [eventQueries EXCEPT ![f] = Receive(@)]
    /\ UNCHANGED <<recorded, filterType>>
    /\ RenderEvents(FALSE)

EventsFail(f) ==
    /\ eventQueries[f].fetch # "idle"
    /\ eventQueries' = [eventQueries EXCEPT ![f] = Fail(@)]
    /\ UNCHANGED <<recorded, filterType>>
    /\ RenderEvents(FALSE)

-----------------------------------------------------------------------------
(* The operator.                                                           *)

setFilterType(f) ==
    /\ f # filterType
    /\ filterType' = f
    /\ UNCHANGED <<recorded, eventQueries>>
    /\ RenderEvents(TRUE)

EventsHavePages == /\ eventQueries[EventsKey].state = "success"
                   /\ Cardinality(events) > EventsPerPage
TurnEventsTo(n) == /\ eventsPage' = n /\ eventsPageQueued' = n
                   /\ UNCHANGED <<recorded, filterType, eventQueries>>
PreviousEvents == /\ EventsHavePages /\ eventsPage # 1
                  /\ TurnEventsTo(AtLeast(1, eventsPageQueued - 1))
NextEvents == /\ EventsHavePages /\ eventsPage # TotalEventPages
              /\ TurnEventsTo(AtMost(TotalEventPages, eventsPageQueued + 1))

RerenderEvents ==
    /\ eventsPage # eventsPageQueued
    /\ eventsPage' = eventsPageQueued
    /\ UNCHANGED <<recorded, filterType, eventQueries, eventsPageQueued>>

EventsNext ==
    \/ \E e \in Event : RecordEvent(e)
    \/ AskEvents
    \/ \E f \in Filter : AnswerEvents(f) \/ EventsArrive(f) \/ EventsFail(f) \/ setFilterType(f)
    \/ PreviousEvents \/ NextEvents \/ RerenderEvents

EventsSpec == EventsInit /\ [][EventsNext]_eventsVars

-----------------------------------------------------------------------------
(* Properties.                                                             *)

EventsTypeOK ==
    /\ recorded \subseteq Event /\ filterType \in Filter
    /\ eventQueries \in [Filter -> QueryType(SUBSET Event)]
    /\ eventsPage \in Nat \ {0} /\ eventsPageQueued \in Nat \ {0}

(* The table never shows an event of another type than the filter says,    *)
(* however the answers overtake the operator's choices.                    *)
EventsMatchFilter == events \subseteq Matches(filterType)

(* Once its updates have been rendered the table shows a page that exists, *)
(* although a change of filter may lead to an empty query, whose answer    *)
(* then comes between the operator's clicks.                               *)
EventPageExists ==
    eventsPage = eventsPageQueued => eventsPage \in 1 .. TotalEventPages
=============================================================================
