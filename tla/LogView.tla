------------------------------ MODULE LogView --------------------------------
(***************************************************************************)
(* The page of the logs (web/src/pages/Logs.tsx, hooks/useLogs.ts): six    *)
(* filters that are kept in the page and in the address bar, each copied   *)
(* to the other by an effect, and the lines that the live connection adds  *)
(* under them.  The six filters are one value here.                        *)
(*                                                                         *)
(* How the updates are rendered is React's and the router's: an update by  *)
(* an event of the operator at once; one by an effect or a message of the  *)
(* socket in a later task, in the order they were queued; a change of the  *)
(* location as a transition, after all others.  The effects of a commit    *)
(* run before the next render, and at once after an event.                 *)
(***************************************************************************)
EXTENDS Sequences, Naturals

CONSTANTS LogFilter, NoLogFilter,
          LinesOf,    \* the numbers of the lines that match each filter
          KeepLines,  \* the last 500 live lines are kept
          MaxLines,   \* bound: live lines that arrive
          MaxChoices  \* bound: filters and links that the operator chooses

ASSUME LogViewAssumption ==
    /\ NoLogFilter \in LogFilter /\ LinesOf \in [LogFilter -> SUBSET Nat]
    /\ KeepLines \in Nat /\ MaxLines \in Nat /\ MaxChoices \in Nat

VARIABLES
    location,      \* the query of the address bar
    searchParams,  \* the one that is rendered
    logFilter,     \* the filters that are rendered
    filterQueued,  \* those that an effect has queued: none or one
    effectsDue,    \* whose effects are to run: of searchParams, of logFilter
    subscribed,    \* the filter of the live subscription: none or one
    liveLogs, liveQueued,  \* rendered, and after the updates that are queued
    lineCount, choices,    \* what the bounds count
    wanted,        \* the last filter or link that the operator chose
    overtaken      \* a choice fell between another and the last of its effects

logsVars == <<location, searchParams, logFilter, filterQueued, effectsDue, subscribed,
              liveLogs, liveQueued, lineCount, choices, wanted, overtaken>>

(* The page is opened by a link, such as that to the lines of an incident. *)
LogsInit ==
    /\ location \in LogFilter /\ searchParams = location /\ wanted = location
    /\ logFilter = NoLogFilter /\ filterQueued = {}
    /\ effectsDue = {"params", "filters"} /\ subscribed = {}
    /\ liveLogs = <<>> /\ liveQueued = <<>>
    /\ lineCount = 0 /\ choices = 0 /\ overtaken = FALSE

-----------------------------------------------------------------------------
(* Effects.                                                                *)

(* From the address bar to the filters ...                                 *)
ForgetParams == UNCHANGED filterQueued
FromParams ==
    filterQueued' = IF "params" \in effectsDue THEN {searchParams} ELSE filterQueued

(* ... and from these to the address bar; the effect depends on the setter *)
(* of the parameters too, which is a new one for every searchParams.       *)
ToParams == location' = IF effectsDue = {} THEN location ELSE logFilter

(* New filters empty the live lines and subscribe again.                   *)
KeepLive == UNCHANGED liveQueued
ResetLive == liveQueued' = IF "filters" \in effectsDue THEN <<>> ELSE liveQueued
Subscribe == subscribed' = IF "filters" \in effectsDue THEN {logFilter} ELSE subscribed

RunEffects ==
    /\ effectsDue # {} /\ effectsDue' = {}
    /\ FromParams /\ ToParams /\ ResetLive /\ Subscribe
    /\ UNCHANGED <<searchParams, logFilter, liveLogs, lineCount, choices, wanted, overtaken>>

-----------------------------------------------------------------------------
(* Renders.                                                                *)

(* A router without transitions would render the location here as well.    *)
RenderAllQueued ==
    /\ effectsDue = {}
    /\ filterQueued # {} \/ liveQueued # liveLogs
    /\ logFilter' = IF filterQueued = {} THEN logFilter ELSE CHOOSE f \in filterQueued : TRUE
    /\ searchParams' = location
    /\ filterQueued' = {} /\ liveLogs' = liveQueued
    /\ effectsDue' = (IF logFilter' = logFilter THEN {} ELSE {"filters"})
                       \cup (IF searchParams' = searchParams THEN {} ELSE {"params"})
    /\ UNCHANGED <<location, subscribed, liveQueued, lineCount, choices, wanted, overtaken>>
RenderQueued ==
    /\ effectsDue = {}
    /\ filterQueued # {} \/ liveQueued # liveLogs
    /\ logFilter' = IF filterQueued = {} THEN logFilter ELSE CHOOSE f \in filterQueued : TRUE
    /\ filterQueued' = {} /\ liveLogs' = liveQueued
    /\ effectsDue' = IF logFilter' = logFilter THEN {} ELSE {"filters"}
    /\ UNCHANGED <<location, searchParams, subscribed, liveQueued, lineCount, choices,
                   wanted, overtaken>>

RenderLocation ==
    /\ effectsDue = {} /\ filterQueued = {} /\ liveQueued = liveLogs
    /\ searchParams # location
    /\ searchParams' = location /\ effectsDue' = {"params"}
    /\ UNCHANGED <<location, logFilter, filterQueued, subscribed, liveLogs, liveQueued,
                   lineCount, choices, wanted, overtaken>>

-----------------------------------------------------------------------------
(* Events.                                                                 *)

(* One of the fields or a reset button.  Effects that are due run between  *)
(* the event and its render: what they queue comes after the choice.  What *)
(* they had queued before comes before it and is without effect.           *)
EnterFilter(f) ==
    /\ f # logFilter /\ choices < MaxChoices
    /\ choices' = choices + 1 /\ wanted' = f
    /\ overtaken' = (overtaken \/ "params" \in effectsDue)
    /\ filterQueued' = IF "params" \in effectsDue THEN {searchParams} ELSE {}
    /\ logFilter' = f /\ effectsDue' = {}
    /\ location' = f /\ subscribed' = {f} /\ liveQueued' = <<>>
    /\ UNCHANGED <<searchParams, liveLogs, lineCount>>

LocationSettled == effectsDue = {} /\ filterQueued = {} /\ location = searchParams

(* A link of the sidebar, or the browser's history.                        *)
OpenLink(f) ==
    /\ f # location /\ choices < MaxChoices
    /\ choices' = choices + 1 /\ wanted' = f
    /\ location' = f
    /\ overtaken' = (overtaken \/ ~LocationSettled)
    /\ UNCHANGED <<searchParams, logFilter, filterQueued, effectsDue, subscribed,
                   liveLogs, liveQueued, lineCount>>

LastLines(lines) ==
    SubSeq(lines, 1 + (IF Len(lines) > KeepLines THEN Len(lines) - KeepLines ELSE 0), Len(lines))

LineArrives ==
    /\ lineCount < MaxLines
    /\ lineCount' = lineCount + 1
    /\ liveQueued' = IF \E f \in subscribed : lineCount' \in LinesOf[f]
                     THEN LastLines(Append(liveQueued, lineCount')) ELSE liveQueued
    /\ UNCHANGED <<location, searchParams, logFilter, filterQueued, effectsDue, subscribed,
                   liveLogs, choices, wanted, overtaken>>

LogsNext ==
    \/ RunEffects \/ RenderQueued \/ RenderLocation
    \/ \E f \in LogFilter : EnterFilter(f) \/ OpenLink(f)
    \/ LineArrives

LogsSpec == LogsInit /\ [][LogsNext]_logsVars

-----------------------------------------------------------------------------
(* Properties.                                                             *)

LogsTypeOK ==
    /\ {location, searchParams, logFilter, wanted} \subseteq LogFilter
    /\ filterQueued \subseteq LogFilter /\ subscribed \subseteq LogFilter
    /\ effectsDue \subseteq {"params", "filters"}
    /\ liveLogs \in Seq(1 .. lineCount) /\ liveQueued \in Seq(1 .. lineCount)
    /\ overtaken \in BOOLEAN

LogsSettled == LocationSettled /\ liveQueued = liveLogs

(* Although each of the two copies overwrites the other, at the end the    *)
(* page filters by what the address bar says, and that is the link or the  *)
(* filter that was chosen last.  Excepted is a choice in the few           *)
(* milliseconds that the one before needs to be rendered and copied: it    *)
(* may be lost, or stay in one of the two places only (see the hazards).   *)
LinkIsApplied ==
    LogsSettled /\ ~overtaken => logFilter = wanted /\ searchParams = wanted

(* Live lines that came under an earlier filter go with it, those that     *)
(* arrive between the change and the new subscription included.            *)
LiveLinesMatch ==
    LogsSettled => \A i \in DOMAIN liveLogs : liveLogs[i] \in LinesOf[logFilter]

(* The two effects come to rest: they do not answer each other for ever.   *)
LogsSettle == <>[]LogsSettled
=============================================================================
