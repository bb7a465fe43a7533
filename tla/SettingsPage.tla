---------------------------- MODULE SettingsPage -----------------------------
(***************************************************************************)
(* The settings page (web/src/pages/Settings.tsx and the cards of          *)
(* components/settings) with the server it talks to (api/integrations.py,  *)
(* integrations/telegram.py, integrations/slack.py, security/mode.py).     *)
(*                                                                         *)
(* The cards of the operation mode, of Telegram and of Slack work alike    *)
(* and share nothing, so a behaviour follows one of them.  Every card is a *)
(* form that the page fills from a query whenever its data change, and     *)
(* from the answer to a save; the query is fetched when the page is        *)
(* mounted and after every save, never by an interval.  What the form      *)
(* holds beside the token (flags, severity, quiet hours, or the mode) is   *)
(* one value here, its policy; the line that tells how the last request of *)
(* each button ended is left out.                                          *)
(***************************************************************************)
EXTENDS QueryCache, Naturals

CONSTANTS Token,        \* tokens of Telegram, webhook addresses of Slack
          NoToken,      \* the empty string
          ValidToken,   \* those that getMe or the prefix accept
          Policy,
          DefaultPolicy,
          MaxSaves      \* bound: requests of one visit of the page

ASSUME SettingsPageAssumption ==
    /\ NoToken \notin Token /\ ValidToken \subseteq Token
    /\ DefaultPolicy \in Policy /\ MaxSaves \in Nat

Card == {"mode", "telegram", "slack"}
Kind == {"save", "test", "disconnect"}

VARIABLES
    card,          \* the card that is followed
    row,           \* what the server holds: token and policy
    settingsQuery, \* the query of the card; its data are a set of one row
    draftToken, draftPolicy,  \* the form
    edited,        \* the operator has changed the policy since it was filled
    requests,      \* requests on their way
    requestCount,
    unsure         \* requests overlapped, an answer was lost, a save was overtaken

settingsVars == <<card, row, settingsQuery, draftToken, draftPolicy, edited, requests,
                  requestCount, unsure>>
formState == <<draftToken, draftPolicy, edited>>
mutationState == <<requests, requestCount, unsure>>

EmptyRow == [token |-> NoToken, policy |-> DefaultPolicy]
Rows == [token : Token \cup {NoToken}, policy : Policy]

SettingsInit ==
    /\ card \in Card
    /\ row \in {r \in Rows : r.token \in ValidToken \cup {NoToken}}
    /\ card = "mode" => row.token = NoToken
    /\ settingsQuery = Ask(NewQuery)
    /\ draftToken = NoToken /\ draftPolicy = DefaultPolicy /\ edited = FALSE
    /\ requests = {} /\ requestCount = 0 /\ unsure = FALSE

(* What is rendered.                                                       *)
configured == \E r \in settingsQuery.data : r.token # NoToken

-----------------------------------------------------------------------------
(* The form.                                                               *)

(* An effect copies data that have changed.                                *)
Fill(data) ==
    IF data = settingsQuery.data THEN UNCHANGED formState
    ELSE /\ draftPolicy' = (CHOOSE r \in data : TRUE).policy
         /\ edited' = FALSE
         /\ UNCHANGED draftToken

SettingsArrive ==
    /\ settingsQuery.fetch = "answered"
    /\ settingsQuery' = Receive(settingsQuery)
    /\ Fill(settingsQuery.reply)
    /\ UNCHANGED <<card, row>> /\ UNCHANGED mutationState

SettingsFail ==
    /\ settingsQuery.fetch # "idle"
    /\ settingsQuery' = Fail(settingsQuery)
    /\ UNCHANGED <<card, row>> /\ UNCHANGED formState /\ UNCHANGED mutationState

EnterToken(token) ==
    /\ card # "mode" /\ draftToken # token
    /\ draftToken' = token
    /\ UNCHANGED <<card, row, settingsQuery, draftPolicy, edited>> /\ UNCHANGED mutationState

EnterPolicy(p) ==
    /\ draftPolicy # p
    /\ draftPolicy' = p /\ edited' = TRUE
    /\ UNCHANGED <<card, row, settingsQuery, draftToken>> /\ UNCHANGED mutationState

-----------------------------------------------------------------------------
(* The buttons.  Save is never disabled.                                   *)

Submit(kind, token, policy) ==
    /\ requestCount < MaxSaves
    /\ requestCount' = requestCount + 1
    /\ requests' = requests \cup {[n |-> requestCount + 1, kind |-> kind, token |-> token,
                                   policy |-> policy, reply |-> {}]}
    /\ unsure' = (unsure \/ requests # {})
    /\ UNCHANGED <<card, row, settingsQuery>> /\ UNCHANGED formState

SaveMode == card = "mode" /\ Submit("save", NoToken, draftPolicy)
SaveTelegram == card = "telegram" /\ Submit("save", draftToken, draftPolicy)
SaveSlack == card = "slack" /\ Submit("save", draftToken, draftPolicy)

DisconnectTelegram ==
    card = "telegram" /\ configured /\ Submit("disconnect", NoToken, DefaultPolicy)
DisconnectSlack ==
    card = "slack" /\ configured /\ Submit("disconnect", NoToken, DefaultPolicy)

(* Telegram asks for a chat that is bound, too; which is not followed.     *)
SendTest ==
    card # "mode" /\ configured /\ Submit("test", NoToken, DefaultPolicy)

-----------------------------------------------------------------------------
(* The server: writes, then reads what it answers.                         *)

(* An empty token takes the settings back to their defaults.               *)
Stored(q) ==
    IF card = "mode" THEN [row EXCEPT !.policy = q.policy]
    ELSE IF q.token = NoToken THEN EmptyRow
    ELSE [token |-> q.token, policy |-> q.policy]

Acceptable(q) == q.kind # "test" /\ q.token \in ValidToken \cup {NoToken}

HandleSave(q) ==
    /\ q \in requests /\ q.reply = {} /\ Acceptable(q)
    /\ row' = Stored(q)
    /\ requests' = (requests \ {q}) \cup {[q EXCEPT !.reply = {Stored(q)}]}
    /\ UNCHANGED <<card, settingsQuery, requestCount, unsure>>
    /\ UNCHANGED formState

AnswerSettings ==
    /\ settingsQuery.fetch = "asked"
    /\ settingsQuery' = Answer(settingsQuery, {row})
    /\ UNCHANGED <<card, row>> /\ UNCHANGED formState /\ UNCHANGED mutationState

-----------------------------------------------------------------------------
(* Answers to the requests.                                                *)

Answered(q) ==
    /\ requests' = requests \ {q}
    /\ UNCHANGED <<card, row, requestCount>>

(* onSuccess: the form takes the answer and the token is forgotten ...     *)
Filled(policy) ==
    /\ draftToken' = NoToken /\ draftPolicy' = policy /\ edited' = FALSE

SavedMode(q) == card = "mode" /\ Filled((CHOOSE r \in q.reply : TRUE).policy)
SavedIntegration(q) ==
    card # "mode" /\ q.kind = "save" /\ Filled((CHOOSE r \in q.reply : TRUE).policy)
Disconnected(q) == q.kind = "disconnect" /\ Filled(DefaultPolicy)

(* ... and the query is fetched again; but a first fetch that still runs   *)
(* goes on, with the values of before the save if it was answered by then. *)
Overtaken ==
    ~settingsQuery.known /\ settingsQuery.fetch = "answered" /\ settingsQuery.reply # {row}

SavedWithoutRefetch(q) ==
    /\ q \in requests /\ q.reply # {}
    /\ SavedMode(q) \/ SavedIntegration(q) \/ Disconnected(q)
    /\ Answered(q)
    /\ UNCHANGED <<unsure, settingsQuery>>
Saved(q) ==
    /\ q \in requests /\ q.reply # {}
    /\ SavedMode(q) \/ SavedIntegration(q) \/ Disconnected(q)
    /\ Answered(q)
    /\ settingsQuery' = Invalidate(settingsQuery)
    /\ unsure' = (unsure \/ Overtaken)

(* Refused, or lost on its way to the server.                              *)
SaveRefused(q) ==
    /\ q \in requests /\ q.kind # "test" /\ q.reply = {}
    /\ Answered(q)
    /\ UNCHANGED <<settingsQuery, unsure>> /\ UNCHANGED formState

(* A save that was handled looks like one that failed.                     *)
AnswerLost(q) ==
    /\ q \in requests /\ q.reply # {}
    /\ Answered(q)
    /\ unsure' = TRUE
    /\ UNCHANGED settingsQuery /\ UNCHANGED formState

Tested(q) ==
    /\ q \in requests /\ q.kind = "test"
    /\ Answered(q)
    /\ UNCHANGED <<settingsQuery, unsure>> /\ UNCHANGED formState

SettingsNext ==
    \/ SettingsArrive \/ SettingsFail \/ AnswerSettings
    \/ \E token \in Token \cup {NoToken} : EnterToken(token)
    \/ \E p \in Policy : EnterPolicy(p)
    \/ SaveMode \/ SaveTelegram \/ SaveSlack
    \/ DisconnectTelegram \/ DisconnectSlack \/ SendTest
    \/ \E q \in requests : HandleSave(q) \/ Saved(q) \/ SaveRefused(q)
                           \/ AnswerLost(q) \/ Tested(q)

SettingsSpec == SettingsInit /\ [][SettingsNext]_settingsVars

-----------------------------------------------------------------------------
(* Properties.                                                             *)

SettingsTypeOK ==
    /\ card \in Card /\ row \in Rows
    /\ settingsQuery \in QueryType({{}} \cup {{r} : r \in Rows})
    /\ draftToken \in Token \cup {NoToken} /\ draftPolicy \in Policy
    /\ requests \subseteq [n : 1 .. requestCount, kind : Kind, token : Token \cup {NoToken},
                           policy : Policy, reply : {{}} \cup {{r} : r \in Rows}]
    /\ edited \in BOOLEAN /\ unsure \in BOOLEAN

Quiet == requests = {} /\ settingsQuery.fetch = "idle" /\ settingsQuery.state = "success"

(* When nothing is on its way, a form that the operator has not touched    *)
(* shows what the server holds: neither a later fetch that began before a  *)
(* save nor a refused save leaves an older value in it.  Excepted are      *)
(* requests that were sent while another was on its way, whose answers may *)
(* come in either order and fill the form in that order, a save whose      *)
(* answer was lost, after which nothing is fetched, and a save that        *)
(* overtakes the answer to the very first fetch of the card: the library   *)
(* does not abandon that one, and its older values fill the form last.     *)
FormShowsServer ==
    Quiet /\ ~edited /\ ~unsure =>
        /\ draftPolicy = row.policy
        /\ settingsQuery.data = {row}
=============================================================================
