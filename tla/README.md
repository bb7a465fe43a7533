# Nullius: specification and proofs

Nullius watches one Linux host. A Go agent on the host reads logs and metrics and executes commands
(iptables, signals, systemctl). A Python server (FastAPI, asyncio, SQLite) receives what the agent
sends, detects attacks, decides on a response, keeps the block list and serves the web interface
(React, TypeScript). A second machine can stand by as a warm standby behind a lock on a shared path.

This directory holds TLA+ modules of the parts whose correctness depends on order, failure and time,
the configurations with which TLC checks them, and theorems that TLAPS proves for every value of the
constants. `PROJECT.json` is the index: components, runs, the source lines behind each definition,
mutants, findings, hazards and theorems.

## 1. Inventory

| Component (code) | State | Operations | What is hard | What makes it correct |
|---|---|---|---|---|
| Log detector (`server/security/detector.py`, `rules.py`, `framework.py`) | four dictionaries address → hits in a sliding window | `check_log` | pruning of other addresses at each line; a wall clock that may be set back; a reset at each alert; chains in which one rule shadows another | alerts exactly when the hits since the last alert reach the threshold inside the window |
| Merge and policy (`integration.py`, `responder.py`) | none | `merge_log_detection`, `decide_response` | chains of early returns over six inputs | more evidence never gives a weaker answer |
| Containment pipeline (`server/ws/agent.py` `_handle_log`, `server/tasks/expiry.py`) | `security_events`, `blocked_ips`, statements in the queue, coroutine locals, rules on the host | one log event in five awaits; block and unblock by the operator; sweep of expired rows | decisions read tables that lag behind the queue; three effects in three steps; crashes in between | every block is explained by an event; expired rows go; operations take effect in order of acceptance |
| Write path (`server/db.py`) | bounded queue, writer task | `enqueue_write`, writer loop with retries, start, stop | full queue, errors that are retried and errors that are not, death of the writer, notification tasks that nobody awaits, shutdown | commits in order, nothing that came before the sentinel lost by an orderly stop |
| Agent session (`agent_ws_handler`, `server/api/health.py`) | `_agent_ws`, health flags | authentication, eviction, registration, end | overlapping handlers of one agent | commands go to a session that is served; absence is noticed |
| Commands with an answer (`send_command`, `server/api/processes.py`) | `_pending_command_results` | file a future, send, wait 6 s, complete | ids of the clock in ms, late answers, lost results | a request gets its own answer or none |
| Process termination (`agent/executor/process.go`) | none; the process table of the host | check name and start time, open, TERM, wait, KILL | process numbers that change hands between any two steps | both signals of a command hit one process; success means that it is gone |
| Agent client (`agent/ws/client.go`, `agent/main.go`) | `conn`, `connected`, `done`, buffer | `Run`/`connect`, `Send`, `SendDisconnect`, `Close` | goroutines that look under a mutex and act after it | each message in one place; the shutdown ends |
| Offline buffer (`agent/buffer/ring.go`) | array, head, count | `Push`, `DrainAll` | wrap at the capacity | keeps the last messages in order |
| Primary lock, orchestrator, promotion (`server/deployment.py`, `server/main.py`, `deploy/*.sh`) | flock, role in the configuration, process, state file | start, stop, inspect; health probe, threshold, cooloff; promote with backup, `--force` | probes that hold the lock for a moment; time between probe and use; crashes, and power failures while a file is written | never two active nodes; a lost primary is replaced |
| Web: shell and live connection (`web/src/lib/ws.ts`, `hooks/useWebSocket.ts`, `app/App.tsx`, `stores/store.ts`) | module variable `socket`, reconnection timers, heartbeat, subscribers, store | `connect`, `disconnect`, `onopen`, `onclose`, `onmessage`, mount and unmount | events of a socket that is no longer the socket; double mounting in development | one connection, each event once and in order, the header tells what is |
| Web: processes (`pages/Processes.tsx`) | search, order, page, confirmation, two mutations | choose, terminate, kill, turn pages, poll | requests that outlive the confirmation they came from; lists that shrink between two clicks | an outcome is shown for what it is the outcome of; the page shown exists |
| Web: security (`pages/Security.tsx`, `hooks/useSecurity.ts`) | filters, selected incident, note, trace; query cache | block, unblock, status, notes, choose | answers to the choice before the last; success before the commit; effects rendered later | tables show what was chosen; the note is about the incident shown; the block list comes to be the server's |
| Web: settings (`pages/Settings.tsx`, `components/settings/*`) | forms, drafts, secrets; settings rows at the server | load, edit, save, test, disconnect | a fetch that began before a save, the very first one above all; refusals; lost answers | an untouched form shows what the server has |
| Web: logs (`pages/Logs.tsx`, `hooks/useLogs.ts`) | filters in the page and in the address bar, live lines | follow a link, choose, receive | two effects that copy each to the other; lines under an earlier filter | both come to rest at the last choice; no line of another filter |
| Web: dashboard (`pages/Dashboard.tsx`, `hooks/useMetrics.ts`) | four queries | poll, fail, recover | queries that fail and recover one by one | every card comes to show the newest |
| Operation mode (`server/security/mode.py`) | mode in memory and in a table | get, set, init | memory before a queued write | after a restart the last acknowledged mode |
| Incidents (`server/api/security.py`) | `incident_state`, notes | correlate, resolve | identity of an incident over time | a resolved state belongs to what was resolved |
| Telegram, Slack (`server/integrations`) | settings, offset, recent notifications | poll, handle a command, notify | offset persisted after handling; delivery after dedup | a command is handled once, a notification not lost by a failure of delivery |
| Log tailer (`agent/collector/logs.go`) | open files, channel | poll, reopen | rotation | lines are delivered once, in order per file |
| Hub of the live updates (`server/ws/frontend.py`) | set of clients | connect, broadcast | checks before awaits | the limit holds |
| Models, risk score, collectors, endpoints, scripts | | | statistics, I/O, reading | not modelled, see section 9 |

How they interact: the agent client and the agent session exchange messages over one WebSocket; the
session's receive loop calls the detector, the merge, the policy and the pipeline; the pipeline, the
operator, the integrations and the periodic tasks all write through the one queue and read the
database directly; the pipeline and the API send commands back over the session; the lifespan of the
process (`server/main.py`) starts and stops the writer and holds the primary lock around everything.
The browser polls the REST endpoints through a query cache, posts changes, and receives events and
lines over a WebSocket of its own.

The hazards of this code, each at its line with the properties that watch it, are listed under
`hazards` in `PROJECT.json`. Section 9 names those that no property watches.

## 2. Modules

```
ResponsePolicy    Detector                          KeepLast        BlockTable    (abstract)
   |      \          |                                  ^               ^
   |       `-- Detection <-- MCDetection     implements |               | implements
   |               ^                                    |               |
   |         DetectorProofs       RingBuffer -----------'          Containment <-- MCContainment
   |                                 ^                                  |   ^
   `---------------------------------|----------------------------------'   ContainmentProofs
                                     |
             AgentClient <-- BufferedClient <-- BufferedClientProofs

CommandResults <-- ProcessKill <-- MCProcessKill, ProcessKillProofs
Termination (abstract) <== implements == ProcessKill
AgentSession <-- AgentSessionProofs

WriteQueue (abstract) <== implements == DbWriter <-- DbWriterProofs
Leadership (abstract) <== implements == Failover <-- FailoverProofs, MCFailover

Paging <------- ProcessesPage, SecurityEvents
QueryCache <--- SecurityEvents, SecurityBlocks, SecurityAudit, SettingsPage, Dashboard
                LiveSocket, SecurityIncidents, LogView
all nine parts <-- WebUi <-- MCWebUi, WebUiProofs
```

**Detector** is `detector.py`. `attempts` is the four dictionaries; `check_log(line)` is the whole
handler: it finds the windows that count the line (`CountsIn`), appends, filters and prunes
(`AfterLine`), raises at most one event (`Detected`) in the order of the code. A log line is what the
regular expressions find in it. `SetClock` is `time.time()`, in both directions. `latest` and `seen` are
history variables.

**Detection** adds the merge with the classifier (`integration.py`), of which the code only asks for a
label and whether the confidence reaches the minimum and 0.9, and asks the policy about each signal in
every context. **ResponsePolicy** is `responder.py` as a pure function; the stage, the operator
priority and the highlight are left out.

**Containment** is the pipeline. `_handle_log` is cut at its awaits: `ReadCount`, `ReadBlocked`,
`ReadDuplicate` are its three SELECTs (on their own connection, hence on committed rows), then
`Suppress`, `Record`, or a block: `SendBlock` (the event is queued, the command is sent, the coroutine is
suspended) and `FinishBlock` (the row is queued), with `SendRaises` and `BlockWithoutAgent` as the other
ways out: without a session the row is queued all the same, by an await of its own, and a send that raises ends the session. A connection that ends, by whatever,
may still bring the agent what was sent first (`Arriving`). The agent's events are handled one at a time, as its receive loop does, and carry
a timestamp up to `Lag` behind the clock (a day in `_validate_timestamp`) and up to `Ahead` before it (five minutes). The mode is constant in each behaviour.
`ManualBlock` (for a duration or for ever) and `ManualUnblock` are the operator's,
`ExpirySelect`/`ExpiryDelete` the expiry loop, `Commit` the writer, `AgentExecute` iptables on the host, `Crash` the
death and restart of the API process. The audit rows that share the queue are left out: nothing here
reads them. **BlockTable** is what the block list promises: operations take
effect in the order of acceptance and become durable in that order; a crash forgets a suffix. Its state is
the list of versions of the table, from the durable one to the newest. In Containment the n-th version is what the first n waiting
statements about the table leave: of each address what the last of them about it leaves, or the committed row (`TableAfter`, `Versions`).
`Durable` is `blocked`. Statements about events are no step of the table.

**DbWriter** looks inside queue and writer: `execute` and `commit` may fail, a failed commit leaves the
transaction open or rolls it back, the third error ends the writer, and an exception that is no `aiosqlite.Error`, or any error while the connection is opened,
ends it at once (`WriterRaises`). A full queue makes producers wait. The shutdown waits for the requests, cancels the background tasks and then puts the
sentinel; the Telegram notifications (`Detached`), which run in tasks that nobody holds, go on through all of it, and one that fails writes its error whenever that is
(`server/integrations/telegram.py:375`, `:503`; those of Slack write on a connection of their own). `sealed` and `late` are history variables: how much was accepted before the
sentinel, and by whom something was accepted after it.
**WriteQueue** is what the rest of the server takes it for: statements become durable one by one in the order of acceptance; the shutdown draws a line, and what is accepted
behind it never becomes durable; the queue ends in order only when everything before the line is durable. The mapping takes as durable the number
of the last statement committed (which a retry may have put there twice), as the line the sentinel, and as the end a writer that met it.

**AgentSession** follows several overlapping connections of the agent through `agent_ws_handler`; a handler is cut at the
`await` of the eviction, which may also raise what is not caught and end the new handler (`EvictionFails`).

**CommandResults** is `send_command(await_result=True)` with its future, the timeout and the agent on the other side, which
may refuse a command, run it, lose it or lose its result; when a session ends, some of what was sent first may still arrive. **ProcessKill** puts the termination of a process on top: `ChooseRow` is the
operator's confirmation, `Post` the lookup of the number in the newest snapshot, and the executor goes through `ensureProcessIdentity`,
`FindProcess`, `FirstSignal`, the wait, `SecondSignal` and the last wait, while processes start and exit at every step and
take over numbers. A process is one life of a number; `before` holds those alive at the check.
**Termination** is what all this promises to who asks: a command hits one process at most, and that before its only outcome; a success has hit one; an outcome
answers one request at most. The mapping takes the requests that have an id, the processes that each command has signalled, what the agent says of it, and the futures.

**AgentClient** has the goroutines of the agent: `Run` (one action for each operation on the connection or the
buffer), collectors in `Send`, and the shutdown of `main`. A connection is a number, a write to one that is
not up fails. The reply to the authentication is waited for without a deadline (`client.go:140`), so a peer that is live and silent holds `Run` there (`AwaitsReply`). Its buffer is a sequence with the operations of **KeepLast**; **RingBuffer** is the array with its indices, shown to
implement KeepLast; **BufferedClient** runs both in step, so that the ring is pushed and drained in the orders in which the goroutines
really do it.

**Failover** is the lock, the API process around it, the orchestrator and the promotion on every node, with machines
that lose power. `path` is the lock path of each node's configuration; a power failure while the promotion writes that file in place may leave it empty, which makes the node
a primary with the default path. `ProbeRaises` is a health probe that meets an error the script does not catch: the run ends and leaves no trace. **Leadership** is what the lock is for: a node becomes the primary of a path that has none, and nobody takes the place of one that still acts.
The mapping takes the nodes that are active, of each path: at most one of them at a time, and between two of them a moment with none.

The web interface is modelled event by event, as JavaScript runs it: an event is handled with what the last commit rendered, the
updates that it or an effect queues are rendered by a step of their own, and other events may come in between.

* **Paging** and **QueryCache** are what the pages share: the pages of a table with the effect that clamps the page number, and one query of the
  query library (one fetch at a time, data that outlive errors, an invalidation that abandons a fetch, unless the query has no data yet: then the first fetch goes on).
* **LiveSocket**: sockets are objects whose events come as long as they live, whatever `socket` refers to by then. The production build mounts the shell once,
  the development build twice, and a hot reload again.
* **ProcessesPage**: the poll, search, order and pages, and the confirmation with the two mutations, whose requests may overlap.
* **SecurityEvents**, **SecurityBlocks**, **SecurityIncidents**, **SecurityAudit**: the four cards of the security page. SecurityBlocks includes the server's queue, so that the
  refetch after a success may come before the commit.
* **SettingsPage**: a card with the server behind it. The cards of the mode, of Telegram and of Slack share nothing, so a behaviour follows one.
* **LogView**: filters and address bar, with the order in which React and the router render, and the live lines.
* **Dashboard**: four queries over three tables, two of them over the samples, of which the history leaves out what is older than an hour (`HourPasses`).
* **WebUi** puts the parts together. They share nothing that one writes and another reads, so a behaviour follows one part (`part`) and the others stay as they
  were opened: the run explores each part in full, and not the product of parts that cannot disturb each other.

`MC*` modules give values to constants that a configuration cannot write down (functions, records). `*Proofs` modules hold theorems.

## 3. Runs

All runs have `expect: pass` unless stated. TLC checks each exhaustively.

| Run | Question | Bounds, and why they suffice |
|---|---|---|
| `detection` | Do the windows, the merge and the policy do what they promise on any short stream of lines? | 2 addresses (one prunes the other), windows of 1 s, thresholds 2, clock 0..2 in any direction, 4 lines of 7 kinds: two alerts of one window, a hit that expires, a hit of the future, and every shadowing chain occur |
| `containment` | Is every block explained, does the queue implement the block table, do expired rows go? | 1 address, a high and a medium type, 2 events, 1 operator action, 1 crash, clock 1..3, duration 1, queue of 2, manual blocks of 1 s and for ever: an event and its row wait together, a renewal races a sweep, a crash cuts the queue at every place, a block of 1 s is overdue at the third value of the clock, an event is dated by the clock or a second after it. 754 thousand states; with events dated before the clock as well (`Lag` = 1) they are too many for a run of five minutes, and only the theorems speak of them. The theorem about the table holds for queues of any length |
| `containment_rule` (violation) | Does the firewall rule end with the block? | 1 event, clock 1..4: the row expires, the sweep deletes it, nobody blocks again |
| `containment_dedup` (violation) | Does the suppression of duplicates leave escalation alone? | 3 medium events, threshold 3, no crash. The property is about a signal that is counted while nothing waits in the queue, so that only suppression can violate it: 1 recorded and committed, 1 suppressed, the third counted as the second |
| `db_writer` | Are commits in order and complete, does the shutdown end? | 2 clients, 1 background task, 1 notification task, queue of 2, 5 writes, 3 attempts, 4 retried errors and one that is not: the writer can die in both ways, the queue is full with producers waiting, statements come behind the sentinel. 31 thousand states |
| `agent_session` | Does a command ever go to a session nobody serves; is absence noticed? | 4 overlapping sessions: two evictions of one victim, and a late end of each |
| `agent_session_report` (violation) | Is an agent that stays connected reported so? | 3 sessions |
| `process_kill` | Can a request get the answer of another, can a command signal two processes or the wrong one, is a success true? | 2 requests in 2 milliseconds (ids collide, results come late), 3 processes with one number, one of them with a protected name: the number changes hands twice, at every step of the executor |
| `process_kill_seen` (violation) | Is the process that passes the check the one that the operator saw? | the same instance |
| `agent_client` | Is each message in one place and the ring what the client takes it for, does the client end? | 2 collectors, 3 messages, 2 connections, a ring of 2: it overflows, wraps, and is drained and refilled after a failed write; a connection may be made after `Close`. 394 thousand states |
| `failover` | Two active nodes, or one that takes the place of another that acts? Does a standby take over? | 2 nodes, 1 lock and the default path beside it, 2 outages (one may empty the state file or the configuration), 1 manual promotion (with or without `--force`), 2 inspections. 116 thousand states |
| `web_ui` | Do the pages show what was chosen and what is, whatever the order of events, answers and renders? | 3 processes of which two share a number, pages of one row, 2 posts; 3 sockets, 2 drops, one remount, 2 events; 2 events of 2 types; 1 address, 2 posts, 1 failure; 2 incidents, 2 lists, 1 note; 2 traces; 2 tokens, 2 policies, 2 saves; 3 filters, 3 choices, 4 lines of which 2 are kept; 2 records, 1 outage of the dashboard's queries and an hour without samples: two requests overlap on every page, every list shrinks, every limit is passed. 516 thousand states |

A bound only cuts the number of events (`MaxLines`, `MaxLogs`, `MaxManual`, `MaxCrashes`, `MaxWrites`, `MaxErrors`,
`MaxMessages`, `MaxConns`, `MaxOutages`, `MaxInspections`, `MaxPosts`, `MaxDrops`, `MaxRemounts`, `MaxTimers`, `MaxFlips`, `MaxEvents`, `MaxBlockPosts`, `MaxFailures`,
`MaxListed`, `MaxNotes`, `MaxSaves`, `MaxChoices`, `MaxRecords`) or the clock (`MaxTime`, `MaxMs`); each is a guard of the action it bounds.
Deadlock is not checked: every behaviour may end when the bounds are used up. That nothing gets stuck before is what the liveness properties say.
`process_kill` and its violation use the symmetry of requests and of unprotected processes; both check invariants only.

### What the passing runs say

* `SinceLastAlert`, `AlertsWhenDue`: pruning forgets no hit that still counts; an alert comes at the line that makes it due
  and never earlier, provided the clock is not set back, and never without enough hits even if it is.
  `NeverWeaker`: neither the classifier's word in addition to a rule's nor one more repetition weakens the answer, in any context of the policy.
* `EvidenceFirst`: an automatic block is never durable before the event that explains it, and no rule or
  command exists without one while the process lives. `ExpiredRowGoes`. `ImplementsBlockTable`.
* `CommitOrder`; `OrderlyStopIsComplete`: a writer that ends by the sentinel has committed all before it, and what is lost behind it is of detached notification tasks.
  `EveryWriteCommits`: an accepted statement is committed unless it came behind the sentinel, or the writer met an error that is not retried, or as many errors as one statement has attempts;
  after that nobody commits. `ShutdownEnds`: whatever fails, the shutdown ends, unless the writer ended before it and left the queue full: then it waits for ever.
  A committed statement may be there twice, next to itself: after a commit that failed and left the transaction open.
* `RegisteredServes`, `AbsenceIsNoticed`.
* `AnswersFindTheirRequest`: two requests of one millisecond share an id, and still an answer reaches only a request of its id, and a filed future has somebody who waits.
  `OneProcessPerCommand`, `StrangerIsNewer`, `SuccessMeansGone`: TERM and KILL go to one process, a process that is signalled by mistake started after the check, and a success is true.
* `OnePlaceInTheRing`, `FlagFollowsSession`, `ImplementsKeepLast`; `RunStops`: after `Close` the client goroutine ends wherever it was, unless it waits for ever for the
  authentication reply of a peer that is live and silent, on a connection that was being made when `Close` was called.
* `ImplementsLeadership` (which includes `AtMostOneActive`, as a path has one leader or none), `FailoverHappens`. Both speak of each lock path. A node whose configuration a power failure
  left empty is a primary with the default path: where another path is configured, nothing keeps it apart from the primary of that path. `deploy/install.sh:210` configures the default.
* Web: `OutcomeIsOfTheChoice`, `PagesExist`, `OneLifeAtATime` (one connection, each event delivered once and in order, and in production one timer, one heartbeat and a status that tells the socket's state),
  `TablesMatchChoice`, `NoteIsAboutDisplayed`, `FormShowsServer`, `LinkIsApplied`, `LiveLinesMatch`, `HeaderComesToFollow`, `TablesComeToFollow`, `LogsComeToRest`.

### What the violations show

* `RuleFollowsRow`: `unblock_ip` exists on the agent, and the server never sends it; a row expires, the sweep deletes it, and the rule stays though nobody blocked the address again.
* `EscalationSurvivesDedup`: a suppressed duplicate is not stored, and the escalation counts what is stored. The trace has nothing waiting in the queue when the third signal is counted: what is missing is the suppressed one.
* `ServedAgentIsReported`: the `finally` of an evicted handler unregisters its successor, which is then served, not reported, and gets no commands.
* `SignalledIsWhatUiSaw`: the page posts a number; the server takes name and start time from its newest snapshot, which may be of another process than the operator saw, and the agent checks against those.

## 4. Fairness

Fairness is stated where a liveness property is checked, as `FairSpec`, `ClientSpec` or `WebSpec`.

* *asyncio* runs every coroutine that is ready: weak fairness of each continuation after an await (DbWriter, AgentSession). Containment needs
  it of the expiry loop and the writer only: overdue rows go whatever the handler of log events, the agent and the clock do.
  No fairness for what comes from outside: log events, operators, connections, crashes.
* *Time passes*: `CoolsDown` of Failover.
* *SQLite* answers, if only with an error (DbWriter).
* *Goroutines* that are ready run; dial and upgrade end in success or failure, for which the library has a timeout. The reply to the authentication has none: only
  a connection that is gone is sure to end the wait for it. Nothing makes the network work, and nothing
  makes a collector send (AgentClient).
* *systemd* restarts the API (`Restart=always`) and runs the orchestrator's timer; scripts go on to their next line. A probe is sure to count a failure only
  when the machine of the peer is off: as long as it is on, every probe may raise. Strong fairness is assumed once,
  for the backup inside a promotion: if it is tried again and again it succeeds at some time. Nobody has to power a machine on.
* *The browser* (`WebFairness`): a timer that is due fires, events of a socket and answers of the server are delivered, the interval of a query goes on
  (also after errors, as the query library does), the server's writer commits, and React and the router render what is queued. All weak. Operators, drops of the
  connection, failures and new records are not forced, and their number is bounded, so that the properties speak of what comes after the last of them. The
  dashboard has one weak fairness for its four queries together: fetches that could bring nothing new are left out, so that every step of a query is progress and each
  comes to its turn.
* The premise `<>[](agent = ...)` of `HeaderComesToFollow`, that of `FailoverHappens` and the exceptions of `EveryWriteCommits`, `ShutdownEnds` and `RunStops` stand in the property, where they can be read.

## 5. Proofs

TLAPS proves, for every value of the constants that satisfies the named assumptions of the module:

| Module | Theorem (property) | Argument |
|---|---|---|
| `DetectorProofs` | `TypeCorrect`; `PruningIsSafe` (`SinceLastAlert`); `AlertsExactly` (`AlertsWhenDue`); `ScanNeverHigh` (`ScanIsMedium`, no run) | `SinceLastAlert` is inductive with `TypeOK`: what is remembered of a window is part of what was seen, and what was seen and is not remembered had left the window at `latest`. `AlertsExactly` adds that the hits seen are finitely many, so that weights can be compared. `ScanNeverHigh` uses another invariant, `BelowThreshold`: a window that is remembered weighs less than its threshold; as one line adds at most one port, the high severity of a scan (`detector.py:286`) is never reached. |
| `DetectorProofs` | `MoreIsNeverWeaker` (`NeverWeaker`) | `MergedInv`: the signal is the rule's event, the same with its severity raised by one, or the classifier's alone. `AnswerGrows`: the policy is monotone in severity and repetitions, because a reason to block stays one (`DueStays`) and what is serious stays serious. |
| `ContainmentProofs` | `ImplementsTable` (`ImplementsBlockTable`) | A refinement, of which each version is a function of a set of positions in the queue. Lemmas say what the first n of a finite set of positions are, that they grow by the last one when a statement is appended (`TableAfter` then changes by that statement alone) and shift when the head leaves, so that a commit drops the oldest version and an append adds one. That an n-th position exists for every n is the well-foundedness of strict inclusion (`FS_StrictSubsetOrderingWellFounded`, `WFMin`), which takes the place of an induction. A crash leaves the durable version. |
| `ContainmentProofs` | `AnswersOnce` (`OneCommandPerDetection`, no run) | `DetectionInv`: a detection that is not yet noted has a number of its own, the command is sent in the step that notes it, and a command becomes a rule, waits or is lost; what still arrives of a connection that ended is no more than was under way. |
| `ContainmentProofs` | `TypeCorrect`; `EvidenceComesFirst` (`EvidenceFirst`) | The table shows evidence only when a statement is committed, so the invariant follows it back through the queue: an automatic row that waits has its event committed or in front of it (`Ordered`), and the row that a suspended handler is still to queue has its event committed or waiting (`SentIsRecorded`). Four lemmas say what appending and removing a statement does to such a queue. A crash empties the queue, and what is committed stays explained. |
| `DbWriterProofs` | `TypeCorrect`, `CommitsInOrder` (`CommitOrder`), `StopLosesNothing` (`OrderlyStopIsComplete`) | The statements committed, executing and queued form an interval: the queue holds consecutive numbers up to `accepted`, with the sentinel behind number `sealed` once it is put and until it is met (`Slot`), the writer's current one is the predecessor of its head, the transaction holds copies of the current one. From the end of the background tasks on only detached producers wait or write. |
| `DbWriterProofs` | `WriterIsQueue` (`ImplementsWriteQueue`, no run) | The same interval as a refinement: a commit that succeeds makes durable the successor of the last durable statement and nothing else, since a transaction that failures left open holds copies of one number only; behind the sentinel nothing is taken any more, and it is met with all before it durable. |
| `AgentSessionProofs` | `TypeCorrect`, `RegisteredSessionServes` (`RegisteredServes`) | `RegisteredServes` is inductive with `TypeOK`: every action that ends a handler's loop is `Finally`, which clears the registration, whosever it is. |
| `ProcessKillProofs` | `TypeCorrect` (`KillTypeOK`), `AnswersArriveRight` (`AnswersFindTheirRequest`), `KillHitsWhatTermHit` (`OneProcessPerCommand`), `OnlyNewcomersAreMistaken` (`StrangerIsNewer`), `SuccessIsTrue` (`SuccessMeansGone`) | `CommandInv` is about the ids: an entry of the dictionary and a future that is done both belong to the id of their request, which never changes. `KillInv` adds that a command is executed once, that from the opening on the executor keeps to its handle, and that what it opens is the process checked or was born after the check. |
| `ProcessKillProofs` | `CommandsKeepPromise` (`ImplementsTermination`, no run) | `AnswerInv` follows a result: on its way it is there once, its command has its outcome, and it has answered nobody; what was answered has been taken off the way. The second signal of a command is no step of the promise, since it hits the process of the first. |
| `BufferedClientProofs` | `TypeCorrect`, `RingBufferImplementsKeepLast`, `ClientKeepsLast` (`ImplementsKeepLast`) | A refinement: each push or drain of the array is the one of the sequence of its contents; the arithmetic of `%` at the capacity is in lemmas. Every step of the client with the ring is a step or a stutter of the ring (`StepsOfBoth`), so that the client inherits it. |
| `BufferedClientProofs` | `ClientTypesCorrect` (`TypeOK`, no run), `FlagIsOfItsSession` (`FlagFollowsSession`), `EveryMessageInOnePlace` (`OnePlaceInTheRing`) | `PlacesOfRun` says what is held outside of the places where it is used: nothing in `buffered` but while it is sent or put back, nothing in the shutdown's hands before it drains, `c.conn` is the connection that authenticates. `CountInv` then counts: every message that was made is in one place and one that was not is in none. Lemmas give the count of a message in an appended, split, concatenated or shortened sequence, and that a hangup, an overflow and a dropped rest move what they lose to `gone`. `RingInv` ties the slots of the ring to the sequence. |
| `FailoverProofs` | `TypeCorrect`, `ActiveNodeHoldsLock` (`ActiveHoldsLock`, no run), `NoSplitBrain` (`AtMostOneActive`, no run); `LockIsLeadership` (`ImplementsLeadership`); `PromotesOnlyWhenDue` (`PromotionIsDue`, no run) | An active node holds the lock of its path under the name "api", which no other step takes from it; a lock has one holder, hence at most one active node per path, for any number of nodes and any assignment of paths. As a refinement: a step changes the activity of one node at most (`StartPrimary`, the end of the shutdown, a crash, an outage), and the one that begins finds the lock free, hence no leader. The promotion is decided and begun in states that differ only in the lock probe, by which the counters are untouched. |
| `WebUiProofs` | `OutcomeIsOfItsChoice` (`OutcomeIsOfTheChoice`), `TablesShowTheChoice` (`TablesMatchChoice`), `NoteFollowsIncident` (`NoteIsAboutDisplayed`), `PagesAlwaysExist` (`PagesExist`), `OneLife` (`OneLifeAtATime`), `FormFollowsServer` (`FormShowsServer`), `LiveLinesFollowFilter` (`LiveLinesMatch`), `LastChoiceWins` (`LinkIsApplied`), `WebTypesCorrect` (`WebTypeOK`) | Each has an invariant of its own part, and the other parts do not touch its variables (`PartsStep`). A mutation that the confirmation looks at is of its choice, since every choice resets both (`ConfirmationInv`). The data of a key were asked under that key (`EventsInv`, `AuditInv`). A note is about the selected incident or an effect that empties it is queued (`NoteInv`). A page beyond the last has an effect queued that brings it back (`PagesInv`). Of the live module, every socket that still speaks is the current one, a timer is held or due only in the state that scheduled it, and what was received is a strictly increasing part of what was published (`LiveInv`). Of a form, the newest data asked for are those of the row unless a request is on its way or has overtaken the first fetch (`SettingsInv`). Of the logs, the effect that is due carries the choice made last (`LogsInv`). |

The assumptions are the `ASSUME`s of the modules: they give types to the constants and say, of an instance, what the code's configuration
guarantees (positive durations and limits); TLC evaluates them in the runs.

Only model-checked:

* all liveness (`ExpiredRowGoes`, `EveryWriteCommits`, `ShutdownEnds`, `AbsenceIsNoticed`, `RunStops`, `FailoverHappens`, `HeaderComesToFollow`,
  `TablesComeToFollow`, `LogsComeToRest`), which is out of the prover's reach here;

Every invariant, action property and refinement that a passing run checks has its theorem. The theorems marked "no run" state properties
that are not in a configuration; TLC finds each of them true with the constants of its component's run (`ImplementsTermination` with two processes, as symmetry is not used for it).

No module with a theorem uses a `RECURSIVE` operator.

## 6. Abstractions

* Log lines, messages and statements are identities or small records; regular expressions, JSON, SQL text and formatting are not modelled.
* The three SELECTs of a decision each see a committed state, as SQLite in WAL mode gives them; the writer commits one statement at a time.
* A decision's mode is a constant: a change of the mode while rows and rules of the old one stand is not modelled.
* The writer of Containment does not fail (DbWriter is about that), so `ExpiredRowGoes` speaks of a server whose writer lives.
* A write to a socket succeeds when the connection is up and fails when it is not; a write that never returns (there is no deadline in
  `agent/ws/client.go`) is not modelled, nor is the heartbeat goroutine, which changes no message.
* Timeouts are choices: a timeout may come at any time while a request waits, a probe may fail for a healthy peer.
* Time in Failover is counted in runs of the orchestrator's timer.
* A power failure may leave the orchestrator's state file or the configuration empty, as both are written in place; it does not leave a part of them.
* Name and start time of a process are always known and identify its life; a handle is a pidfd, which `os.FindProcess` gives since Go 1.23 (`agent/go.mod`), and stays with its process.
* In the browser, a second click on a button before React has rendered that it is busy, and a click inside the microtask in which a mutation notifies the page, are
  left out: events come between tasks.
* LogView has the six filters as one value. A choice that falls between another choice and the last of its effects is excepted from `LinkIsApplied` (`overtaken`):
  it may be lost or stay in one of the two places; the properties about coming to rest include it.
* SettingsPage leaves out the line with the result of the last request, and the binding of the Telegram chat. Excepted from `FormShowsServer` are two requests at
  once, a save whose answer was lost, and a save that overtakes the answer to the first fetch of the card (`unsure`): the library does not abandon a fetch of a query that has no
  data, so the older values fill the form last and nothing is fetched after them until the page is opened again. In that case the page is wrong in the code as well.
* A page opens with a cold cache. The dashboard's history is known by its newest record: it is empty once that is older than an hour, and which older samples it holds is not followed.

## 7. External parts

flock(2) and its release by the kernel, the network, the death of processes and machines, the process table, and the clocks are modelled from how the code uses them and are
marked external in the map. So are the query library (QueryCache, and the retry of a failed query at its next interval), React's order of effects and renders, and the
transitions of the router: they are taken from how the pages use them.

## 8. Plan

Done: detection, containment and the write path, as they decide who is blocked; the sessions, the client and the commands that carry it; the failover; the
termination of processes; the web interface. What is left, in this order:

1. **TelegramPoll** and **Notifications**: the offset, the dedup window, quiet hours across midnight (`server/integrations`).
2. **OperationMode** with the queue of DbWriter and restarts (`server/security/mode.py:12-80`).
3. **Incidents** at the server: identity and workflow against the events behind it (`server/api/security.py:440-594`).
4. **FrontendHub** (`server/ws/frontend.py`) and **LogTailer** (`agent/collector/logs.go`).
5. **RateLimiter** as integer arithmetic against a reference of tokens per second (`agent/ws/client.go:17-42`).
6. Containment: the restart of the host, an automatic block over a manual one, a mode that changes while the server runs.

Proofs that are left, in this order: an abstract specification of a page that shows the answer to its newest choice, which the parts with a query
implement; one of the delivery by the agent, which BufferedClient implements; one of a window that counts, which Detector implements.

## 9. Not modelled, and why

The statistics of the models (`server/ml`) are scikit-learn; the classifier is a free choice of label. The collectors, service control,
risk score, retention and read-only endpoints have no state that steps of others can disturb. Backup, restore and installation are sequential scripts.
Authentication, validation and configuration check one request at a time. Migrations run alone before the server serves. Of the web, the system page, the charts, the
formats, the texts and the type declarations render one answer each.

Some hazards are in a model and no property excludes them, as the code has them and no text promises otherwise: a second decision on a stale context blocks twice
(`server/ws/agent.py:355`), the sweep deletes a block renewed in between (`server/tasks/expiry.py:20`), a retry applies a statement twice (`server/db.py:78`), an open session is served without
being registered (`server/ws/agent.py:171`). Their entries in `PROJECT.json` say so.

Known hazards that no property watches yet:

* `server/ws/agent.py:469`: an automatic block replaces a permanent block of the operator after the cooldown; nothing in the repository says which should win.
* `agent/ws/client.go:306`: a write without a deadline holds the mutex of the client.
* `server/ws/agent.py:379`: the review that the merge marks is overwritten by the policy's decision.
* `agent/executor/iptables.go:14`: after a restart of the host the rules are gone and the rows remain.
* `server/security/mode.py:74`: the mode is changed in memory and queued for the table; a crash in between brings the old one back. Rows and rules of an earlier auto_defend outlive the change.
* `server/integrations/telegram.py:168`: the offset is stored after all updates are handled, behind the queue; a crash repeats them.
* `server/api/security.py:482`: an incident is identified by type and address, so that a new one inherits the state "resolved" of an old one.
* `agent/ws/client.go:32`: the rate limiter drops the fraction of a token and moves its clock all the same.
