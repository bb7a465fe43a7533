----------------------------- MODULE Containment -----------------------------
(***************************************************************************)
(* The containment pipeline of one primary node, from a detected event to  *)
(* the firewall rule and back:                                             *)
(*                                                                         *)
(*   - the coroutine of server/ws/agent.py that handles a log_event        *)
(*     (_handle_log), cut at its awaits;                                   *)
(*   - the operator's block and unblock (REST and Telegram);               *)
(*   - the expiry loop of server/tasks/expiry.py;                          *)
(*   - the queue of SQL statements and the single writer that commits them *)
(*     in order (server/db.py; its failures are in module DbWriter);       *)
(*   - the command link to the agent and iptables on the host.             *)
(*                                                                         *)
(* A decision reads the database, the database is behind the queue, and    *)
(* the firewall is changed past both: this module is about what that       *)
(* order allows.                                                           *)
(***************************************************************************)
EXTENDS ResponsePolicy, Sequences, FiniteSets, FiniteSetsExt

CONSTANTS
    Ip,                \* source addresses
    Mode,              \* _operation_mode
    Kinds,             \* detected events: records [type, severity, desc]
    NoRow,             \* the address has no row in blocked_ips
    BlockDuration,     \* ssh_brute_force.block_duration
    Cooldown,          \* response_cooldown
    EscalationWindow,  \* medium_escalation_window
    DedupWindow,       \* event_dedup_window
    Threshold,         \* medium_escalation_threshold
    Durations,         \* for how long an operator blocks an address; 0: for ever
    Lag, Ahead,        \* how far an event's timestamp may be behind the clock and before it
    QueueCap,          \* maxsize of the write queue (10000 in db.py)
    MaxTime,           \* bound: the clock
    MaxLogs,           \* bound: log events handled
    MaxManual,         \* bound: operator actions
    MaxCrashes         \* bound: restarts of the API process

ASSUME ContainmentAssumption ==
    /\ Mode \in Modes
    /\ \A k \in Kinds : k.type \in EventTypes /\ k.severity \in Severities
    /\ {BlockDuration, Cooldown, EscalationWindow, DedupWindow, Threshold,
        QueueCap, MaxTime} \subseteq Nat \ {0}
    /\ Durations \subseteq 0 .. BlockDuration
    /\ Lag < MaxTime
    /\ {Lag, Ahead, MaxLogs, MaxManual, MaxCrashes} \subseteq Nat

VARIABLES
    now,       \* wall clock of the host
    events,    \* committed rows of security_events
    blocked,   \* committed rows of blocked_ips
    queue,     \* statements accepted and not yet committed
    handler,   \* the _handle_log coroutine: its position and its locals
    sweep,     \* expire_blocked_ips: its position and the selected addresses
    registered, \* an agent session is registered (_agent_ws is not None)
    link,      \* block_ip commands sent and not yet executed by the agent
    rules,     \* DROP rules of each address in the INPUT chain
    detected,  \* the "detected" rows of the audit trail
    logs, manual, crashes  \* what the bounds count

dbVars == <<events, blocked>>
hostVars == <<link, rules>>
counters == <<logs, manual, crashes>>
vars == <<now, events, blocked, queue, handler, sweep, registered, link,
          rules, detected, logs, manual, crashes>>

(* expires_at of a row that never expires (NULL in the code).              *)
Never == 0

Time == 1 + Lag .. MaxTime
Actions == {"logged", "review_required", "auto_block"}
Stamp == 1 .. (MaxTime + Ahead)
Row == [at : Stamp, expires : {Never} \cup 1 .. (MaxTime + Ahead + BlockDuration),
        auto : BOOLEAN]
Event == [id : 1 .. MaxLogs, ip : Ip, type : EventTypes, desc : {k.desc : k \in Kinds},
          ts : Stamp, action : Actions]
Write == [op : {"put"}, ip : Ip, row : Row] \cup [op : {"del", "sweep"}, ips : SUBSET Ip]
           \cup [op : {"event"}, event : Event]

Idle == [pc |-> "idle"]
Asleep == [pc |-> "asleep"]

-----------------------------------------------------------------------------
(* Statements and their effect.                                            *)

PutRow(ip, row) == [op |-> "put", ip |-> ip, row |-> row]
DeleteRow(ip) == [op |-> "del", ips |-> {ip}]
SweepRows(ips) == [op |-> "sweep", ips |-> ips]
InsertEvent(e) == [op |-> "event", event |-> e]

(* The order in which enqueue_write makes statements wait: first come,     *)
(* first served.                                                           *)
EnqueueFirst(q, w) == <<w>> \o q
Enqueue(q, w) == Append(q, w)

(* A coroutine that puts into a full queue waits (DbWriter).              *)
Room(n) == Len(queue) + n <= QueueCap

(* INSERT OR REPLACE and DELETE ... WHERE ip IN on blocked_ips.            *)
Apply(table, w) ==
    IF w.op = "put" THEN [table EXCEPT ![w.ip] = w.row]
    ELSE [ip \in Ip |-> IF ip \in w.ips THEN NoRow ELSE table[ip]]

Init ==
    /\ now = 1 + Lag   \* the oldest timestamp is 1
    /\ events = {}
    /\ blocked = [ip \in Ip |-> NoRow]
    /\ queue = <<>>
    /\ handler = Idle
    /\ sweep = Asleep
    /\ registered = TRUE
    /\ link = <<>>
    /\ rules = [ip \in Ip |-> 0]
    /\ detected = {}
    /\ logs = 0 /\ manual = 0 /\ crashes = 0

-----------------------------------------------------------------------------
(* _handle_log.  Its three SELECTs run on their own connection and see the *)
(* committed tables; every await lets the other coroutines in.             *)

Similar(e, ip, kind, since) == e.ip = ip /\ e.type = kind.type /\ e.ts >= since

(* A log_event arrives and is detected; the first SELECT counts.  The      *)
(* session it arrives on need not be the registered one (AgentSession).    *)
ReadCount(ip, kind, ts) ==
    /\ handler = Idle
    /\ logs < MaxLogs
    /\ logs' = logs + 1
    /\ handler' = [pc |-> "counted", ip |-> ip, kind |-> kind, ts |-> ts,
                   count |-> 1 + Cardinality({e \in events :
                                    Similar(e, ip, kind, ts - EscalationWindow)})]
    /\ UNCHANGED <<now, dbVars, queue, sweep, registered, hostVars, detected, manual, crashes>>

(* A row without expiry cools down for response_cooldown, any other row    *)
(* until it expires.                                                       *)
CooldownActive(row, ts) ==
    /\ row # NoRow
    /\ IF row.expires = Never THEN row.at >= ts - Cooldown ELSE row.expires > ts

ReadBlocked ==
    /\ handler.pc = "counted"
    /\ handler' = [pc |-> "checked", ip |-> handler.ip, kind |-> handler.kind,
                   ts |-> handler.ts, count |-> handler.count,
                   currently |-> blocked[handler.ip] # NoRow,
                   cooldown |-> CooldownActive(blocked[handler.ip], handler.ts)]
    /\ UNCHANGED <<now, dbVars, queue, sweep, registered, hostVars, detected, counters>>

(* ORDER BY timestamp DESC, id DESC LIMIT 1 over the dedup window.         *)
LatestSimilar(ip, kind, ts) ==
    LET recent == {e \in events : Similar(e, ip, kind, ts - DedupWindow)}
    IN {e \in recent : \A f \in recent : f.ts < e.ts \/ (f.ts = e.ts /\ f.id <= e.id)}

ReadDuplicate ==
    /\ handler.pc = "checked"
    /\ handler' = [pc |-> "ready", ip |-> handler.ip, kind |-> handler.kind,
                   ts |-> handler.ts, count |-> handler.count,
                   currently |-> handler.currently, cooldown |-> handler.cooldown,
                   dup |-> LatestSimilar(handler.ip, handler.kind, handler.ts)]
    /\ UNCHANGED <<now, dbVars, queue, sweep, registered, hostVars, detected, counters>>

Decision(h) == decide_response(h.kind.type, h.kind.severity, TRUE, Mode, TRUE,
                               h.count, Threshold, h.cooldown).action

ActionTaken(h) == CASE Decision(h) = "block" -> "auto_block"
                    [] Decision(h) = "review" -> "review_required"
                    [] OTHER -> "logged"

SuppressFollowup(h) == h.currently /\ h.kind.type = "port_scan"

(* Only a duplicate with the same action and the same description.         *)
SuppressDuplicate(h) ==
    \E d \in h.dup : d.action = ActionTaken(h) /\ d.desc = h.kind.desc

EventOf(h) == [id |-> logs, ip |-> h.ip, type |-> h.kind.type, desc |-> h.kind.desc,
               ts |-> h.ts, action |-> ActionTaken(h)]

BlockRowInMs(ts) == [at |-> ts, expires |-> ts + 1000 * BlockDuration, auto |-> TRUE]
BlockRow(ts) == [at |-> ts, expires |-> ts + BlockDuration, auto |-> TRUE]

(* The end of the handler before its next await.  The "detected" audit row *)
(* is written whatever happens next.                                       *)
Detect(h) ==
    detected' = detected \cup {[id |-> logs, ip |-> h.ip, type |-> h.kind.type, ts |-> h.ts]}

Suppress ==
    /\ handler.pc = "ready"
    /\ SuppressFollowup(handler) \/ SuppressDuplicate(handler)
    /\ Detect(handler)
    /\ handler' = Idle
    /\ UNCHANGED <<now, dbVars, queue, sweep, registered, hostVars, counters>>

Proceed == /\ handler.pc = "ready"
           /\ ~SuppressFollowup(handler) /\ ~SuppressDuplicate(handler)
           /\ Detect(handler)

Record ==
    /\ Proceed
    /\ Room(1)
    /\ Decision(handler) # "block"
    /\ queue' = Enqueue(queue, InsertEvent(EventOf(handler)))
    /\ handler' = Idle
    /\ UNCHANGED <<now, dbVars, sweep, registered, hostVars, counters>>

(* Without a session send_command returns at once and the row is queued    *)
(* all the same, by an await of its own.                                   *)
BlockWithoutAgent ==
    /\ Proceed
    /\ Room(1)
    /\ Decision(handler) = "block" /\ ~registered
    /\ queue' = Enqueue(queue, InsertEvent(EventOf(handler)))
    /\ handler' = [pc |-> "sent", ip |-> handler.ip, ts |-> handler.ts]
    /\ UNCHANGED <<now, dbVars, sweep, registered, hostVars, counters>>

(* When a connection ends, what was sent first may still arrive.           *)
Arriving(commands) == {SubSeq(commands, 1, k) : k \in 0 .. Len(commands)}

(* send_json suspends the handler after the command has left ...           *)
SendBlock ==
    /\ Proceed
    /\ Room(1)
    /\ Decision(handler) = "block" /\ registered
    /\ queue' = Enqueue(queue, InsertEvent(EventOf(handler)))
    /\ link' = Append(link, handler.ip)
    /\ handler' = [pc |-> "sent", ip |-> handler.ip, ts |-> handler.ts]
    /\ UNCHANGED <<now, dbVars, sweep, registered, rules, counters>>

(* ... or raises: the handler and its session end, the row is never queued, *)
(* and the agent has some of what was sent, the last command included.     *)
SendRaises ==
    /\ Proceed
    /\ Room(1)
    /\ Decision(handler) = "block" /\ registered
    /\ queue' = Enqueue(queue, InsertEvent(EventOf(handler)))
    /\ handler' = Idle
    /\ registered' = FALSE
    /\ link' \in Arriving(Append(link, handler.ip))
    /\ UNCHANGED <<now, dbVars, sweep, rules, counters>>

FinishBlock ==
    /\ Room(1)
    /\ handler.pc = "sent"
    /\ queue' = Enqueue(queue, PutRow(handler.ip, BlockRow(handler.ts)))
    /\ handler' = Idle
    /\ UNCHANGED <<now, dbVars, sweep, registered, hostVars, detected, counters>>

-----------------------------------------------------------------------------
(* The operator: neither action talks to the agent.                        *)

(* expires_at = now + duration if duration else None.                      *)
Until(duration) == IF duration = 0 THEN Never ELSE now + duration

ManualBlock(ip, duration) ==
    /\ Room(1)
    /\ manual < MaxManual
    /\ manual' = manual + 1
    /\ queue' = Enqueue(queue, PutRow(ip, [at |-> now, expires |-> Until(duration),
                                               auto |-> FALSE]))
    /\ UNCHANGED <<now, dbVars, handler, sweep, registered, hostVars, detected, logs, crashes>>

ManualUnblock(ip) ==
    /\ Room(1)
    /\ manual < MaxManual
    /\ manual' = manual + 1
    /\ queue' = Enqueue(queue, DeleteRow(ip))
    /\ UNCHANGED <<now, dbVars, handler, sweep, registered, hostVars, detected, logs, crashes>>

-----------------------------------------------------------------------------
(* The expiry loop: select on one connection, delete through the queue.    *)

ExpiredAutomatic(row) == row # NoRow /\ row.auto /\ row.expires < now
Expired(row) == row # NoRow /\ row.expires > Never /\ row.expires < now

ExpirySelect ==
    /\ sweep = Asleep
    /\ LET expired == {ip \in Ip : Expired(blocked[ip])}
       IN /\ expired # {}
          /\ sweep' = [pc |-> "selected", ips |-> expired]
    /\ UNCHANGED <<now, dbVars, queue, handler, registered, hostVars, detected, counters>>

ExpiryDelete ==
    /\ Room(1)
    /\ sweep.pc = "selected"
    /\ queue' = Enqueue(queue, SweepRows(sweep.ips))
    /\ sweep' = Asleep
    /\ UNCHANGED <<now, dbVars, handler, registered, hostVars, detected, counters>>

-----------------------------------------------------------------------------
(* The writer, the agent and the environment.                              *)

Commit ==
    /\ queue # <<>>
    /\ LET w == Head(queue)
       IN IF w.op = "event"
          THEN events' = events \cup {w.event} /\ UNCHANGED blocked
          ELSE blocked' = Apply(blocked, w) /\ UNCHANGED events
    /\ queue' = Tail(queue)
    /\ UNCHANGED <<now, handler, sweep, registered, hostVars, detected, counters>>

(* iptables -A INPUT -s ip -j DROP: appends, whatever is there already.    *)
AgentExecute ==
    /\ link # <<>>
    /\ rules' = [rules EXCEPT ![Head(link)] = @ + 1]
    /\ link' = Tail(link)
    /\ UNCHANGED <<now, dbVars, queue, handler, sweep, registered, detected, counters>>

(* The session ends with the commands it has in flight, or loses its       *)
(* registration to the end of an older one (AgentSession).                 *)
LinkDown ==
    /\ registered
    /\ registered' = FALSE
    /\ link' \in Arriving(link)
    /\ UNCHANGED <<now, dbVars, queue, handler, sweep, rules, detected, counters>>

LinkUp ==
    /\ ~registered
    /\ registered' = TRUE
    /\ UNCHANGED <<now, dbVars, queue, handler, sweep, hostVars, detected, counters>>

Tick ==
    /\ now < MaxTime
    /\ now' = now + 1
    /\ UNCHANGED <<dbVars, queue, handler, sweep, registered, hostVars, detected, counters>>

(* The API process is killed and restarted: what was queued is gone, the   *)
(* agent will have to connect again and executes what it has received, the *)
(* firewall stays.                                                         *)
Crash ==
    /\ crashes < MaxCrashes
    /\ crashes' = crashes + 1
    /\ queue' = <<>> /\ handler' = Idle /\ sweep' = Asleep
    /\ registered' = FALSE /\ link' \in Arriving(link)
    /\ UNCHANGED <<now, dbVars, rules, detected, logs, manual>>

Next ==
    \/ \E ip \in Ip, kind \in Kinds, ts \in now - Lag .. now + Ahead : ReadCount(ip, kind, ts)
    \/ ReadBlocked \/ ReadDuplicate
    \/ Suppress \/ Record \/ BlockWithoutAgent \/ SendBlock \/ SendRaises \/ FinishBlock
    \/ \E ip \in Ip : \/ \E duration \in Durations : ManualBlock(ip, duration)
                        \/ ManualUnblock(ip)
    \/ ExpirySelect \/ ExpiryDelete \/ Commit
    \/ AgentExecute \/ LinkDown \/ LinkUp \/ Tick \/ Crash

Spec == Init /\ [][Next]_vars

(* The event loop runs the expiry task and the writer whenever they can    *)
(* go on.  Nothing is assumed of the other coroutines, the agent, the      *)
(* operator or the clock.                                                  *)
Expire == ExpirySelect \/ ExpiryDelete
Fairness == WF_vars(Expire) /\ WF_vars(Commit)

FairSpec == Spec /\ Fairness

-----------------------------------------------------------------------------
(* Properties.                                                             *)

QueuedEvents == {queue[i].event : i \in {j \in 1 .. Len(queue) : queue[j].op = "event"}}
Recorded == events \cup QueuedEvents

(* The type invariant of the pipeline's state.                             *)
TypeOK ==
    /\ now \in Time
    /\ events \subseteq Event
    /\ blocked \in [Ip -> Row \cup {NoRow}]
    /\ queue \in Seq(Write)
    /\ handler.pc \in {"idle", "counted", "checked", "ready", "sent"}
    /\ handler.pc # "idle" => handler.ip \in Ip /\ handler.ts \in Stamp /\ logs # 0
    /\ handler.pc \in {"counted", "checked", "ready"} => handler.kind \in Kinds
    /\ sweep.pc \in {"asleep", "selected"}
    /\ sweep.pc = "selected" => sweep.ips \in (SUBSET Ip) \ {{}}
    /\ registered \in BOOLEAN
    /\ link \in Seq(Ip)
    /\ rules \in [Ip -> Nat]
    /\ logs \in 0 .. MaxLogs /\ {manual, crashes} \subseteq Nat

(* An automatic row of blocked_ips is never durable before the event that  *)
(* explains it: _handle_log queues the event, suspends, and queues the row *)
(* afterwards, and a crash can cut the queue anywhere in between.          *)
RowHasEvidence ==
    \A ip \in Ip : blocked[ip] # NoRow /\ blocked[ip].auto =>
        \E e \in events : /\ e.ip = ip /\ e.action = "auto_block"
                          /\ e.ts = blocked[ip].at

(* While the API process lives, no command is under way and no rule stands *)
(* on the host that is not explained by a recorded event: send_command is  *)
(* reached only after the event is queued.  A crash forgets queued events  *)
(* and not the firewall.                                                   *)
RuleHasEvidence ==
    crashes = 0 => \A ip \in Ip :
        rules[ip] > 0 \/ (\E i \in 1 .. Len(link) : link[i] = ip) =>
            \E e \in Recorded : e.ip = ip /\ e.action = "auto_block"

(* Both: whatever the system did by itself, in its table or on the host,   *)
(* it had recorded why before.                                             *)
EvidenceFirst == RowHasEvidence /\ RuleHasEvidence

(* Every rule on the host, and every command under way to it, has a        *)
(* detection of its own: the pipeline answers a detection once, whatever   *)
(* is lost, restarted or done by the operator in between.                  *)
Commands(ip) == {i \in 1 .. Len(link) : link[i] = ip}
Detections(ip) == {d \in detected : d.ip = ip}
OneCommandPerDetection ==
    \A ip \in Ip : rules[ip] + Cardinality(Commands(ip)) <= Cardinality(Detections(ip))

(* A row that expires does not stay in the table for ever: the expiry loop *)
(* deletes it or a later write replaces it (server/main.py:78-84).         *)
Overdue(row) == row # NoRow /\ row.expires # Never /\ row.expires < now
ExpiredRowGoes ==
    \A ip \in Ip : Overdue(blocked[ip]) ~> ~Overdue(blocked[ip])

(* The queue and its writer implement a table whose operations take effect *)
(* in the order of acceptance and become durable in that order.  After the *)
(* first n statements about it the table has, of each address, what the    *)
(* last of them that is about this address leaves.                         *)
TablePositions(q) == {i \in 1 .. Len(q) : q[i].op # "event"}
FirstOf(positions, n) == {i \in positions : Cardinality({k \in positions : k <= i}) <= n}

AboutIp(w, ip) == IF w.op = "put" THEN w.ip = ip ELSE ip \in w.ips
RowLeft(w) == IF w.op = "put" THEN w.row ELSE NoRow
TableAfter(table, q, positions) ==
    [ip \in Ip |-> LET writes == {i \in positions : AboutIp(q[i], ip)}
                   IN IF writes = {} THEN table[ip] ELSE RowLeft(q[Max(writes)])]
VersionsOf(table, q, positions) ==
    [n \in 1 .. Cardinality(positions) + 1 |-> TableAfter(table, q, FirstOf(positions, n - 1))]
Versions == VersionsOf(blocked, queue, TablePositions(queue))
Durable == INSTANCE BlockTable WITH versions <- Versions
ImplementsBlockTable == Durable!Spec

-----------------------------------------------------------------------------
(* What comments say of the pipeline, and it does not do.                  *)

(* agent/executor/iptables.go:9: the API server controls the lifetime of a *)
(* block through its expiry.  A rule whose row has expired must be gone    *)
(* some time later, unless its address is blocked again.                   *)
Renewed(row) == row # NoRow /\ ~Overdue(row)
RuleFollowsRow ==
    \A ip \in Ip : rules[ip] > 0 /\ Overdue(blocked[ip]) ~> rules[ip] = 0 \/ Renewed(blocked[ip])

(* server/ws/agent.py:136, the docstring of _should_suppress_duplicate_    *)
(* event: suppression does not break escalation.  A signal that is at      *)
(* least the Threshold-th of its kind inside the escalation window must be *)
(* counted as that.  Nothing waits in the queue when it is counted, so the *)
(* detections that are missing from the table are the suppressed ones.     *)
DetectedBefore(h) ==
    {d \in detected : Similar(d, h.ip, h.kind, h.ts - EscalationWindow)}
EscalationSurvivesDedup ==
    [][handler.pc = "idle" /\ handler'.pc = "counted" /\ queue = <<>> =>
         (1 + Cardinality(DetectedBefore(handler')) >= Threshold =>
              handler'.count >= Threshold)]_vars
=============================================================================
