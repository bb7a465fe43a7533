------------------------------ MODULE DbWriter ------------------------------
(***************************************************************************)
(* The write path of server/db.py: coroutines put SQL statements into one  *)
(* bounded queue, one writer task takes them out and commits them one by   *)
(* one, with three attempts each.  A statement is its number in the order  *)
(* in which the queue accepted it.                                         *)
(*                                                                         *)
(* SQLite and the Python driver are seen through their outcomes: execute   *)
(* fails and leaves the transaction as it was, or succeeds; commit         *)
(* succeeds, or fails and leaves the transaction open or rolls it back.    *)
(* Both may also raise what is not an aiosqlite.Error, such as the         *)
(* OverflowError of an integer that SQLite cannot hold.                    *)
(*                                                                         *)
(* The shutdown is the one of server/main.py: the background tasks are     *)
(* cancelled, then stop_writer puts the sentinel and waits.  The           *)
(* notification tasks of integrations/telegram.py belong to nobody: they   *)
(* are neither cancelled nor awaited, and one whose delivery fails writes  *)
(* the error whenever that is.  (Those of slack.py write on a connection   *)
(* of their own.)                                                          *)
(***************************************************************************)
EXTENDS Integers, Sequences, FiniteSets

CONSTANTS Clients,     \* coroutines that write while they serve a request
          Background,  \* background tasks that write
          Detached,    \* Telegram notifications that write their last error
          QueueCap,    \* maxsize of _write_queue (10000)
          Attempts,    \* attempts per statement (3)
          MaxWrites,   \* bound: statements accepted
          MaxErrors    \* bound: SQLite errors that are retried

ASSUME DbWriterAssumption ==
    /\ Clients \cap Background = {} /\ (Clients \cup Background) \cap Detached = {}
    /\ QueueCap \in Nat \ {0} /\ Attempts \in Nat \ {0}
    /\ MaxWrites \in Nat /\ MaxErrors \in Nat

Producers == Clients \cup Background \cup Detached

(* The sentinel (None, ()) of stop_writer: no statement has number 0.      *)
Stop == 0

VARIABLES
    accepted,  \* number of statements the queue has accepted
    queue,     \* _write_queue
    blocked,   \* producers that wait in put because the queue is full
    writer,    \* position of _writer_loop
    current,   \* the statement the writer has taken
    attempt,   \* its attempts so far
    txn,       \* statements executed in the open transaction
    log,       \* statements committed, in the order of their commits
    phase,     \* the lifespan of the API process
    sealed,    \* history: statements accepted when the sentinel was put
    late,      \* history: producers with a statement behind the sentinel
    errors     \* what MaxErrors bounds

wVars == <<writer, current, attempt, txn, log, errors>>
hVars == <<sealed, late>>
vars == <<accepted, queue, blocked, writer, current, attempt, txn, log, phase,
          sealed, late, errors>>

Init == /\ accepted = 0 /\ queue = <<>> /\ blocked = {}
        /\ writer = "opening" /\ current = 0 /\ attempt = 0
        /\ txn = <<>> /\ log = <<>>
        /\ phase = "serving" /\ sealed = 0 /\ late = {} /\ errors = 0

-----------------------------------------------------------------------------
(* enqueue_write: put waits while the queue is full.                       *)

Full == Len(queue) >= QueueCap

(* The sentinel has been put (stop_writer is past its put).                *)
Sealed == phase \in {"waiting", "stopped"}

Accept(p) == /\ ~Full
             /\ accepted' = accepted + 1
             /\ queue' = Append(queue, accepted + 1)
             /\ late' = IF Sealed THEN late \cup {p} ELSE late
             /\ UNCHANGED sealed

MayWrite(p) == /\ phase = "serving" \/ p \in Detached
               /\ p \notin blocked
               /\ accepted + Cardinality(blocked) < MaxWrites

Put(p) == /\ MayWrite(p)
          /\ Accept(p)
          /\ UNCHANGED <<blocked, wVars, phase>>

PutBlocks(p) == /\ MayWrite(p)
                /\ Full
                /\ blocked' = blocked \cup {p}
                /\ UNCHANGED <<accepted, queue, hVars, wVars, phase>>

PutResumes(p) == /\ p \in blocked
                 /\ Accept(p)
                 /\ blocked' = blocked \ {p}
                 /\ UNCHANGED <<wVars, phase>>

-----------------------------------------------------------------------------
(* _writer_loop.  It ends "stopped" by the sentinel, "dead" when it gave   *)
(* up a statement, "broken" by an error that is not retried.               *)

Open == /\ writer = "opening"
        /\ writer' = "idle"
        /\ UNCHANGED <<accepted, queue, blocked, current, attempt, txn, log, phase, hVars, errors>>

Get == /\ writer = "idle" /\ queue # <<>>
       /\ queue' = Tail(queue)
       /\ IF Head(queue) = Stop
          THEN writer' = "stopped" /\ UNCHANGED <<current, attempt>>
          ELSE writer' = "executing" /\ current' = Head(queue) /\ attempt' = 1
       /\ UNCHANGED <<accepted, blocked, txn, log, phase, hVars, errors>>

Execute == /\ writer = "executing"
           /\ txn' = Append(txn, current)
           /\ writer' = "committing"
           /\ UNCHANGED <<accepted, queue, blocked, current, attempt, log, phase, hVars, errors>>

Commit == /\ writer = "committing"
          /\ log' = log \o txn
          /\ txn' = <<>>
          /\ writer' = "idle"
          /\ UNCHANGED <<accepted, queue, blocked, current, attempt, phase, hVars, errors>>

RetryOrSkip(openTxn) ==
    IF attempt < Attempts
    THEN writer' = "executing" /\ attempt' = attempt + 1 /\ txn' = openTxn
    ELSE writer' = "idle" /\ txn' = <<>> /\ UNCHANGED attempt
RetryOnceLess(openTxn) ==
    IF attempt + 1 < Attempts
    THEN writer' = "executing" /\ attempt' = attempt + 1 /\ txn' = openTxn
    ELSE writer' = "dead" /\ txn' = <<>> /\ UNCHANGED attempt
(* The third failure is raised out of the loop: the connection is closed,  *)
(* which rolls the transaction back, and nobody starts another writer.     *)
RetryOrDie(openTxn) ==
    IF attempt < Attempts
    THEN writer' = "executing" /\ attempt' = attempt + 1 /\ txn' = openTxn
    ELSE writer' = "dead" /\ txn' = <<>> /\ UNCHANGED attempt

ExecuteFails == /\ writer = "executing"
                /\ errors < MaxErrors /\ errors' = errors + 1
                /\ RetryOrDie(txn)
                /\ UNCHANGED <<accepted, queue, blocked, current, log, phase, hVars>>

CommitFails == /\ writer = "committing"
               /\ errors < MaxErrors /\ errors' = errors + 1
               /\ \E left \in {<<>>, txn} : RetryOrDie(left)
               /\ UNCHANGED <<accepted, queue, blocked, current, log, phase, hVars>>

(* Only aiosqlite.Error is retried: any other exception, and any error     *)
(* while the connection is opened, leaves the loop at once.                *)
WriterRaises == /\ writer \in {"opening", "executing", "committing"}
                /\ writer' = "broken" /\ txn' = <<>>
                /\ UNCHANGED <<accepted, queue, blocked, current, attempt, log, phase, hVars, errors>>

-----------------------------------------------------------------------------
(* Shutdown.                                                               *)

(* The server runs the end of the lifespan when its requests are done; the *)
(* background tasks are then cancelled, wherever they wait.                *)
CancelTasks == /\ phase = "serving"
               /\ blocked \cap Clients = {}
               /\ phase' = "stopping"
               /\ blocked' = blocked \ Background
               /\ UNCHANGED <<accepted, queue, hVars, wVars>>

PutNoSentinel == queue' = Append(queue, -1)
PutSentinelFirst == queue' = <<Stop>> \o queue
PutSentinel == queue' = Append(queue, Stop)

StopWriter == /\ phase = "stopping" /\ ~Full
              /\ PutSentinel
              /\ phase' = "waiting" /\ sealed' = accepted
              /\ UNCHANGED <<accepted, blocked, late, wVars>>

(* await writer_task returns: the task is over, one way or the other.      *)
StopWriterReturns == /\ phase = "waiting"
                     /\ writer \in {"stopped", "dead", "broken"}
                     /\ phase' = "stopped"
                     /\ UNCHANGED <<accepted, queue, blocked, hVars, wVars>>

Next == \/ \E p \in Producers : Put(p) \/ PutBlocks(p) \/ PutResumes(p)
        \/ Open \/ Get \/ Execute \/ Commit \/ ExecuteFails \/ CommitFails \/ WriterRaises
        \/ CancelTasks \/ StopWriter \/ StopWriterReturns

Spec == Init /\ [][Next]_vars

(* The event loop schedules the writer and the shutdown; SQLite answers,   *)
(* if only with an error.                                                  *)
Fairness == /\ WF_vars(Open \/ WriterRaises) /\ WF_vars(Get)
            /\ WF_vars(Execute \/ ExecuteFails \/ WriterRaises)
            /\ WF_vars(Commit \/ CommitFails \/ WriterRaises)
            /\ WF_vars(StopWriter) /\ WF_vars(StopWriterReturns)
            /\ \A p \in Producers : WF_vars(PutResumes(p))

FairSpec == Spec /\ Fairness

-----------------------------------------------------------------------------
(* Properties.                                                             *)

TypeOK == /\ accepted \in Nat
          /\ queue \in Seq(Nat)
          /\ blocked \subseteq Producers
          /\ writer \in {"opening", "idle", "executing", "committing",
                         "stopped", "dead", "broken"}
          /\ current \in Nat /\ attempt \in Nat
          /\ txn \in Seq(Nat) /\ log \in Seq(Nat)
          /\ phase \in {"serving", "stopping", "waiting", "stopped"}
          /\ sealed \in Nat /\ late \subseteq Producers
          /\ errors \in Nat

(* The database holds the effects of the accepted statements in the order  *)
(* of acceptance, with no statement left out before one that is in: a      *)
(* statement may be there twice (a retry in a transaction that a failed    *)
(* commit left open), but only next to itself.  So the last writer wins in *)
(* every table, through errors, retries and the death of the writer.       *)
CommitOrder ==
    /\ log # <<>> => log[1] = 1
    /\ \A i \in 1 .. Len(log) - 1 : log[i + 1] \in {log[i], log[i] + 1}

(* The promise of module WriteQueue: every step of the write path accepts  *)
(* one statement, makes the oldest accepted one durable, puts the sentinel *)
(* or ends with everything before it durable, or changes none of these.    *)
(* What a failed commit leaves in an open transaction is never seen to     *)
(* commit two statements at once.                                          *)
LastCommitted == IF log = <<>> THEN 0 ELSE log[Len(log)]
Promise == INSTANCE WriteQueue WITH durable <- LastCommitted, open <- ~Sealed,
                                    ended <- (writer = "stopped")
ImplementsWriteQueue == Promise!Spec

(* A writer that ends by the sentinel has committed everything that was    *)
(* accepted before it, through errors, retries and a full queue, and what  *)
(* came behind the sentinel, which is lost, is from detached notification  *)
(* tasks: requests are done and background tasks cancelled before          *)
(* stop_writer, those that wait for room in the queue included.            *)
OrderlyStopIsComplete ==
    writer = "stopped" => LastCommitted = sealed /\ late \subseteq Detached

(* The writer has left its loop without reaching the sentinel: it gave a   *)
(* statement up after so many SQLite errors, or met another exception.     *)
GaveUp == writer = "dead" /\ errors >= Attempts

(* Every accepted statement is committed, unless it came behind the        *)
(* sentinel, or the writer met an exception that is not retried, or gave a *)
(* statement up, for which it takes as many errors as there are attempts.  *)
(* After that nobody commits: there is no second writer.                   *)
EveryWriteCommits ==
    \A n \in 1 .. MaxWrites :
        accepted >= n ~> \/ LastCommitted >= n
                         \/ Sealed /\ n > sealed
                         \/ writer = "broken" \/ GaveUp

(* The shutdown that server/main.py began ends: the sentinel finds room,   *)
(* the writer reaches it, stop_writer returns, whatever fails.  The one    *)
(* exception is a writer that ended before and left the queue full: then   *)
(* stop_writer waits for ever to put the sentinel.                         *)
ShutdownEnds ==
    phase # "serving" ~> \/ phase = "stopped"
                         \/ phase = "stopping" /\ Full /\ writer \in {"dead", "broken"}
=============================================================================
