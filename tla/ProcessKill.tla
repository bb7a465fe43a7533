----------------------------- MODULE ProcessKill -----------------------------
(***************************************************************************)
(* The termination of a process, from the row the operator sees to the     *)
(* signal: the page posts a process number, the server looks the number up *)
(* in its latest snapshot (server/api/processes.py) and sends name and     *)
(* start time of what it finds there to the agent, which compares them     *)
(* with /proc, opens the process and signals it                            *)
(* (agent/executor/process.go).  The command and its answer travel as in   *)
(* CommandResults.                                                         *)
(*                                                                         *)
(* A process is one life of a process number; its name and start time tell *)
(* it from the others.  Since Go 1.23 os.FindProcess opens a pidfd, so a   *)
(* handle stays with the process it was opened for.                        *)
(***************************************************************************)
EXTENDS CommandResults

CONSTANTS Process, NoProcess,
          PidOf,            \* the number of each process
          ProtectedProcess  \* names that server and agent refuse

ASSUME ProcessKillAssumption ==
    NoProcess \notin Process /\ ProtectedProcess \subseteq Process

Command == {"kill_process", "force_kill_process"}

VARIABLES
    os,        \* processes that run
    born,      \* processes that have run so far
    snapshot,  \* _latest_processes of the server
    chosen,    \* selectedProcess of the confirmation a request comes from
    command,   \* the command of each request
    payload,   \* the process whose name and start time a command carries
    step,      \* where the executor is in the command that is running
    before,    \* processes that had run when it read /proc
    handle,    \* the process it has opened
    signalled, \* signals sent
    status     \* the result of each command

osVars == <<os, born>>
viewVars == <<snapshot, chosen, command>>
executorVars == <<payload, step, before, handle, signalled, status>>
killVars == <<vars, osVars, viewVars, executorVars>>

KillInit ==
    /\ Init
    /\ os \in {s \in SUBSET (Process \ ProtectedProcess) : Cardinality(s) = 1}
    /\ born = os /\ snapshot = {}
    /\ chosen = [r \in Request |-> NoProcess]
    /\ command \in [Request -> Command]
    /\ payload = [r \in Request |-> NoProcess]
    /\ step = "idle" /\ before = {} /\ handle = NoProcess
    /\ signalled = {} /\ status = [r \in Request |-> "none"]

WithPid(procs, pid) == {p \in procs : PidOf[p] = pid}

-----------------------------------------------------------------------------
(* The host.                                                               *)

ProcessStarts(p) ==
    /\ p \notin born /\ WithPid(os, PidOf[p]) = {}
    /\ os' = os \cup {p} /\ born' = born \cup {p}
    /\ UNCHANGED <<vars, viewVars, executorVars>>

ProcessExits(p) ==
    /\ os' = os \ {p} /\ p \in os
    /\ UNCHANGED <<born, vars, viewVars, executorVars>>

-----------------------------------------------------------------------------
(* The snapshot and the page.                                              *)

update_processes ==
    /\ session /\ snapshot # os
    /\ snapshot' = os
    /\ UNCHANGED <<chosen, command, vars, osVars, executorVars>>

(* The operator chooses a row of the page that has just been fetched; the   *)
(* confirmation may stay open for as long as one likes.                    *)
ChooseRow(r, p) ==
    /\ req[r] = "new" /\ chosen[r] = NoProcess
    /\ p \in snapshot \ ProtectedProcess
    /\ chosen' = [chosen EXCEPT ![r] = p]
    /\ UNCHANGED <<snapshot, command, vars, osVars, executorVars>>

-----------------------------------------------------------------------------
(* _queue_process_command on a primary.                                    *)

(* Not in the snapshot (404), or protected there (403).                    *)
Refuse(r) ==
    /\ req[r] = "new" /\ chosen[r] # NoProcess
    /\ WithPid(snapshot, PidOf[chosen[r]]) \subseteq ProtectedProcess
    /\ req' = [req EXCEPT ![r] = "failed"]
    /\ UNCHANGED <<ms, session, id, pending, future, wire, running, results,
                   osVars, viewVars, executorVars>>

(* The payload names what has the number now, in the server's snapshot.    *)
Post(r) ==
    \E p \in WithPid(snapshot, PidOf[chosen[r]]) \ ProtectedProcess :
        /\ \/ SendWithoutAgent(r) \/ Send(r) \/ SendRaises(r)
        /\ payload' = [payload EXCEPT ![r] = p]
        /\ UNCHANGED <<osVars, viewVars, step, before, handle, signalled, status>>

PostChosen(r) == chosen[r] # NoProcess /\ Post(r)

(* Steps of the command that leave the processes alone.                    *)
Plumbing == /\ \/ \E r \in Request : Return(r) \/ Timeout(r)
               \/ Receive \/ SessionEnds \/ SessionBegins \/ Tick
            /\ UNCHANGED <<osVars, viewVars, executorVars>>

-----------------------------------------------------------------------------
(* The executor.                                                           *)

Reject ==
    /\ AgentRejects
    /\ status' = [status EXCEPT ![Head(wire)] = "error"]
    /\ UNCHANGED <<osVars, viewVars, payload, step, before, handle, signalled>>

Begin ==
    /\ AgentStarts
    /\ step' = "check"
    /\ UNCHANGED <<osVars, viewVars, payload, before, handle, signalled, status>>

Finish(outcome) ==
    /\ AgentFinishes
    /\ status' = [status EXCEPT ![running] = outcome]
    /\ step' = "idle" /\ handle' = NoProcess /\ before' = {}
    /\ UNCHANGED <<osVars, viewVars, payload, signalled>>

At(s) == running # NoRequest /\ step = s
Goto(s) == /\ step' = s
           /\ UNCHANGED <<vars, osVars, viewVars, payload, status>>
Target == WithPid(os, PidOf[payload[running]])

(* IsDeniedPID and ensureProcessIdentity.                                  *)
SameNumber == Target # {} /\ Target \cap ProtectedProcess = {}
SameProcess == Target = {payload[running]}
ensureProcessIdentity ==
    /\ At("check")
    /\ \/ ~SameProcess /\ Finish("error")
       \/ SameProcess /\ Goto("open") /\ before' = born /\ UNCHANGED <<handle, signalled>>

(* os.FindProcess; a process that is not there fails at its first signal.  *)
FindProcess ==
    /\ At("open")
    /\ \/ Target = {} /\ Finish("error")
       \/ \E p \in Target : handle' = p /\ Goto("first") /\ UNCHANGED <<before, signalled>>

Signal(p, sig) ==
    signalled' = signalled \cup {[req |-> running, sig |-> sig, process |-> p,
                                  newer |-> p \notin before]}

FirstSignal ==
    /\ At("first")
    /\ \/ handle \notin os /\ Finish("error")
       \/ /\ handle \in os
          /\ Signal(handle, IF command[running] = "kill_process" THEN "TERM" ELSE "KILL")
          /\ Goto("wait") /\ UNCHANGED <<before, handle>>

(* waitProcessExit: signal 0 fails once the process is gone.               *)
WaitProcessExit ==
    /\ At("wait") \/ At("waitKilled")
    /\ handle \notin os
    /\ Finish("success")

WaitIsOverQuietly ==
    /\ handle \in os
    /\ \/ At("wait") /\ command[running] = "kill_process"
          /\ Goto("second") /\ UNCHANGED <<before, handle, signalled>>
       \/ At("wait") /\ command[running] = "force_kill_process" /\ Finish("success")
       \/ At("waitKilled") /\ Finish("success")
WaitIsOver ==
    /\ handle \in os
    /\ \/ At("wait") /\ command[running] = "kill_process"
          /\ Goto("second") /\ UNCHANGED <<before, handle, signalled>>
       \/ At("wait") /\ command[running] = "force_kill_process" /\ Finish("error")
       \/ At("waitKilled") /\ Finish("error")

(* SIGKILL after the five seconds of grace.                                *)
SecondSignalByPid ==
    /\ At("second")
    /\ \/ Target = {} /\ Finish("error")
       \/ \E p \in Target : Signal(p, "KILL") /\ Goto("waitKilled") /\ UNCHANGED <<before, handle>>
SecondSignal ==
    /\ At("second")
    /\ \/ handle \notin os /\ Finish("error")
       \/ handle \in os /\ Signal(handle, "KILL") /\ Goto("waitKilled")
          /\ UNCHANGED <<before, handle>>

KillNext ==
    \/ \E p \in Process : ProcessStarts(p) \/ ProcessExits(p)
    \/ update_processes
    \/ \E r \in Request : \/ \E p \in Process : ChooseRow(r, p)
                          \/ Refuse(r) \/ PostChosen(r)
    \/ Plumbing \/ Reject \/ Begin
    \/ ensureProcessIdentity \/ FindProcess \/ FirstSignal
    \/ WaitProcessExit \/ WaitIsOver \/ SecondSignal

KillSpec == KillInit /\ [][KillNext]_killVars

-----------------------------------------------------------------------------
(* Properties.                                                             *)

KillTypeOK ==
    /\ TypeOK
    /\ os \subseteq born /\ born \subseteq Process
    /\ snapshot \subseteq born
    /\ chosen \in [Request -> born \cup {NoProcess}] /\ command \in [Request -> Command]
    /\ payload \in [Request -> born \cup {NoProcess}]
    /\ step \in {"idle", "check", "open", "first", "wait", "second", "waitKilled"}
    /\ before \subseteq born /\ handle \in born \cup {NoProcess}
    /\ signalled \subseteq [req : Request, sig : {"TERM", "KILL"}, process : born, newer : BOOLEAN]
    /\ status \in [Request -> {"none", "success", "error"}]
    /\ step = "idle" <=> running = NoRequest

(* One command signals one process: the SIGKILL that follows after five    *)
(* seconds never hits a process that has taken over the number meanwhile.  *)
OneProcessPerCommand ==
    \A s, t \in signalled : s.req = t.req => s.process = t.process

(* A process other than the one the payload names can only be signalled    *)
(* when it started between the reading of /proc and the opening of the     *)
(* process; whatever had the number before is refused, however old the     *)
(* snapshot was and however long the command was on its way.               *)
StrangerIsNewer ==
    \A s \in signalled : s.process # payload[s.req] => s.newer

(* The agent reports success only for a process that is gone, and the      *)
(* answer that a request gets by its own command says so of that process.  *)
SuccessMeansGone ==
    \A s \in signalled : status[s.req] = "success" => s.process \notin os

(* "Перед этим проверяет, что PID всё ещё принадлежит тому же процессу,    *)
(* который видел UI" (agent/executor/process.go:72): the process that      *)
(* passes the check is the one the operator saw in the confirmation.       *)
SignalledIsWhatUiSaw ==
    \A s \in signalled : ~s.newer => s.process = chosen[s.req]

(* The promise of module Termination: a command hits one process at most   *)
(* and has one outcome, which answers one request at most, though ids may  *)
(* collide, results come late and sessions break.                          *)
Asked == {r \in Request : id[r] # 0}
HitBy == [r \in Request |-> {s.process : s \in {t \in signalled : t.req = r}}]
Promise == INSTANCE Termination
               WITH asked <- Asked, hit <- HitBy, outcome <- status, answer <- future
ImplementsTermination == Promise!Spec
=============================================================================
