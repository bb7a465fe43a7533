------------------------------ MODULE Failover ------------------------------
(***************************************************************************)
(* The warm standby: the primary lock of server/deployment.py, the life of *)
(* the API process around it (server/main.py), the failover orchestrator   *)
(* that a systemd timer runs on a standby (deploy/nullius-failover-        *)
(* orchestrator.sh) and the promotion that it, or the operator, starts     *)
(* (deploy/nullius-promote-standby.sh).                                    *)
(*                                                                         *)
(* flock(2) gives an exclusive lock on a path to one open file; the kernel *)
(* releases it with the process.  Everybody who only wants to know whether *)
(* the lock is held takes it for a moment.  systemd restarts the API for   *)
(* ever (Restart=always).                                                  *)
(***************************************************************************)
EXTENDS Naturals, FiniteSets

CONSTANTS Node,
          Primary,     \* nodes whose configured role is primary at first
          LockPath,    \* deployment.primary_lock_path as each node is installed
          DefaultPath, \* the path of a configuration that names none
          Peer,        \* the node that failover.primary_api_url points to
          Free,        \* nobody holds a lock
          Threshold,   \* failover.failure_threshold
          Cooloff,     \* failover.cooloff_seconds, in runs of the timer
          MaxOutages,  \* bound: machines that go down
          MaxManual,   \* bound: promotions by the operator
          MaxInspections \* bound: inspections of the lock by the API

ASSUME FailoverAssumption ==
    /\ Primary \subseteq Node
    /\ Peer \in [Node -> Node]
    /\ LockPath = [n \in Node |-> LockPath[n]]
    /\ Threshold \in Nat \ {0} /\ Cooloff \in Nat \ {0}
    /\ MaxOutages \in Nat /\ MaxManual \in Nat /\ MaxInspections \in Nat

(* The open files that may hold a lock: the primary's own, the inspection  *)
(* of GET /api/deployment and of the start, the orchestrator's, promote's. *)
Holder == Node \X {"api", "inspect", "orchestrator", "promote"}
ASSUME FreeAssumption == Free \notin Holder

Path == {LockPath[n] : n \in Node} \cup {DefaultPath}

VARIABLES
    on,        \* machines that run
    role,      \* deployment.role in the configuration file
    path,      \* deployment.primary_lock_path in the configuration file
    api,       \* position of the API process
    mode,      \* _deployment_role of the API process
    lock,      \* who holds the lock of each path
    orch,      \* position of the orchestrator
    failures,  \* consecutive_failures of its state file, up to Threshold
    cool,      \* what is left of the cooloff after last_promote_attempt_at
    promote,   \* position of nullius-promote-standby
    forced,    \* it was called with --force
    outages, manual, inspections  \* what the bounds count

vars == <<on, role, path, api, mode, lock, orch, failures, cool, promote, forced,
          outages, manual, inspections>>
orchVars == <<orch, failures, cool>>
promoteVars == <<promote, forced>>
counters == <<outages, manual, inspections>>

Init == /\ on = Node
        /\ role = [n \in Node |-> IF n \in Primary THEN "primary" ELSE "standby"]
        /\ path = LockPath
        /\ api = [n \in Node |-> "down"]
        /\ mode = [n \in Node |-> "standby"]
        /\ lock = [p \in Path |-> Free]
        /\ orch = [n \in Node |-> "idle"]
        /\ failures = [n \in Node |-> 0] /\ cool = [n \in Node |-> 0]
        /\ promote = [n \in Node |-> "idle"] /\ forced = [n \in Node |-> FALSE]
        /\ outages = 0 /\ manual = 0 /\ inspections = 0

-----------------------------------------------------------------------------
(* flock, non-blocking.                                                    *)

Held(n) == lock[path[n]] # Free
Holds(n, what) == lock[path[n]] = <<n, what>>
Flock(n, what) == /\ ~Held(n)
                  /\ lock' = [lock EXCEPT ![path[n]] = <<n, what>>]
Unlock(n, what) == /\ Holds(n, what)
                   /\ lock' = [lock EXCEPT ![path[n]] = Free]
(* The kernel's release when every process of the kinds given dies.        *)
Released(n, kinds) == [p \in Path |-> IF lock[p] \in {n} \X kinds THEN Free ELSE lock[p]]

-----------------------------------------------------------------------------
(* The API process.                                                        *)

StartUnlocked(n) == UNCHANGED lock
(* init_deployment_role on a primary: no lock, no start.                   *)
StartPrimary(n) == Flock(n, "api")

StartAsPrimary(n) ==
    /\ n \in on /\ api[n] = "down" /\ role[n] = "primary"
    /\ StartPrimary(n)
    /\ api' = [api EXCEPT ![n] = "starting"]
    /\ mode' = [mode EXCEPT ![n] = "primary"]
    /\ UNCHANGED <<on, role, path, orchVars, promoteVars, counters>>

(* The RuntimeError of _acquire_primary_lock ends the process; systemd     *)
(* tries again after RestartSec.                                           *)
Refuse(n) ==
    /\ n \in on /\ api[n] = "down" /\ role[n] = "primary"
    /\ Held(n)
    /\ api' = [api EXCEPT ![n] = "refused"]
    /\ UNCHANGED <<on, role, path, mode, lock, orchVars, promoteVars, counters>>

RestartAfterRefusal(n) ==
    /\ api[n] = "refused"
    /\ api' = [api EXCEPT ![n] = "down"]
    /\ UNCHANGED <<on, role, path, mode, lock, orchVars, promoteVars, counters>>

StartAsStandby(n) ==
    /\ n \in on /\ api[n] = "down" /\ role[n] = "standby"
    /\ api' = [api EXCEPT ![n] = "starting"]
    /\ mode' = [mode EXCEPT ![n] = "standby"]
    /\ UNCHANGED <<on, role, path, lock, orchVars, promoteVars, counters>>

Serve(n) ==
    /\ api[n] = "starting"
    /\ api' = [api EXCEPT ![n] = "serving"]
    /\ UNCHANGED <<on, role, path, mode, lock, orchVars, promoteVars, counters>>

Running(n) == api[n] \in {"starting", "serving", "stopping"}

(* The end of the lifespan: the background tasks are cancelled, the writer *)
(* is stopped, and the lock is released last.                              *)
Stopped(n) ==
    /\ api[n] = "stopping"
    /\ api' = [api EXCEPT ![n] = "down"]
    /\ lock' = Released(n, {"api", "inspect"})
    /\ UNCHANGED <<on, role, path, mode, orchVars, promoteVars, counters>>

(* The process dies at any time; the kernel closes its files.              *)
Dies(n) ==
    /\ Running(n)
    /\ outages < MaxOutages /\ outages' = outages + 1
    /\ api' = [api EXCEPT ![n] = "down"]
    /\ lock' = Released(n, {"api", "inspect"})
    /\ UNCHANGED <<on, role, path, mode, orchVars, promoteVars, manual, inspections>>

(* inspect_primary_lock: GET /api/deployment takes the lock if it is free  *)
(* and gives it back.                                                      *)
InspectBegin(n) ==
    /\ api[n] \in {"starting", "serving"}
    /\ inspections < MaxInspections /\ inspections' = inspections + 1
    /\ Flock(n, "inspect")
    /\ UNCHANGED <<on, role, path, api, mode, orchVars, promoteVars, outages, manual>>

InspectEnd(n) ==
    /\ Unlock(n, "inspect")
    /\ UNCHANGED <<on, role, path, api, mode, orchVars, promoteVars, counters>>

-----------------------------------------------------------------------------
(* The orchestrator, one run of the timer at a time.                       *)

MayRun(n) == n \in on /\ orch[n] = "idle" /\ role[n] = "standby"

(* The peer answers; its role is not asked for.                            *)
SeesHealthy(n) ==
    /\ MayRun(n)
    /\ Peer[n] \in on /\ api[Peer[n]] = "serving"
    /\ failures' = [failures EXCEPT ![n] = 0]
    /\ UNCHANGED <<on, role, path, api, mode, lock, orch, cool, promoteVars, counters>>

(* It does not answer in time, for whatever reason.  Below the threshold,  *)
(* or in the cooloff, the run ends here.                                   *)
SeesEnough(n, f) == f >= Threshold /\ cool[n] = 0

CountedPast(n) == failures[n] + 1
Counted(n) == IF failures[n] < Threshold THEN failures[n] + 1 ELSE Threshold

SeesFailure(n) ==
    /\ MayRun(n)
    /\ LET f == Counted(n)
       IN /\ failures' = [failures EXCEPT ![n] = f]
          /\ orch' = IF SeesEnough(n, f) THEN [orch EXCEPT ![n] = "checking"] ELSE orch
    /\ UNCHANGED <<on, role, path, api, mode, lock, cool, promoteVars, counters>>

(* The answer is an error the script does not catch (a reply cut short, a  *)
(* body that is no object): the run ends and leaves no trace.              *)
ProbeRaises(n) ==
    /\ MayRun(n)
    /\ Peer[n] \in on
    /\ UNCHANGED vars

(* LOCKED: no promotion.                                                   *)
OrchSeesLock(n) ==
    /\ orch[n] = "checking" /\ Held(n) /\ ~Holds(n, "orchestrator")
    /\ orch' = [orch EXCEPT ![n] = "idle"]
    /\ UNCHANGED <<on, role, path, api, mode, lock, failures, cool, promoteVars, counters>>

OrchProbes(n) ==
    /\ orch[n] = "checking"
    /\ Flock(n, "orchestrator")
    /\ UNCHANGED <<on, role, path, api, mode, orchVars, promoteVars, counters>>

OrchUnlocks(n) ==
    /\ orch[n] = "checking"
    /\ Unlock(n, "orchestrator")
    /\ orch' = [orch EXCEPT ![n] = "unlocked"]
    /\ UNCHANGED <<on, role, path, api, mode, failures, cool, promoteVars, counters>>

(* The attempt is written to the state file before promote runs.  (One     *)
(* promotion at a time on a node.)                                         *)
OrchPromotes(n) ==
    /\ orch[n] = "unlocked"
    /\ promote[n] = "idle"
    /\ cool' = [cool EXCEPT ![n] = Cooloff]
    /\ orch' = [orch EXCEPT ![n] = "promoting"]
    /\ promote' = [promote EXCEPT ![n] = "asked"]
    /\ forced' = [forced EXCEPT ![n] = FALSE]
    /\ UNCHANGED <<on, role, path, api, mode, lock, failures, counters>>

OrchDone(n) ==
    /\ orch[n] = "promoting" /\ promote[n] = "idle"
    /\ orch' = [orch EXCEPT ![n] = "idle"]
    /\ UNCHANGED <<on, role, path, api, mode, lock, failures, cool, promoteVars, counters>>

CoolsDown(n) ==
    /\ cool[n] > 0
    /\ cool' = [cool EXCEPT ![n] = @ - 1]
    /\ UNCHANGED <<on, role, path, api, mode, lock, orch, failures, promoteVars, counters>>

-----------------------------------------------------------------------------
(* nullius-promote-standby.                                                *)

ManualPromote(n, force) ==
    /\ n \in on /\ promote[n] = "idle" /\ orch[n] # "promoting"
    /\ manual < MaxManual /\ manual' = manual + 1
    /\ promote' = [promote EXCEPT ![n] = "asked"]
    /\ forced' = [forced EXCEPT ![n] = force]
    /\ UNCHANGED <<on, role, path, api, mode, lock, orchVars, outages, inspections>>

PromoteTo(n, where) == /\ promote' = [promote EXCEPT ![n] = where]
                       /\ UNCHANGED forced

(* The lock is held: an error, unless --force was given.                   *)
PromoteSeesLock(n) ==
    /\ promote[n] = "asked" /\ Held(n) /\ ~Holds(n, "promote")
    /\ PromoteTo(n, IF forced[n] THEN "backup" ELSE "idle")
    /\ UNCHANGED <<on, role, path, api, mode, lock, orchVars, counters>>

PromoteProbes(n) ==
    /\ promote[n] = "asked"
    /\ Flock(n, "promote")
    /\ UNCHANGED <<on, role, path, api, mode, orchVars, promoteVars, counters>>

PromoteUnlocks(n) ==
    /\ promote[n] = "asked"
    /\ Unlock(n, "promote")
    /\ PromoteTo(n, "backup")
    /\ UNCHANGED <<on, role, path, api, mode, orchVars, counters>>

(* The backup and its verification; set -e ends the script if one fails.   *)
PromoteBacksUp(n) ==
    /\ promote[n] = "backup"
    /\ \E where \in {"configuring", "idle"} : PromoteTo(n, where)
    /\ UNCHANGED <<on, role, path, api, mode, lock, orchVars, counters>>

PromoteConfigures(n) ==
    /\ promote[n] = "configuring"
    /\ role' = [role EXCEPT ![n] = "primary"]
    /\ PromoteTo(n, "restarting")
    /\ UNCHANGED <<on, path, api, mode, lock, orchVars, counters>>

(* systemctl restart nullius-api.                                          *)
NoRestart(n) == UNCHANGED api
StopForRestart(n) == api' = IF api[n] \in {"starting", "serving"}
                            THEN [api EXCEPT ![n] = "stopping"] ELSE api

PromoteRestarts(n) ==
    /\ promote[n] = "restarting"
    /\ StopForRestart(n)
    /\ PromoteTo(n, "idle")
    /\ UNCHANGED <<on, role, path, mode, lock, orchVars, counters>>

-----------------------------------------------------------------------------
(* Machines.                                                               *)

(* What is on disk stays, but for a file that is being written in place:   *)
(* it may be left empty.  An empty state file has no failures and no       *)
(* attempt; an empty configuration is a primary's, with the default path.  *)
PowerOff(n) ==
    /\ n \in on
    /\ outages < MaxOutages /\ outages' = outages + 1
    /\ on' = on \ {n}
    /\ api' = [api EXCEPT ![n] = "down"]
    /\ lock' = Released(n, {"api", "inspect", "orchestrator", "promote"})
    /\ orch' = [orch EXCEPT ![n] = "idle"]
    /\ promote' = [promote EXCEPT ![n] = "idle"]
    /\ \/ UNCHANGED <<failures, cool>>
       \/ /\ MayRun(n) \/ orch[n] = "unlocked"
          /\ failures' = [failures EXCEPT ![n] = 0]
          /\ cool' = [cool EXCEPT ![n] = 0]
    /\ \/ UNCHANGED <<role, path>>
       \/ /\ promote[n] = "configuring"
          /\ role' = [role EXCEPT ![n] = "primary"]
          /\ path' = [path EXCEPT ![n] = DefaultPath]
    /\ UNCHANGED <<mode, forced, manual, inspections>>

PowerOn(n) ==
    /\ n \notin on
    /\ on' = on \cup {n}
    /\ UNCHANGED <<role, path, api, mode, lock, orchVars, promoteVars, counters>>

Decide(n) == \/ OrchSeesLock(n) \/ OrchProbes(n) \/ OrchUnlocks(n)
             \/ OrchPromotes(n) \/ OrchDone(n)
Orchestrate(n) == SeesHealthy(n) \/ SeesFailure(n) \/ ProbeRaises(n) \/ Decide(n)
Promote(n) == \/ PromoteSeesLock(n) \/ PromoteProbes(n) \/ PromoteUnlocks(n)
              \/ PromoteBacksUp(n) \/ PromoteConfigures(n) \/ PromoteRestarts(n)
RunApi(n) == \/ StartAsPrimary(n) \/ Refuse(n) \/ RestartAfterRefusal(n) \/ StartAsStandby(n) \/ Serve(n)
             \/ Stopped(n) \/ Dies(n) \/ InspectBegin(n) \/ InspectEnd(n)

Next == \E n \in Node : \/ RunApi(n) \/ Orchestrate(n) \/ CoolsDown(n) \/ Promote(n)
                        \/ \E force \in BOOLEAN : ManualPromote(n, force)
                        \/ PowerOff(n) \/ PowerOn(n)

Spec == Init /\ [][Next]_vars

(* systemd restarts what ends, and its timer runs the orchestrator, which  *)
(* sees that a machine is off (while it is on, every probe may raise);     *)
(* scripts go on; time passes; the backup does not fail every time.        *)
(* Nobody has to power a machine on, call promote or inspect a lock.       *)
Fairness == \A n \in Node :
    /\ WF_vars(StartAsPrimary(n) \/ StartAsStandby(n) \/ RestartAfterRefusal(n)
               \/ Serve(n) \/ Stopped(n))
    /\ WF_vars(InspectEnd(n)) /\ WF_vars(CoolsDown(n))
    /\ WF_vars(SeesFailure(n) /\ Peer[n] \notin on) /\ WF_vars(Decide(n))
    /\ WF_vars(Promote(n)) /\ SF_vars(PromoteBacksUp(n) /\ promote'[n] = "configuring")

FairSpec == Spec /\ Fairness

-----------------------------------------------------------------------------
(* Properties.                                                             *)

TypeOK == /\ on \subseteq Node
          /\ role \in [Node -> {"primary", "standby"}]
          /\ path \in [Node -> Path]
          /\ api \in [Node -> {"down", "starting", "serving", "stopping", "refused"}]
          /\ mode \in [Node -> {"primary", "standby"}]
          /\ lock \in [Path -> Holder \cup {Free}]
          /\ orch \in [Node -> {"idle", "checking", "unlocked", "promoting"}]
          /\ failures \in [Node -> 0 .. Threshold]
          /\ cool \in [Node -> 0 .. Cooloff]
          /\ promote \in [Node -> {"idle", "asked", "backup", "configuring", "restarting"}]
          /\ forced \in [Node -> BOOLEAN]
          /\ outages \in Nat /\ manual \in Nat /\ inspections \in Nat

(* The API runs with the primary's rights: background loops and active     *)
(* response (background_tasks_enabled, active_response_enabled), from the  *)
(* start to the last write of its shutdown.                                *)
Active(n) == Running(n) /\ mode[n] = "primary"

(* Two nodes with the same lock path are never both active: not through a  *)
(* promotion that raced the return of the old primary, not by --force, not *)
(* after a crash (docs/failover-runbook.md, what protects from a split     *)
(* brain).                                                                 *)
AtMostOneActive ==
    \A m, n \in Node : Active(m) /\ Active(n) /\ path[m] = path[n] => m = n

(* What makes it so: an active node holds the lock of its path, for all of *)
(* its life, and only a live process holds one.                            *)
ActiveHoldsLock ==
    \A n \in Node : /\ Active(n) => Holds(n, "api")
                    /\ Holds(n, "api") => Active(n)

(* The promise of module Leadership: a node begins to act only when no     *)
(* node of its path does, and acts until its own process ends.             *)
Leaders == [p \in Path |-> {n \in Node : Active(n) /\ path[n] = p}]
Promise == INSTANCE Leadership WITH leaders <- Leaders
ImplementsLeadership == Promise!Spec

(* The orchestrator promotes by itself only when its threshold is reached  *)
(* at that moment, outside the cooloff of an earlier attempt, and never by *)
(* force: between the decision and the promotion the lock is probed, and   *)
(* the state it was decided on must still hold then.                       *)
PromotionIsDue ==
    [][\A n \in Node :
          orch[n] # "promoting" /\ orch'[n] = "promoting" =>
              failures[n] = Threshold /\ cool[n] = 0 /\ ~forced'[n]]_vars

(* When the peer of a standby is gone for good and the standby stays up,   *)
(* the standby becomes the active node by itself.                          *)
FailoverHappens ==
    \A n \in Node \ Primary :
        <>[](Peer[n] \notin on /\ n \in on) => <>[](Active(n))
=============================================================================
