--------------------------- MODULE FailoverProofs ---------------------------
(***************************************************************************)
(* Two nodes with the same lock path are never both active: for every set  *)
(* of nodes, every assignment of lock paths and of peers.  The inductive   *)
(* invariant is that an active node, and nobody who is not active, holds   *)
(* the lock of its path as its own; the exclusion follows because a path   *)
(* has one holder.                                                         *)
(***************************************************************************)
EXTENDS Failover, TLAPS

LEMMA InitType == Init => TypeOK
  BY FailoverAssumption DEF Init, TypeOK, Path

(* What taking and giving back a lock does to the locks.                    *)
LEMMA PathOfNode == ASSUME TypeOK PROVE \A n \in Node : path[n] \in Path
  BY DEF TypeOK

LEMMA FlockType ==
    ASSUME TypeOK, NEW n \in Node,
           NEW what \in {"api", "inspect", "orchestrator", "promote"}, Flock(n, what)
    PROVE  /\ lock' \in [Path -> Holder \cup {Free}]
           /\ lock'[path[n]] = <<n, what>>
           /\ \A p \in Path \ {path[n]} : lock'[p] = lock[p]
  BY PathOfNode DEF TypeOK, Flock, Holder

LEMMA UnlockType ==
    ASSUME TypeOK, NEW n \in Node,
           NEW what \in {"api", "inspect", "orchestrator", "promote"}, Unlock(n, what)
    PROVE  /\ lock' \in [Path -> Holder \cup {Free}]
           /\ lock'[path[n]] = Free
           /\ \A p \in Path \ {path[n]} : lock'[p] = lock[p]
  BY PathOfNode DEF TypeOK, Unlock

LEMMA ReleasedType ==
    ASSUME TypeOK, NEW n \in Node, NEW kinds, lock' = Released(n, kinds)
    PROVE  /\ lock' \in [Path -> Holder \cup {Free}]
           /\ \A p \in Path : lock'[p] = IF lock[p] \in {n} \X kinds THEN Free ELSE lock[p]
  BY DEF TypeOK, Released

LEMMA StepType == TypeOK /\ [Next]_vars => TypeOK'
  <1> SUFFICES ASSUME TypeOK, [Next]_vars PROVE TypeOK'
    OBVIOUS
  <1> USE FailoverAssumption DEF orchVars, promoteVars, counters
  <1>1. ASSUME NEW n \in Node, RunApi(n) PROVE TypeOK'
    <2>1. ASSUME StartAsPrimary(n) PROVE TypeOK'
      <3>1. lock' \in [Path -> Holder \cup {Free}]
        BY <2>1, FlockType DEF StartAsPrimary, StartPrimary
      <3> QED
        BY <2>1, <3>1 DEF StartAsPrimary, TypeOK
    <2>2. ASSUME Refuse(n) \/ RestartAfterRefusal(n) \/ StartAsStandby(n) \/ Serve(n)
          PROVE  TypeOK'
      BY <2>2 DEF Refuse, RestartAfterRefusal, StartAsStandby, Serve, TypeOK
    <2>3. ASSUME Stopped(n) \/ Dies(n) PROVE TypeOK'
      <3>1. lock' \in [Path -> Holder \cup {Free}]
        BY <2>3, ReleasedType DEF Stopped, Dies
      <3> QED
        BY <2>3, <3>1 DEF Stopped, Dies, TypeOK
    <2>4. ASSUME InspectBegin(n) \/ InspectEnd(n) PROVE TypeOK'
      <3>1. lock' \in [Path -> Holder \cup {Free}]
        BY <2>4, FlockType, UnlockType DEF InspectBegin, InspectEnd
      <3> QED
        BY <2>4, <3>1 DEF InspectBegin, InspectEnd, TypeOK
    <2> QED
      BY <1>1, <2>1, <2>2, <2>3, <2>4 DEF RunApi
  <1>2. ASSUME NEW n \in Node, Orchestrate(n) PROVE TypeOK'
    <2>1. ASSUME SeesHealthy(n) \/ SeesFailure(n) PROVE TypeOK'
      <3> USE DEF Counted
      <3>1. failures' \in [Node -> 0 .. Threshold]
        BY <2>1 DEF SeesHealthy, SeesFailure, TypeOK
      <3>2. orch' \in [Node -> {"idle", "checking", "unlocked", "promoting"}]
        BY <2>1 DEF SeesHealthy, SeesFailure, TypeOK
      <3>3. UNCHANGED <<on, role, path, api, mode, lock, cool, promote, forced,
                    outages, manual, inspections>>
        BY <2>1 DEF SeesHealthy, SeesFailure
      <3> QED
        BY <3>1, <3>2, <3>3 DEF TypeOK
    <2>2. ASSUME OrchSeesLock(n) \/ OrchDone(n) PROVE TypeOK'
      BY <2>2 DEF OrchSeesLock, OrchDone, TypeOK
    <2>5. ASSUME ProbeRaises(n) PROVE TypeOK'
      BY <2>5 DEF ProbeRaises, vars, TypeOK
    <2>4. ASSUME OrchPromotes(n) PROVE TypeOK'
      BY <2>4 DEF OrchPromotes, TypeOK
    <2>3. ASSUME OrchProbes(n) \/ OrchUnlocks(n) PROVE TypeOK'
      <3>1. lock' \in [Path -> Holder \cup {Free}]
        BY <2>3, FlockType, UnlockType DEF OrchProbes, OrchUnlocks
      <3> QED
        BY <2>3, <3>1 DEF OrchProbes, OrchUnlocks, TypeOK
    <2> QED
      BY <1>2, <2>1, <2>2, <2>3, <2>4, <2>5 DEF Orchestrate, Decide
  <1>3. ASSUME NEW n \in Node, CoolsDown(n) PROVE TypeOK'
    BY <1>3 DEF CoolsDown, TypeOK
  <1>4. ASSUME NEW n \in Node, Promote(n) PROVE TypeOK'
    <2>1. ASSUME PromoteSeesLock(n) \/ PromoteBacksUp(n) \/ PromoteConfigures(n)
                 \/ PromoteRestarts(n)
          PROVE  TypeOK'
      BY <2>1 DEF PromoteSeesLock, PromoteBacksUp, PromoteConfigures, PromoteRestarts,
                  PromoteTo, StopForRestart, TypeOK
    <2>2. ASSUME PromoteProbes(n) \/ PromoteUnlocks(n) PROVE TypeOK'
      <3>1. lock' \in [Path -> Holder \cup {Free}]
        BY <2>2, FlockType, UnlockType DEF PromoteProbes, PromoteUnlocks
      <3> QED
        BY <2>2, <3>1 DEF PromoteProbes, PromoteUnlocks, PromoteTo, TypeOK
    <2> QED
      BY <1>4, <2>1, <2>2 DEF Promote
  <1>5. ASSUME NEW n \in Node, NEW force \in BOOLEAN, ManualPromote(n, force) PROVE TypeOK'
    BY <1>5 DEF ManualPromote, TypeOK
  <1>6. ASSUME NEW n \in Node, PowerOff(n) PROVE TypeOK'
    <2>1. lock' \in [Path -> Holder \cup {Free}]
      BY <1>6, ReleasedType DEF PowerOff
    <2>2. failures' \in [Node -> 0 .. Threshold] /\ cool' \in [Node -> 0 .. Cooloff]
      BY <1>6 DEF PowerOff, TypeOK
    <2>3. role' \in [Node -> {"primary", "standby"}] /\ path' \in [Node -> Path]
      BY <1>6 DEF PowerOff, Path, TypeOK
    <2>4. /\ on' \subseteq Node /\ outages' \in Nat
          /\ api' \in [Node -> {"down", "starting", "serving", "stopping", "refused"}]
          /\ orch' \in [Node -> {"idle", "checking", "unlocked", "promoting"}]
          /\ promote' \in [Node -> {"idle", "asked", "backup", "configuring", "restarting"}]
          /\ UNCHANGED <<mode, forced, manual, inspections>>
      BY <1>6 DEF PowerOff, TypeOK
    <2> QED
      BY <2>1, <2>2, <2>3, <2>4 DEF TypeOK
  <1>7. ASSUME NEW n \in Node, PowerOn(n) PROVE TypeOK'
    BY <1>7 DEF PowerOn, TypeOK
  <1>8. CASE UNCHANGED vars
    BY <1>8 DEF vars, TypeOK
  <1> QED
    BY <1>1, <1>2, <1>3, <1>4, <1>5, <1>6, <1>7, <1>8 DEF Next

IInv == TypeOK /\ ActiveHoldsLock

(* A step that keeps the activity of every node and moves no lock of an    *)
(* API process keeps the invariant.                                        *)
LEMMA Preserved ==
    ASSUME TypeOK, ActiveHoldsLock,
           \A m \in Node : Active(m)' <=> Active(m),
           \A m \in Node : Holds(m, "api")' <=> Holds(m, "api")
    PROVE  ActiveHoldsLock'
  BY DEF ActiveHoldsLock

(* A lock that is taken or given back by somebody else than an API.        *)
LEMMA ProbeKeeps ==
    ASSUME TypeOK, NEW n \in Node, NEW what \in {"inspect", "orchestrator", "promote"},
           Flock(n, what) \/ Unlock(n, what), path' = path
    PROVE  \A m \in Node : Holds(m, "api")' <=> Holds(m, "api")
  <1> TAKE m \in Node
  <1>1. CASE path[m] = path[n]
    <2>1. lock[path[n]] # <<m, "api">>
      BY FreeAssumption DEF Flock, Unlock, Held, Holds, Holder
    <2>2. lock'[path[n]] \in {Free, <<n, what>>}
      BY FlockType, UnlockType
    <2>3. lock'[path[n]] # <<m, "api">>
      BY <2>2, FreeAssumption DEF Holder
    <2> QED
      BY <1>1, <2>1, <2>3 DEF Holds
  <1>2. CASE path[m] # path[n]
    <2>1. lock'[path[m]] = lock[path[m]]
      BY <1>2, FlockType, UnlockType, PathOfNode
    <2> QED
      BY <2>1 DEF Holds
  <1> QED
    BY <1>1, <1>2

(* The end of an API process, with the kernel's release of its locks.      *)
LEMMA EndKeeps ==
    ASSUME TypeOK, ActiveHoldsLock, NEW n \in Node, NEW kinds, "api" \in kinds,
           lock' = Released(n, kinds), mode' = mode,
           ~Running(n)', path' \in [Node -> Path],
           \A m \in Node \ {n} : (Running(m)' <=> Running(m)) /\ path'[m] = path[m]
    PROVE  ActiveHoldsLock'
  <1> SUFFICES ASSUME NEW m \in Node
               PROVE  Active(m)' <=> Holds(m, "api")'
    BY DEF ActiveHoldsLock
  <1>1. lock'[path'[m]] = IF lock[path'[m]] \in {n} \X kinds
                          THEN Free ELSE lock[path'[m]]
    BY ReleasedType
  <1>2. Free # <<m, "api">>
    BY FreeAssumption DEF Holder
  <1>3. CASE m = n
    <2>1. ~Active(m)'
      BY <1>3 DEF Active
    <2>2. <<n, "api">> \in {n} \X kinds
      OBVIOUS
    <2>3. lock'[path'[m]] # <<m, "api">>
      BY <1>1, <1>2, <1>3, <2>2
    <2> QED
      BY <2>1, <2>3 DEF Holds
  <1>4. CASE m # n
    <2>1. Active(m)' <=> Active(m)
      BY <1>4 DEF Active
    <2>2. <<m, "api">> \notin {n} \X kinds
      BY <1>4
    <2>3. Holds(m, "api")' <=> Holds(m, "api")
      BY <1>1, <1>2, <1>4, <2>2 DEF Holds
    <2> QED
      BY <2>1, <2>3 DEF ActiveHoldsLock
  <1> QED
    BY <1>3, <1>4

LEMMA InitInv == Init => IInv
  <1> SUFFICES ASSUME Init PROVE ActiveHoldsLock
    BY InitType DEF IInv
  <1>1. \A n \in Node : ~Active(n)
    BY DEF Init, Active, Running
  <1>2. ASSUME NEW n \in Node PROVE ~Holds(n, "api")
    <2>1. lock[path[n]] = Free
      BY InitType, PathOfNode DEF Init
    <2>2. <<n, "api">> \in Holder
      BY DEF Holder
    <2> QED
      BY <2>1, <2>2, FreeAssumption DEF Holds
  <1> QED
    BY <1>1, <1>2 DEF ActiveHoldsLock

LEMMA StepInv == IInv /\ [Next]_vars => IInv'
  <1> SUFFICES ASSUME TypeOK, ActiveHoldsLock, [Next]_vars PROVE ActiveHoldsLock'
    BY StepType DEF IInv
  <1> USE DEF orchVars, promoteVars, counters
  <1>1. ASSUME NEW n \in Node, StartAsPrimary(n) PROVE ActiveHoldsLock'
    <2>1. Flock(n, "api") /\ Active(n)' /\ path' = path
      BY <1>1 DEF StartAsPrimary, StartPrimary, Active, Running, TypeOK
    <2>2. lock'[path[n]] = <<n, "api">>
      BY <2>1, FlockType
    <2>3. ASSUME NEW m \in Node \ {n} PROVE Active(m)' <=> Holds(m, "api")'
      <3>1. Active(m)' <=> Active(m)
        BY <1>1 DEF StartAsPrimary, Active, Running, TypeOK
      <3>2. CASE path[m] = path[n]
        <4>1. ~Holds(m, "api")
          BY <2>1, <3>2, FreeAssumption DEF Flock, Held, Holds, Holder
        <4>2. ~Holds(m, "api")'
          BY <2>1, <2>2, <3>2 DEF Holds
        <4> QED
          BY <3>1, <4>1, <4>2 DEF ActiveHoldsLock
      <3>3. CASE path[m] # path[n]
        <4>1. lock'[path[m]] = lock[path[m]]
          BY <2>1, <3>3, FlockType, PathOfNode
        <4> QED
          BY <2>1, <3>1, <4>1 DEF ActiveHoldsLock, Holds
      <3> QED
        BY <3>2, <3>3
    <2> QED
      BY <2>1, <2>2, <2>3 DEF ActiveHoldsLock, Holds
  <1>2. ASSUME NEW n \in Node, StartAsStandby(n) PROVE ActiveHoldsLock'
    <2>1. ~Active(n) /\ ~Active(n)'
      BY <1>2 DEF StartAsStandby, Active, Running, TypeOK
    <2>2. \A m \in Node \ {n} : Active(m)' <=> Active(m)
      BY <1>2 DEF StartAsStandby, Active, Running, TypeOK
    <2>3. UNCHANGED <<lock, path>>
      BY <1>2 DEF StartAsStandby
    <2> QED
      BY <2>1, <2>2, <2>3, Preserved DEF Holds
  <1>3. ASSUME NEW n \in Node, Refuse(n) \/ RestartAfterRefusal(n) \/ Serve(n)
        PROVE  ActiveHoldsLock'
    <2>1. \A m \in Node : Active(m)' <=> Active(m)
      BY <1>3 DEF Refuse, RestartAfterRefusal, Serve, Active, Running, TypeOK
    <2>2. UNCHANGED <<lock, path>>
      BY <1>3 DEF Refuse, RestartAfterRefusal, Serve
    <2> QED
      BY <2>1, <2>2, Preserved DEF Holds
  <1>4. ASSUME NEW n \in Node, Stopped(n) \/ Dies(n) \/ PowerOff(n)
        PROVE  ActiveHoldsLock'
    <2>1. PICK kinds : "api" \in kinds /\ lock' = Released(n, kinds)
      BY <1>4 DEF Stopped, Dies, PowerOff
    <2>2. /\ ~Running(n)'
          /\ \A m \in Node \ {n} : (Running(m)' <=> Running(m)) /\ path'[m] = path[m]
      BY <1>4 DEF Stopped, Dies, PowerOff, Running, TypeOK
    <2>3. mode' = mode /\ path' \in [Node -> Path]
      BY <1>4, StepType DEF Stopped, Dies, PowerOff, TypeOK
    <2> QED
      BY <2>1, <2>2, <2>3, EndKeeps
  <1>5. ASSUME NEW n \in Node,
               \/ InspectBegin(n) \/ InspectEnd(n)
               \/ OrchProbes(n) \/ OrchUnlocks(n) \/ PromoteProbes(n) \/ PromoteUnlocks(n)
        PROVE  ActiveHoldsLock'
    <2>1. PICK what \in {"inspect", "orchestrator", "promote"} :
             Flock(n, what) \/ Unlock(n, what)
      BY <1>5 DEF InspectBegin, InspectEnd, OrchProbes, OrchUnlocks,
                  PromoteProbes, PromoteUnlocks
    <2>2. UNCHANGED <<api, mode, path>>
      BY <1>5 DEF InspectBegin, InspectEnd, OrchProbes, OrchUnlocks,
                  PromoteProbes, PromoteUnlocks
    <2> QED
      BY <2>1, <2>2, ProbeKeeps, Preserved DEF Active, Running
  <1>6. ASSUME NEW n \in Node,
               \/ SeesHealthy(n) \/ SeesFailure(n) \/ ProbeRaises(n) \/ OrchSeesLock(n)
               \/ OrchPromotes(n) \/ OrchDone(n) \/ CoolsDown(n) \/ PromoteSeesLock(n) \/ PromoteBacksUp(n)
               \/ PromoteConfigures(n) \/ PowerOn(n)
               \/ \E force \in BOOLEAN : ManualPromote(n, force)
        PROVE  ActiveHoldsLock'
    <2>1. UNCHANGED <<api, mode, lock, path>>
      BY <1>6 DEF ProbeRaises, vars, SeesHealthy, SeesFailure, OrchSeesLock, OrchPromotes, OrchDone, CoolsDown,
                  PromoteSeesLock, PromoteBacksUp, PromoteConfigures, PowerOn, ManualPromote
    <2> QED
      BY <2>1, Preserved DEF Active, Running, Holds
  <1>7. ASSUME NEW n \in Node, PromoteRestarts(n) PROVE ActiveHoldsLock'
    <2>1. \A m \in Node : Active(m)' <=> Active(m)
      BY <1>7 DEF PromoteRestarts, StopForRestart, Active, Running, TypeOK
    <2>2. UNCHANGED <<lock, path>>
      BY <1>7 DEF PromoteRestarts
    <2> QED
      BY <2>1, <2>2, Preserved DEF Holds
  <1>8. CASE UNCHANGED vars
    BY <1>8, Preserved DEF vars, Active, Running, Holds
  <1> QED
    BY <1>1, <1>2, <1>3, <1>4, <1>5, <1>6, <1>7, <1>8
       DEF Next, RunApi, Orchestrate, Decide, Promote

(* The state stays in its types, for every cluster.                        *)
THEOREM TypeCorrect == Spec => []TypeOK
  BY InitType, StepType, PTL DEF Spec

(* An active node holds the lock of its path until its process is gone,    *)
(* and no process that is gone holds one.                                  *)
THEOREM ActiveNodeHoldsLock == Spec => []ActiveHoldsLock
  <1>1. IInv => ActiveHoldsLock
    BY DEF IInv
  <1> QED
    BY <1>1, InitInv, StepInv, PTL DEF Spec

(* No split brain between nodes that share a lock path, in any cluster,    *)
(* through promotions, forced ones too, crashes and restarts.              *)
THEOREM NoSplitBrain == Spec => []AtMostOneActive
  <1>1. IInv => AtMostOneActive
    <2> SUFFICES ASSUME ActiveHoldsLock, NEW m \in Node, NEW n \in Node,
                        Active(m), Active(n), path[m] = path[n]
                 PROVE  m = n
      BY DEF IInv, AtMostOneActive
    <2>1. <<m, "api">> = <<n, "api">>
      BY DEF ActiveHoldsLock, Holds
    <2> QED
      BY <2>1
  <1> QED
    BY <1>1, InitInv, StepInv, PTL DEF Spec
-----------------------------------------------------------------------------
(* The promise of Leadership: the steps that change who acts.              *)

LEMMA SameLeaders ==
    ASSUME \A m \in Node : Active(m)' <=> Active(m),
           \A m \in Node : Active(m) => path'[m] = path[m]
    PROVE  Leaders' = Leaders
  <1>1. ASSUME NEW p \in Path
        PROVE  {m \in Node : Active(m)' /\ path'[m] = p} = {m \in Node : Active(m) /\ path[m] = p}
    OBVIOUS
  <1> QED
    BY <1>1 DEF Leaders

(* Nobody of n's path acts while the lock is free, and n alone when n does. *)
LEMMA LeadersOfPath ==
    ASSUME IInv, NEW n \in Node
    PROVE  /\ ~Held(n) => Leaders[path[n]] = {}
           /\ Active(n) => Leaders[path[n]] = {n}
  <1>1. path[n] \in Path
    BY PathOfNode DEF IInv
  <1>2. ASSUME ~Held(n), NEW m \in Node, Active(m), path[m] = path[n] PROVE FALSE
    <2>1. lock[path[n]] = <<m, "api">> /\ <<m, "api">> \in Holder
      BY <1>2 DEF IInv, ActiveHoldsLock, Holds, Holder
    <2> QED
      BY <1>2, <2>1, FreeAssumption DEF Held
  <1>3. ASSUME Active(n), NEW m \in Node, Active(m), path[m] = path[n] PROVE m = n
    <2>1. <<m, "api">> = <<n, "api">>
      BY <1>3 DEF IInv, ActiveHoldsLock, Holds
    <2> QED
      BY <2>1
  <1>4. Leaders[path[n]] = {m \in Node : Active(m) /\ path[m] = path[n]}
    BY <1>1 DEF Leaders
  <1> QED
    BY <1>2, <1>3, <1>4

(* One node begins or ceases to act.                                       *)
LEMMA LeaderBegins ==
    ASSUME IInv, NEW n \in Node, ~Held(n), Active(n)', path' = path,
           \A m \in Node \ {n} : Active(m)' <=> Active(m)
    PROVE  Promise!Next
  <1>1. path[n] \in Path /\ Leaders[path[n]] = {}
    BY PathOfNode, LeadersOfPath DEF IInv
  <1>2. ASSUME NEW p \in Path
        PROVE  Leaders'[p] = IF p = path[n] THEN {n} ELSE Leaders[p]
    <2>1. /\ Leaders[p] = {m \in Node : Active(m) /\ path[m] = p}
          /\ Leaders'[p] = {m \in Node : Active(m)' /\ path[m] = p}
      BY DEF Leaders
    <2>2. CASE p = path[n]
      <3>1. \A m \in Node : path[m] = p => ~Active(m)
        BY <1>1, <2>1, <2>2
      <3>2. \A m \in Node : Active(m)' /\ path[m] = p <=> m = n
        BY <2>2, <3>1
      <3> QED
        BY <2>1, <2>2, <3>2
    <2>3. CASE p # path[n]
      <3>1. \A m \in Node : Active(m)' /\ path[m] = p <=> Active(m) /\ path[m] = p
        BY <2>3
      <3> QED
        BY <2>1, <2>3, <3>1
    <2> QED
      BY <2>2, <2>3
  <1>3. Leaders' = [Leaders EXCEPT ![path[n]] = {n}]
    BY <1>2 DEF Leaders
  <1>4. Promise!Elect(path[n], n)
    BY <1>1, <1>3 DEF Promise!Elect
  <1> QED
    BY <1>1, <1>4 DEF Promise!Next

LEMMA LeaderEnds ==
    ASSUME IInv, NEW n \in Node, Active(n), ~Active(n)',
           \A m \in Node \ {n} : (Active(m)' <=> Active(m)) /\ path'[m] = path[m]
    PROVE  Promise!Next
  <1>1. path[n] \in Path /\ Leaders[path[n]] = {n}
    BY PathOfNode, LeadersOfPath DEF IInv
  <1>2. ASSUME NEW p \in Path
        PROVE  Leaders'[p] = IF p = path[n] THEN {} ELSE Leaders[p]
    <2>1. /\ Leaders[p] = {m \in Node : Active(m) /\ path[m] = p}
          /\ Leaders'[p] = {m \in Node : Active(m)' /\ path'[m] = p}
      BY DEF Leaders
    <2>2. CASE p = path[n]
      <3>1. \A m \in Node : path[m] = p /\ Active(m) => m = n
        BY <1>1, <2>1, <2>2
      <3>2. \A m \in Node : ~(Active(m)' /\ path'[m] = p)
        BY <3>1
      <3> QED
        BY <2>1, <2>2, <3>2
    <2>3. CASE p # path[n]
      <3>1. \A m \in Node : Active(m)' /\ path'[m] = p <=> Active(m) /\ path[m] = p
        BY <2>3
      <3> QED
        BY <2>1, <2>3, <3>1
    <2> QED
      BY <2>2, <2>3
  <1>3. Leaders' = [Leaders EXCEPT ![path[n]] = {}]
    BY <1>2 DEF Leaders
  <1>4. Promise!Resign(path[n], n)
    BY <1>1, <1>3 DEF Promise!Resign
  <1> QED
    BY <1>1, <1>4 DEF Promise!Next

LEMMA StepLeads == IInv /\ [Next]_vars => [Promise!Next]_Leaders
  <1> SUFFICES ASSUME IInv, TypeOK, [Next]_vars PROVE Promise!Next \/ Leaders' = Leaders
    BY DEF IInv
  <1> USE DEF orchVars, promoteVars, counters
  <1>1. ASSUME NEW n \in Node, StartAsPrimary(n) PROVE Promise!Next
    <2>1. ~Held(n) /\ Active(n)' /\ path' = path /\ \A m \in Node \ {n} : Active(m)' <=> Active(m)
      BY <1>1 DEF StartAsPrimary, StartPrimary, Flock, Active, Running, TypeOK
    <2> QED
      BY <2>1, LeaderBegins
  <1>2. ASSUME NEW n \in Node, Stopped(n) \/ Dies(n) \/ PowerOff(n)
        PROVE  Promise!Next \/ Leaders' = Leaders
    <2>1. ~Active(n)' /\ \A m \in Node \ {n} : (Active(m)' <=> Active(m)) /\ path'[m] = path[m]
      BY <1>2 DEF Stopped, Dies, PowerOff, Active, Running, TypeOK
    <2>2. CASE Active(n)
      BY <2>1, <2>2, LeaderEnds
    <2>3. CASE ~Active(n)
      <3>1. \A m \in Node : (Active(m)' <=> Active(m)) /\ (Active(m) => path'[m] = path[m])
        BY <2>1, <2>3
      <3> QED
        BY <3>1, SameLeaders
    <2> QED
      BY <2>2, <2>3
  <1>3. ASSUME NEW n \in Node,
               \/ StartAsStandby(n) \/ Refuse(n) \/ RestartAfterRefusal(n) \/ Serve(n)
               \/ PromoteRestarts(n)
        PROVE  Leaders' = Leaders
    <2>1. path' = path /\ \A m \in Node : Active(m)' <=> Active(m)
      BY <1>3 DEF StartAsStandby, Refuse, RestartAfterRefusal, Serve, PromoteRestarts,
                  StopForRestart, Active, Running, TypeOK
    <2> QED
      BY <2>1, SameLeaders
  <1>4. ASSUME NEW n \in Node,
               \/ InspectBegin(n) \/ InspectEnd(n)
               \/ OrchProbes(n) \/ OrchUnlocks(n) \/ PromoteProbes(n) \/ PromoteUnlocks(n)
               \/ SeesHealthy(n) \/ SeesFailure(n) \/ ProbeRaises(n) \/ OrchSeesLock(n)
               \/ OrchPromotes(n) \/ OrchDone(n) \/ CoolsDown(n) \/ PromoteSeesLock(n) \/ PromoteBacksUp(n)
               \/ PromoteConfigures(n) \/ PowerOn(n)
               \/ \E force \in BOOLEAN : ManualPromote(n, force)
        PROVE  Leaders' = Leaders
    <2>1. UNCHANGED <<api, mode, path>>
      BY <1>4 DEF ProbeRaises, vars, InspectBegin, InspectEnd, OrchProbes, OrchUnlocks, PromoteProbes,
                  PromoteUnlocks, SeesHealthy, SeesFailure, OrchSeesLock, OrchPromotes,
                  OrchDone, CoolsDown, PromoteSeesLock, PromoteBacksUp, PromoteConfigures,
                  PowerOn, ManualPromote
    <2> QED
      BY <2>1, SameLeaders DEF Active, Running
  <1>5. CASE UNCHANGED vars
    BY <1>5, SameLeaders DEF vars, Active, Running
  <1> QED
    BY <1>1, <1>2, <1>3, <1>4, <1>5 DEF Next, RunApi, Orchestrate, Decide, Promote

(* In any cluster a node begins to act as primary only when no node of its *)
(* path does, and nobody takes over from one that still acts: the lock is  *)
(* taken before the first background task and given back after the last    *)
(* write (server/main.py, server/deployment.py).                           *)
THEOREM LockIsLeadership == Spec => ImplementsLeadership
  <1>1. Init => Promise!Init
    <2> SUFFICES ASSUME Init PROVE Promise!Init
      OBVIOUS
    <2>1. \A n \in Node : ~Active(n)
      BY DEF Init, Active, Running
    <2> QED
      BY <2>1 DEF Promise!Init, Leaders
  <1> QED
    BY <1>1, InitInv, StepInv, StepLeads, PTL DEF Spec, ImplementsLeadership, Promise!Spec

-----------------------------------------------------------------------------
(* The orchestrator's decision.                                            *)

(* While it probes the lock nothing takes the reasons away: its own runs   *)
(* do not overlap, a healthy answer is only seen by a run, and the cooloff *)
(* begins with a promotion.                                                *)
DecisionHolds ==
    \A n \in Node : orch[n] \in {"checking", "unlocked"} =>
        failures[n] = Threshold /\ cool[n] = 0

LEMMA StepDecision == TypeOK /\ DecisionHolds /\ [Next]_vars => DecisionHolds'
  <1> SUFFICES ASSUME TypeOK, DecisionHolds, [Next]_vars PROVE DecisionHolds'
    OBVIOUS
  <1> USE FailoverAssumption DEF orchVars, promoteVars, counters, DecisionHolds
  <1>1. ASSUME NEW n \in Node, SeesHealthy(n) PROVE DecisionHolds'
    BY <1>1 DEF SeesHealthy, MayRun, TypeOK
  <1>2. ASSUME NEW n \in Node, SeesFailure(n) PROVE DecisionHolds'
    <2>1. orch[n] = "idle" /\ failures[n] \in 0 .. Threshold /\ Threshold \in Nat
      BY <1>2 DEF SeesFailure, MayRun, TypeOK
    <2>2. Counted(n) <= Threshold
      BY <2>1 DEF Counted
    <2>3. Counted(n) \in Nat
      BY <2>1 DEF Counted
    <2>4. failures' = [failures EXCEPT ![n] = Counted(n)] /\ cool' = cool
      BY <1>2 DEF SeesFailure
    <2>5. CASE SeesEnough(n, Counted(n))
      <3>1. Counted(n) = Threshold /\ cool[n] = 0
        BY <2>1, <2>2, <2>3, <2>5 DEF SeesEnough
      <3>2. orch' = [orch EXCEPT ![n] = "checking"]
        BY <1>2, <2>5 DEF SeesFailure
      <3> QED
        BY <2>4, <3>1, <3>2 DEF TypeOK
    <2>6. CASE ~SeesEnough(n, Counted(n))
      <3>1. orch' = orch
        BY <1>2, <2>6 DEF SeesFailure
      <3> QED
        BY <2>1, <2>4, <3>1 DEF TypeOK
    <2> QED
      BY <2>5, <2>6
  <1>3. ASSUME NEW n \in Node, OrchSeesLock(n) \/ OrchUnlocks(n) \/ OrchPromotes(n) \/ OrchDone(n)
        PROVE  DecisionHolds'
    BY <1>3 DEF OrchSeesLock, OrchUnlocks, OrchPromotes, OrchDone, TypeOK
  <1>4. ASSUME NEW n \in Node, CoolsDown(n) PROVE DecisionHolds'
    BY <1>4 DEF CoolsDown, TypeOK
  <1>5. ASSUME NEW n \in Node, PowerOff(n) PROVE DecisionHolds'
    BY <1>5 DEF PowerOff, TypeOK
  <1>6. ASSUME NEW n \in Node,
               \/ RunApi(n) \/ ProbeRaises(n) \/ OrchProbes(n) \/ Promote(n) \/ PowerOn(n)
               \/ \E force \in BOOLEAN : ManualPromote(n, force)
        PROVE  DecisionHolds'
    <2>1. UNCHANGED orchVars
      BY <1>6 DEF vars, ProbeRaises, RunApi, StartAsPrimary, Refuse, RestartAfterRefusal, StartAsStandby, Serve,
                  Stopped, Dies, InspectBegin, InspectEnd, OrchProbes, Promote,
                  PromoteSeesLock, PromoteProbes, PromoteUnlocks, PromoteBacksUp,
                  PromoteConfigures, PromoteRestarts, PowerOn, ManualPromote
    <2> QED
      BY <2>1
  <1>7. CASE UNCHANGED vars
    BY <1>7 DEF vars
  <1> QED
    BY <1>1, <1>2, <1>3, <1>4, <1>5, <1>6, <1>7 DEF Next, Orchestrate, Decide

(* The step to a promotion is OrchPromotes.                                *)
LEMMA PromotesWhenDue ==
    ASSUME TypeOK, DecisionHolds, [Next]_vars, NEW n \in Node,
           orch[n] # "promoting", orch'[n] = "promoting"
    PROVE  failures[n] = Threshold /\ cool[n] = 0 /\ ~forced'[n]
  <1> USE DEF orchVars, promoteVars, counters
  <1>1. OrchPromotes(n)
    <2>1. PICK m \in Node : OrchPromotes(m)
      <3>1. orch' # orch
        OBVIOUS
      <3>2. ASSUME NEW m \in Node,
                   \/ SeesHealthy(m) \/ SeesFailure(m) \/ OrchSeesLock(m) \/ OrchProbes(m)
                   \/ OrchUnlocks(m) \/ OrchDone(m) \/ PowerOff(m)
            PROVE  orch'[n] # "promoting"
        BY <3>2 DEF SeesHealthy, SeesFailure, OrchSeesLock, OrchProbes, OrchUnlocks, OrchDone,
                    PowerOff, TypeOK
      <3>3. ASSUME NEW m \in Node,
                   \/ RunApi(m) \/ CoolsDown(m) \/ Promote(m) \/ PowerOn(m)
                   \/ \E force \in BOOLEAN : ManualPromote(m, force)
            PROVE  orch' = orch
        BY <3>3 DEF RunApi, StartAsPrimary, Refuse, RestartAfterRefusal, StartAsStandby, Serve,
                    Stopped, Dies, InspectBegin, InspectEnd, CoolsDown, Promote,
                    PromoteSeesLock, PromoteProbes, PromoteUnlocks, PromoteBacksUp,
                    PromoteConfigures, PromoteRestarts, PowerOn, ManualPromote
      <3> QED
        BY <3>1, <3>2, <3>3 DEF Next, Orchestrate, Decide, ProbeRaises, vars
    <2>2. m = n
      BY <2>1 DEF OrchPromotes, TypeOK
    <2> QED
      BY <2>1, <2>2
  <1> QED
    BY <1>1 DEF OrchPromotes, DecisionHolds, TypeOK

(* An automatic promotion is due when it begins, in any cluster, for every *)
(* threshold and cooloff.                                                  *)
THEOREM PromotesOnlyWhenDue == Spec => PromotionIsDue
  <1>1. Init => DecisionHolds
    BY DEF Init, DecisionHolds
  <1>2. TypeOK /\ DecisionHolds /\ [Next]_vars =>
            [\A n \in Node : orch[n] # "promoting" /\ orch'[n] = "promoting" =>
                 failures[n] = Threshold /\ cool[n] = 0 /\ ~forced'[n]]_vars
    BY PromotesWhenDue
  <1> QED
    BY <1>1, <1>2, InitType, StepType, StepDecision, PTL DEF Spec, PromotionIsDue
=============================================================================
