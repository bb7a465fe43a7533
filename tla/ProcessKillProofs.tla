-------------------------- MODULE ProcessKillProofs --------------------------
(***************************************************************************)
(* The termination of a process, for any number of requests and processes. *)
(* CommandInv is about the ids: an entry of the dictionary and a future    *)
(* that is done both belong to the id of their request, which never        *)
(* changes.  KillInv adds that every command is executed once and that the *)
(* executor keeps to the process it has opened.  AnswerInv follows each    *)
(* result to the one request it answers; with it the system implements     *)
(* module Termination.                                                     *)
(***************************************************************************)
EXTENDS ProcessKill, SequenceTheorems, TLAPS

Sent(r) == id[r] # 0

CommandInv ==
    /\ TypeOK /\ ms \in Ids
    /\ \A r \in Request : Sent(r) => req[r] # "new"
    /\ \A r \in Request : req[r] = "waiting" => Sent(r)
    /\ \A k \in 1 .. Len(wire) : Sent(wire[k])
    /\ \A k \in 1 .. Len(results) : Sent(results[k])
    /\ running # NoRequest => Sent(running)
    /\ \A i \in Ids : pending[i] # NoRequest => id[pending[i]] = i
    /\ \A r \in Request : future[r] # NoRequest => id[future[r]] = id[r] /\ Sent(r)
    /\ EntryHasWaiter

LEMMA CommandInit == Init => CommandInv
  BY CommandResultsAssumption
     DEF Init, CommandInv, TypeOK, Sent, Ids, EntryHasWaiter

LEMMA SendStep == ASSUME CommandInv, NEW r \in Request, Send(r) PROVE CommandInv'
  <1> USE CommandResultsAssumption DEF Send, File, NewId, CommandInv, Sent, Ids, EntryHasWaiter
  <1>1. TypeOK'
    BY DEF TypeOK
  <1>2. \A k \in 1 .. Len(wire') : Sent(wire[k])'
    BY DEF TypeOK
  <1> QED
    BY <1>1, <1>2 DEF TypeOK

LEMMA SendRaisesStep == ASSUME CommandInv, NEW r \in Request, SendRaises(r) PROVE CommandInv'
  BY CommandResultsAssumption
     DEF SendRaises, File, NewId, CommandInv, Sent, Ids, EntryHasWaiter, TypeOK

LEMMA TimeoutStep == ASSUME CommandInv, NEW r \in Request, Timeout(r) PROVE CommandInv'
  BY CommandResultsAssumption
     DEF Timeout, Forget, CommandInv, Sent, Ids, EntryHasWaiter, TypeOK

LEMMA ReceiveStep == ASSUME CommandInv, Receive PROVE CommandInv'
  <1> USE CommandResultsAssumption DEF Receive, CommandInv, Sent, Ids
  <1> DEFINE i == id[Head(results)]
             waiter == pending[i]
  <1>1. i \in Ids /\ Head(results) \in Request
    <2>1. Len(results) \in Nat \ {0} /\ Head(results) = results[1] /\ results[1] \in Request
      BY DEF TypeOK
    <2> QED
      BY <2>1 DEF TypeOK
  <1>2. /\ pending' = [pending EXCEPT ![i] = NoRequest]
        /\ future' = IF waiter # NoRequest /\ future[waiter] = NoRequest
                     THEN [future EXCEPT ![waiter] = Head(results)] ELSE future
    BY DEF Complete
  <1>3. /\ results' \in Seq(Request)
        /\ \A k \in 1 .. Len(results') : Sent(results'[k])
    BY DEF TypeOK
  <1>4. waiter # NoRequest => waiter \in Request /\ id[waiter] = i
    BY <1>1 DEF TypeOK
  <1>5. TypeOK'
    BY <1>1, <1>2, <1>3, <1>4 DEF TypeOK
  <1>6. \A r \in Request : future'[r] # NoRequest => id[future'[r]] = id[r] /\ Sent(r)
    BY <1>1, <1>2, <1>4 DEF TypeOK
  <1>7. EntryHasWaiter'
    BY <1>1, <1>2, <1>4 DEF TypeOK, EntryHasWaiter
  <1>8. \A j \in Ids : pending'[j] # NoRequest => id[pending'[j]] = j
    BY <1>1, <1>2 DEF TypeOK
  <1> QED
    BY <1>3, <1>5, <1>6, <1>7, <1>8

LEMMA Suffix ==
    ASSUME NEW S, NEW s \in Seq(S), NEW k \in 1 .. Len(s) + 1
    PROVE  LET t == SubSeq(s, k, Len(s))
           IN /\ t \in Seq(S)
              /\ \A j \in 1 .. Len(t) : j + k - 1 \in 1 .. Len(s) /\ t[j] = s[j + k - 1]
  <1>1. Len(s) \in Nat /\ k \in Nat \ {0} /\ \A i \in 1 .. Len(s) : s[i] \in S
    OBVIOUS
  <1>2. k \in Int /\ Len(s) \in Int /\ \A i \in k .. Len(s) : s[i] \in S
    BY <1>1
  <1>3. /\ SubSeq(s, k, Len(s)) \in Seq(S)
        /\ Len(SubSeq(s, k, Len(s))) = IF k <= Len(s) THEN Len(s) - k + 1 ELSE 0
        /\ \A i \in 1 .. Len(s) - k + 1 : SubSeq(s, k, Len(s))[i] = s[k + i - 1]
    BY <1>2, SubSeqProperties
  <1> DEFINE t == SubSeq(s, k, Len(s))
  <1>4. Len(t) = Len(s) - k + 1
    BY <1>1, <1>3
  <1> QED
    BY <1>1, <1>3, <1>4

LEMMA Prefix ==
    ASSUME NEW S, NEW s \in Seq(S), NEW k \in 0 .. Len(s)
    PROVE  LET t == SubSeq(s, 1, k)
           IN /\ t \in Seq(S)
              /\ \A j \in 1 .. Len(t) : j \in 1 .. Len(s) /\ t[j] = s[j]
  <1>1. Len(s) \in Nat /\ k \in Nat /\ k <= Len(s) /\ \A i \in 1 .. Len(s) : s[i] \in S
    OBVIOUS
  <1>2. 1 \in Int /\ k \in Int /\ \A i \in 1 .. k : s[i] \in S
    BY <1>1
  <1>3. /\ SubSeq(s, 1, k) \in Seq(S)
        /\ Len(SubSeq(s, 1, k)) = IF 1 <= k THEN k - 1 + 1 ELSE 0
        /\ \A i \in 1 .. k - 1 + 1 : SubSeq(s, 1, k)[i] = s[1 + i - 1]
    BY <1>2, SubSeqProperties
  <1> DEFINE t == SubSeq(s, 1, k)
  <1>4. Len(t) = k /\ t \in Seq(S)
    BY <1>1, <1>3
  <1>5. \A i \in 1 .. k : t[i] = s[i]
    <2> TAKE i \in 1 .. k
    <2>1. i \in 1 .. k - 1 + 1 /\ 1 + i - 1 = i
      BY <1>1
    <2> QED
      BY <1>3, <2>1
  <1> HIDE DEF t
  <1>6. \A j \in 1 .. Len(t) : j \in 1 .. Len(s) /\ t[j] = s[j]
    BY <1>1, <1>4, <1>5
  <1> QED
    BY <1>4, <1>6 DEF t

LEMMA SessionEndsStep == ASSUME CommandInv, SessionEnds PROVE CommandInv'
  <1> USE CommandResultsAssumption DEF SessionEnds, CommandInv, Sent, Ids
  <1>1. PICK k \in 1 .. Len(results) + 1 : results' = SubSeq(results, k, Len(results))
    OBVIOUS
  <1>2. /\ results' \in Seq(Request)
        /\ \A j \in 1 .. Len(results') : j + k - 1 \in 1 .. Len(results)
                                         /\ results'[j] = results[j + k - 1]
    <2>1. results \in Seq(Request) /\ k \in 1 .. Len(results) + 1
      BY DEF TypeOK
    <2> HIDE DEF SessionEnds, CommandInv, Sent, Ids
    <2> QED
      BY <1>1, <2>1, Suffix
  <1>3. /\ wire' \in Seq(Request)
        /\ \A j \in 1 .. Len(wire') : id[wire'[j]] # 0
    <2>1. PICK n \in 0 .. Len(wire) : wire' = SubSeq(wire, 1, n)
      OBVIOUS
    <2>2. wire \in Seq(Request) /\ \A j \in 1 .. Len(wire) : id[wire[j]] # 0
      BY DEF TypeOK
    <2> HIDE DEF SessionEnds, CommandInv, Sent, Ids
    <2> QED
      BY <2>1, <2>2, Prefix
  <1>4. \A j \in 1 .. Len(results') : id[results'[j]] # 0
    <2>1. \A j \in 1 .. Len(results) : id[results[j]] # 0
      OBVIOUS
    <2> HIDE DEF SessionEnds, CommandInv, Sent, Ids
    <2> QED
      BY <1>2, <2>1
  <1>5. UNCHANGED <<ms, req, id, pending, future, running>> /\ session' \in BOOLEAN
    OBVIOUS
  <1>6. results' \in Seq(Request)
    BY <1>2
  <1> HIDE DEF SessionEnds
  <1>7. TypeOK' /\ EntryHasWaiter'
    BY <1>3, <1>5, <1>6 DEF TypeOK, EntryHasWaiter
  <1> QED
    BY <1>3, <1>4, <1>5, <1>7

LEMMA CommandStep == CommandInv /\ [Next]_vars => CommandInv'
  <1> SUFFICES ASSUME CommandInv, [Next]_vars PROVE CommandInv'
    OBVIOUS
  <1> USE CommandResultsAssumption DEF CommandInv, Sent, Ids, EntryHasWaiter
  <1>1. ASSUME NEW r \in Request, SendWithoutAgent(r) PROVE CommandInv'
    BY <1>1 DEF SendWithoutAgent, TypeOK
  <1>2. ASSUME NEW r \in Request, Return(r) PROVE CommandInv'
    BY <1>2 DEF Return, TypeOK
  <1>3. CASE AgentRejects
    <2>1. /\ wire' \in Seq(Request) /\ results' \in Seq(Request)
          /\ \A k \in 1 .. Len(wire') : Sent(wire'[k])
          /\ \A k \in 1 .. Len(results') : Sent(results'[k])
      BY <1>3 DEF AgentRejects, TypeOK
    <2> QED
      BY <1>3, <2>1 DEF AgentRejects, TypeOK
  <1>4. CASE AgentStarts
    <2>1. /\ wire' \in Seq(Request) /\ running' \in Request /\ Sent(running')
          /\ \A k \in 1 .. Len(wire') : Sent(wire'[k])
      BY <1>4 DEF AgentStarts, TypeOK
    <2> QED
      BY <1>4, <2>1 DEF AgentStarts, TypeOK
  <1>5. CASE AgentFinishes
    <2>1. /\ results' \in Seq(Request)
          /\ \A k \in 1 .. Len(results') : Sent(results'[k])
      BY <1>5 DEF AgentFinishes, TypeOK
    <2> QED
      BY <1>5, <2>1 DEF AgentFinishes, TypeOK
  <1>6. CASE SessionBegins
    BY <1>6 DEF SessionBegins, TypeOK
  <1>7. CASE Tick
    BY <1>7 DEF Tick, TypeOK
  <1>8. CASE UNCHANGED vars
    BY <1>8 DEF vars, TypeOK
  <1> QED
    BY <1>1, <1>2, <1>3, <1>4, <1>5, <1>6, <1>7, <1>8, SendStep, SendRaisesStep, TimeoutStep,
       ReceiveStep, SessionEndsStep DEF Next

-----------------------------------------------------------------------------
(* The processes.                                                          *)

Untouched(r) == status[r] = "none" /\ \A s \in signalled : s.req # r

(* A process of the number that had run before is the one that is named.   *)
Checked == \A p \in os \cap before :
               PidOf[p] = PidOf[payload[running]] => p = payload[running]

KillInv ==
    /\ CommandInv /\ KillTypeOK
    /\ \A j, k \in 1 .. Len(wire) : j # k => wire[j] # wire[k]
    /\ \A k \in 1 .. Len(wire) : wire[k] # running /\ Untouched(wire[k])
    /\ \A r \in Request : ~Sent(r) => Untouched(r)
    /\ running # NoRequest => status[running] = "none"
    /\ step \in {"check", "open", "first"} => Untouched(running)
    /\ step = "open" => Checked
    /\ step \in {"first", "wait", "second", "waitKilled"} =>
         handle # NoProcess /\ (handle # payload[running] => handle \notin before)
    /\ step \in {"wait", "second", "waitKilled"} =>
         \A s \in signalled : s.req = running => s.process = handle
    /\ OneProcessPerCommand /\ StrangerIsNewer /\ SuccessMeansGone

LEMMA KillInitInv == KillInit => KillInv
  <1> SUFFICES ASSUME KillInit PROVE KillInv
    OBVIOUS
  <1>1. CommandInv
    BY CommandInit DEF KillInit
  <1>2. KillTypeOK
    BY <1>1, CommandResultsAssumption, ProcessKillAssumption
       DEF KillInit, KillTypeOK, CommandInv, Init, Command
  <1> QED
    BY <1>1, <1>2, CommandResultsAssumption
       DEF KillInit, KillInv, Init, Untouched, OneProcessPerCommand, StrangerIsNewer,
           SuccessMeansGone

(* Processes come and go; the page and the snapshot follow.                *)
LEMMA HostStep ==
    ASSUME KillInv,
           \/ \E p \in Process : ProcessStarts(p) \/ ProcessExits(p)
           \/ update_processes
           \/ \E r \in Request, p \in Process : ChooseRow(r, p)
    PROVE  KillInv'
  <1> USE ProcessKillAssumption
  <1>1. ASSUME NEW p \in Process, ProcessStarts(p) PROVE KillInv'
    <2>1. CommandInv'
      BY <1>1, CommandStep DEF KillInv, ProcessStarts
    <2>2. KillTypeOK'
      BY <1>1, <2>1 DEF KillInv, CommandInv, KillTypeOK, ProcessStarts, viewVars, executorVars, vars
    <2> QED
      BY <1>1, <2>1, <2>2
         DEF KillInv, KillTypeOK, ProcessStarts, viewVars, executorVars, vars, Sent, Untouched, Checked,
             OneProcessPerCommand, StrangerIsNewer, SuccessMeansGone
  <1>2. ASSUME NEW p \in Process, ProcessExits(p) PROVE KillInv'
    <2>1. CommandInv'
      BY <1>2, CommandStep DEF KillInv, ProcessExits
    <2>2. KillTypeOK'
      BY <1>2, <2>1 DEF KillInv, CommandInv, KillTypeOK, ProcessExits, viewVars, executorVars, vars
    <2> QED
      BY <1>2, <2>1, <2>2
         DEF KillInv, KillTypeOK, ProcessExits, viewVars, executorVars, vars, Sent, Untouched, Checked,
             OneProcessPerCommand, StrangerIsNewer, SuccessMeansGone
  <1>3. ASSUME update_processes PROVE KillInv'
    <2>1. CommandInv'
      BY <1>3, CommandStep DEF KillInv, update_processes
    <2>2. KillTypeOK'
      BY <1>3, <2>1 DEF KillInv, CommandInv, KillTypeOK, update_processes, osVars, executorVars, vars
    <2> QED
      BY <1>3, <2>1, <2>2
         DEF KillInv, update_processes, osVars, executorVars, vars, Sent, Untouched, Checked,
             OneProcessPerCommand, StrangerIsNewer, SuccessMeansGone
  <1>4. ASSUME NEW r \in Request, NEW p \in Process, ChooseRow(r, p) PROVE KillInv'
    <2>1. CommandInv'
      BY <1>4, CommandStep DEF KillInv, ChooseRow
    <2>2. KillTypeOK'
      BY <1>4, <2>1 DEF KillInv, CommandInv, KillTypeOK, ChooseRow, osVars, executorVars, vars
    <2> QED
      BY <1>4, <2>1, <2>2
         DEF KillInv, ChooseRow, osVars, executorVars, vars, Sent, Untouched, Checked,
             OneProcessPerCommand, StrangerIsNewer, SuccessMeansGone
  <1> QED
    BY <1>1, <1>2, <1>3, <1>4

(* The command travels: nothing of the executor changes.                   *)
LEMMA Travels ==
    ASSUME KillInv, CommandInv', UNCHANGED <<id, running, osVars, viewVars, executorVars>>,
           \A j \in 1 .. Len(wire') : j \in 1 .. Len(wire) /\ wire'[j] = wire[j]
    PROVE  KillInv'
  <1>1. KillTypeOK'
    BY DEF KillInv, CommandInv, KillTypeOK, osVars, viewVars, executorVars
  <1> QED
    BY <1>1 DEF KillInv, osVars, viewVars, executorVars, Sent, Untouched, Checked,
                OneProcessPerCommand, StrangerIsNewer, SuccessMeansGone

LEMMA PlumbingStep == ASSUME KillInv, Plumbing PROVE KillInv'
  <1>1. CommandInv'
    BY CommandStep DEF KillInv, Plumbing, Next
  <1>2. UNCHANGED <<id, running, osVars, viewVars, executorVars>>
    BY DEF Plumbing, Return, Timeout, Receive, SessionEnds, SessionBegins, Tick
  <1>3. wire' = wire \/ \E n \in 0 .. Len(wire) : wire' = SubSeq(wire, 1, n)
    BY DEF Plumbing, Return, Timeout, Receive, SessionEnds, SessionBegins, Tick
  <1>4. wire \in Seq(Request)
    BY DEF KillInv, KillTypeOK, TypeOK
  <1>5. \A j \in 1 .. Len(wire') : j \in 1 .. Len(wire) /\ wire'[j] = wire[j]
    BY <1>3, <1>4, Prefix
  <1> QED
    BY <1>1, <1>2, <1>5, Travels

LEMMA RefuseStep == ASSUME KillInv, NEW r \in Request, Refuse(r) PROVE KillInv'
  <1>1. CommandInv'
    BY CommandResultsAssumption
       DEF KillInv, Refuse, CommandInv, TypeOK, Sent, Ids, EntryHasWaiter
  <1> QED
    BY <1>1, Travels DEF Refuse, osVars, viewVars, executorVars

LEMMA PostStep == ASSUME KillInv, NEW r \in Request, PostChosen(r) PROVE KillInv'
  <1> USE DEF PostChosen, Post, KillInv
  <1>1. req[r] = "new" /\ (SendWithoutAgent(r) \/ Send(r) \/ SendRaises(r))
    BY DEF SendWithoutAgent, Send, SendRaises
  <1>2. CommandInv'
    BY <1>1, CommandStep DEF Next
  <1>3. PICK p \in WithPid(snapshot, PidOf[chosen[r]]) : payload' = [payload EXCEPT ![r] = p]
    OBVIOUS
  <1>4. p \in born
    BY <1>3 DEF WithPid, KillTypeOK
  <1>5. UNCHANGED <<running, chosen, command, snapshot, os, born, step, before, handle, signalled, status>>
    BY <1>1 DEF SendWithoutAgent, Send, SendRaises, osVars, viewVars
  <1>6. KillTypeOK'
    BY <1>2, <1>3, <1>4, <1>5 DEF CommandInv, KillTypeOK
  <1>7. ~Sent(r) /\ Untouched(r) /\ running # r /\ \A k \in 1 .. Len(wire) : wire[k] # r
    BY <1>1, CommandResultsAssumption DEF CommandInv
  <1>8. /\ \A q \in Request \ {r} : id'[q] = id[q] /\ payload'[q] = payload[q]
        /\ payload' \in [Request -> born \cup {NoProcess}]
    <2>1. id' = id \/ id' = [id EXCEPT ![r] = NewId]
      BY <1>1 DEF SendWithoutAgent, Send, SendRaises, File
    <2> QED
      BY <1>3, <1>4, <2>1 DEF CommandInv, TypeOK, KillTypeOK
  <1>9. wire' = wire \/ wire' = Append(wire, r)
    BY <1>1 DEF SendWithoutAgent, Send, SendRaises
  <1>10. /\ \A j, k \in 1 .. Len(wire') : j # k => wire'[j] # wire'[k]
         /\ \A k \in 1 .. Len(wire') : wire'[k] # running' /\ Untouched(wire[k])'
    <2>1. /\ wire \in Seq(Request) /\ r \in Request
          /\ UNCHANGED <<running, signalled, status>>
      BY <1>5 DEF CommandInv, TypeOK
    <2>2. CASE wire' = wire
      BY <2>1, <2>2 DEF Untouched
    <2>3. CASE wire' = Append(wire, r)
      BY <1>7, <2>1, <2>3 DEF Untouched
    <2> QED
      BY <1>9, <2>2, <2>3
  <1>11. step # "idle" => running \in Request \ {r}
    BY <1>7 DEF KillTypeOK, CommandInv, TypeOK
  <1>12. \A s \in signalled : s.req \in Request \ {r}
    BY <1>7 DEF KillTypeOK, Untouched
  <1>13. StrangerIsNewer'
    BY <1>5, <1>8, <1>12 DEF StrangerIsNewer
  <1>14. OneProcessPerCommand' /\ SuccessMeansGone'
    BY <1>5 DEF OneProcessPerCommand, SuccessMeansGone
  <1>15. \A q \in Request : ~Sent(q)' => Untouched(q)'
    BY <1>5, <1>7, <1>8 DEF Sent, Untouched
  <1>16. /\ running' # NoRequest => status'[running'] = "none"
         /\ step' \in {"check", "open", "first"} => Untouched(running)'
    BY <1>5 DEF Untouched
  <1>17. step' = "open" => Checked'
    BY <1>5, <1>8, <1>11 DEF Checked
  <1>18. /\ step' \in {"first", "wait", "second", "waitKilled"} =>
              handle' # NoProcess /\ (handle' # payload'[running'] => handle' \notin before')
         /\ step' \in {"wait", "second", "waitKilled"} =>
              \A s \in signalled' : s.req = running' => s.process = handle'
    BY <1>5, <1>8, <1>11
  <1> QED
    BY <1>2, <1>6, <1>10, <1>13, <1>14, <1>15, <1>16, <1>17, <1>18

LEMMA RejectStep == ASSUME KillInv, Reject PROVE KillInv'
  <1> USE DEF Reject, KillInv
  <1>1. CommandInv'
    BY CommandStep DEF Next
  <1>2. /\ wire \in Seq(Request) /\ wire # <<>> /\ Head(wire) \in Request
        /\ Head(wire) = wire[1] /\ wire' = Tail(wire)
    BY DEF CommandInv, TypeOK, AgentRejects
  <1>3. /\ Len(wire') = Len(wire) - 1
        /\ \A k \in 1 .. Len(wire') : k + 1 \in 1 .. Len(wire) /\ wire'[k] = wire[k + 1]
    BY <1>2
  <1>4. UNCHANGED <<id, running, os, born, snapshot, chosen, command, payload, step, before,
                    handle, signalled>>
    BY DEF AgentRejects, osVars, viewVars
  <1>5. status' = [status EXCEPT ![wire[1]] = "error"]
    BY <1>2
  <1>6. KillTypeOK'
    BY <1>1, <1>2, <1>4, <1>5 DEF KillTypeOK, CommandInv
  <1>7. \A k \in 1 .. Len(wire') : wire'[k] # wire[1] /\ wire'[k] # running /\ Untouched(wire'[k])
    BY <1>2, <1>3
  <1>8. running = NoRequest
    BY DEF AgentRejects
  <1>9. Sent(wire[1])
    BY <1>2 DEF CommandInv
  <1>10. SuccessMeansGone' /\ OneProcessPerCommand' /\ StrangerIsNewer'
    BY <1>2, <1>4, <1>5 DEF SuccessMeansGone, OneProcessPerCommand, StrangerIsNewer, KillTypeOK
  <1>11. /\ \A j, k \in 1 .. Len(wire') : j # k => wire'[j] # wire'[k]
         /\ \A k \in 1 .. Len(wire') : wire'[k] # running' /\ Untouched(wire[k])'
    <2>1. \A k \in 1 .. Len(wire') : wire'[k] \in Request
      BY <1>2, <1>3
    <2> QED
      BY <1>2, <1>3, <1>4, <1>5, <1>7, <2>1 DEF Untouched, KillTypeOK
  <1>12. \A q \in Request : ~Sent(q)' => Untouched(q)'
    BY <1>2, <1>4, <1>5, <1>9 DEF Sent, Untouched, KillTypeOK
  <1>13. step' = "idle"
    BY <1>4, <1>8 DEF KillTypeOK
  <1> QED
    BY <1>1, <1>4, <1>6, <1>8, <1>10, <1>11, <1>12, <1>13

LEMMA BeginStep == ASSUME KillInv, Begin PROVE KillInv'
  <1> USE DEF Begin, KillInv
  <1>1. CommandInv'
    BY CommandStep DEF Next
  <1>2. /\ wire \in Seq(Request) /\ wire # <<>> /\ running' = wire[1]
        /\ wire[1] \in Request /\ wire' = Tail(wire)
    BY DEF CommandInv, TypeOK, AgentStarts
  <1>3. /\ Len(wire') = Len(wire) - 1
        /\ \A k \in 1 .. Len(wire') : k + 1 \in 1 .. Len(wire) /\ wire'[k] = wire[k + 1]
    BY <1>2
  <1>4. UNCHANGED <<id, os, born, snapshot, chosen, command, payload, before, handle,
                    signalled, status>>
    BY DEF AgentStarts, osVars, viewVars
  <1>5. KillTypeOK'
    BY <1>1, <1>2, <1>4, CommandResultsAssumption DEF KillTypeOK, CommandInv
  <1>6. Untouched(running)'
    BY <1>2, <1>4 DEF Untouched
  <1>7. SuccessMeansGone' /\ OneProcessPerCommand' /\ StrangerIsNewer'
    BY <1>4 DEF SuccessMeansGone, OneProcessPerCommand, StrangerIsNewer
  <1>8. /\ \A j, k \in 1 .. Len(wire') : j # k => wire'[j] # wire'[k]
        /\ \A k \in 1 .. Len(wire') : wire'[k] # running' /\ Untouched(wire[k])'
    BY <1>2, <1>3, <1>4 DEF Untouched
  <1>9. \A q \in Request : ~Sent(q)' => Untouched(q)'
    BY <1>4 DEF Sent, Untouched
  <1> QED
    BY <1>1, <1>5, <1>6, <1>7, <1>8, <1>9 DEF Untouched

(* A result; success is only reported of a process that is gone.           *)
LEMMA FinishStep ==
    ASSUME KillInv, NEW outcome \in {"success", "error"}, Finish(outcome), UNCHANGED osVars,
           outcome = "success" => step \in {"wait", "second", "waitKilled"} /\ handle \notin os
    PROVE  KillInv'
  <1> USE DEF Finish, KillInv, osVars
  <1>1. CommandInv'
    BY CommandStep DEF Next
  <1>2. running \in Request /\ running' = NoRequest
    BY DEF AgentFinishes, CommandInv, TypeOK
  <1>3. UNCHANGED <<id, wire, snapshot, chosen, command, payload, signalled>>
    BY DEF AgentFinishes, viewVars
  <1>4. status' = [status EXCEPT ![running] = outcome]
    OBVIOUS
  <1>5. KillTypeOK'
    BY <1>1, <1>2, <1>3 DEF KillTypeOK, CommandInv
  <1>6. SuccessMeansGone'
    BY <1>2, <1>3, <1>4 DEF SuccessMeansGone, KillTypeOK
  <1>7. OneProcessPerCommand' /\ StrangerIsNewer'
    BY <1>3 DEF OneProcessPerCommand, StrangerIsNewer
  <1>8. \A k \in 1 .. Len(wire') : wire'[k] # running' /\ Untouched(wire[k])'
    <2>1. \A k \in 1 .. Len(wire) : wire[k] \in Request
      BY DEF CommandInv, TypeOK
    <2> QED
      BY <1>2, <1>3, <1>4, <2>1, CommandResultsAssumption DEF Untouched, KillTypeOK
  <1>9. \A q \in Request : ~Sent(q)' => Untouched(q)'
    <2>1. Sent(running) /\ \A q \in Request : ~Sent(q) => Untouched(q)
      BY <1>2, CommandResultsAssumption DEF CommandInv
    <2> QED
      BY <1>2, <1>3, <1>4, <2>1 DEF Sent, Untouched, KillTypeOK
  <1>10. step' = "idle" /\ \A j, k \in 1 .. Len(wire') : j # k => wire'[j] # wire'[k]
    BY <1>3
  <1> HIDE DEF Finish
  <1> QED
    BY <1>1, <1>2, <1>5, <1>6, <1>7, <1>8, <1>9, <1>10

(* A step of the executor that neither ends the command nor starts one.    *)
LEMMA GoOn ==
    ASSUME KillInv, NEW s \in {"open", "first", "wait", "second", "waitKilled"}, Goto(s),
           running # NoRequest, before' \subseteq born, handle' \in born \cup {NoProcess},
           signalled' \subseteq [req : {running}, sig : {"TERM", "KILL"}, process : born,
                                 newer : BOOLEAN] \cup signalled
    PROVE  /\ CommandInv' /\ KillTypeOK' /\ running \in Request
           /\ UNCHANGED <<id, wire, running, os, born, payload, status>>
           /\ \A k \in 1 .. Len(wire') : wire'[k] # running' /\ Untouched(wire[k])'
           /\ \A r \in Request : ~Sent(r)' => Untouched(r)'
           /\ \A j, k \in 1 .. Len(wire') : j # k => wire'[j] # wire'[k]
  <1> USE DEF Goto, KillInv
  <1>1. CommandInv'
    BY CommandStep
  <1>2. /\ UNCHANGED <<id, wire, running, os, born, payload, status, snapshot, chosen, command>>
        /\ running \in Request
    BY DEF vars, osVars, viewVars, CommandInv, TypeOK
  <1>3. KillTypeOK'
    BY <1>1, <1>2 DEF KillTypeOK, CommandInv
  <1>4. \A r \in Request : r # running => (Untouched(r) => Untouched(r)')
    BY <1>2 DEF Untouched
  <1>5. \A k \in 1 .. Len(wire) : wire[k] \in Request
    BY DEF CommandInv, TypeOK
  <1>6. \A k \in 1 .. Len(wire') : wire'[k] # running' /\ Untouched(wire[k])'
    BY <1>2, <1>4, <1>5
  <1>7. \A r \in Request : ~Sent(r)' => Untouched(r)'
    BY <1>2, <1>4 DEF Sent, CommandInv
  <1> QED
    BY <1>1, <1>2, <1>3, <1>6, <1>7

LEMMA CheckStep == ASSUME KillInv, ensureProcessIdentity PROVE KillInv'
  <1> USE DEF ensureProcessIdentity, At
  <1>1. CASE Finish("error")
    BY <1>1, FinishStep DEF Finish
  <1>2. CASE /\ SameProcess /\ Goto("open") /\ before' = born
             /\ UNCHANGED <<handle, signalled>>
    <2>1. Checked'
      BY <1>2 DEF Checked, SameProcess, Target, WithPid, Goto, vars, osVars
    <2>2. step' = "open" /\ born' = born /\ Untouched(running)'
      BY <1>2 DEF KillInv, Goto, Untouched, vars, osVars
    <2>3. born \subseteq born /\ handle \in born \cup {NoProcess}
      BY DEF KillInv, KillTypeOK
    <2> QED
      BY <1>2, <2>1, <2>2, <2>3, GoOn
         DEF KillInv, OneProcessPerCommand, StrangerIsNewer, SuccessMeansGone, Sent, Untouched
  <1> QED
    BY <1>1, <1>2

LEMMA OpenStep == ASSUME KillInv, FindProcess PROVE KillInv'
  <1> USE DEF FindProcess, At
  <1>1. CASE Finish("error")
    BY <1>1, FinishStep DEF Finish
  <1>2. ASSUME NEW p \in Target, handle' = p, Goto("first"), UNCHANGED <<before, signalled>>
        PROVE  KillInv'
    <2>1. p \in born /\ p # NoProcess
      BY ProcessKillAssumption DEF Target, WithPid, KillInv, KillTypeOK
    <2>2. p # payload[running] => p \notin before
      BY DEF KillInv, Checked, Target, WithPid
    <2>3. before \subseteq born /\ step' = "first" /\ Untouched(running)'
      BY <1>2 DEF KillInv, KillTypeOK, Goto, Untouched, vars
    <2> QED
      BY <1>2, <2>1, <2>2, <2>3, GoOn
         DEF KillInv, OneProcessPerCommand, StrangerIsNewer, SuccessMeansGone, Sent, Untouched
  <1> QED
    BY <1>1, <1>2

(* The signals go to the process that is open.                             *)
LEMMA SignalStep ==
    ASSUME KillInv, NEW sig \in {"TERM", "KILL"}, NEW s \in {"wait", "waitKilled"},
           running # NoRequest, step \in {"first", "second"}, Signal(handle, sig), Goto(s),
           UNCHANGED <<before, handle>>
    PROVE  KillInv'
  <1> DEFINE new == [req |-> running, sig |-> sig, process |-> handle, newer |-> handle \notin before]
  <1>1. signalled' = signalled \cup {new}
    BY DEF Signal
  <1>2. running \in Request /\ handle \in born /\ before \subseteq born
    BY DEF KillInv, KillTypeOK, CommandInv, TypeOK
  <1>3. step' = s /\ UNCHANGED <<running, os, born, payload, status>>
    BY DEF Goto, vars, osVars
  <1>4. /\ CommandInv' /\ KillTypeOK'
        /\ \A k \in 1 .. Len(wire') : wire'[k] # running' /\ Untouched(wire[k])'
        /\ \A r \in Request : ~Sent(r)' => Untouched(r)'
        /\ \A j, k \in 1 .. Len(wire') : j # k => wire'[j] # wire'[k]
    <2>1. new \in [req : {running}, sig : {"TERM", "KILL"}, process : born, newer : BOOLEAN]
      BY <1>2
    <2>2. handle' \in born \cup {NoProcess} /\ before' \subseteq born
      BY <1>2
    <2> HIDE DEF new
    <2> QED
      BY <1>1, <2>1, <2>2, GoOn
  <1>5. \A t \in signalled : t.req = running => t.process = handle
    BY DEF KillInv, Untouched
  <1>6. \A t \in signalled' : t.req = running => t.process = handle
    BY <1>1, <1>5
  <1>7. OneProcessPerCommand'
    BY <1>1, <1>5 DEF OneProcessPerCommand, KillInv
  <1>8. StrangerIsNewer'
    <2>1. handle # payload[running] => handle \notin before
      BY DEF KillInv
    <2>2. \A t \in signalled : t.process # payload[t.req] => t.newer
      BY DEF KillInv, StrangerIsNewer
    <2>3. new.process # payload[new.req] => new.newer
      BY <2>1
    <2> HIDE DEF new
    <2> QED
      BY <1>1, <1>3, <2>2, <2>3 DEF StrangerIsNewer
  <1>9. status[running] = "none"
    BY DEF KillInv
  <1>10. SuccessMeansGone'
    BY <1>1, <1>3, <1>9 DEF SuccessMeansGone, KillInv
  <1>11. handle # NoProcess /\ (handle # payload[running] => handle \notin before)
    BY DEF KillInv
  <1> QED
    BY <1>3, <1>4, <1>6, <1>7, <1>8, <1>9, <1>10, <1>11 DEF KillInv

LEMMA WaitStep == ASSUME KillInv, WaitIsOver PROVE KillInv'
  <1> USE DEF WaitIsOver, At
  <1>1. CASE Finish("error")
    BY <1>1, FinishStep DEF Finish
  <1>2. CASE /\ At("wait") /\ Goto("second") /\ UNCHANGED <<before, handle, signalled>>
    <2>1. before \subseteq born /\ handle \in born \cup {NoProcess} /\ step' = "second"
      BY <1>2 DEF KillInv, KillTypeOK, Goto
    <2> QED
      BY <1>2, <2>1, GoOn
         DEF KillInv, OneProcessPerCommand, StrangerIsNewer, SuccessMeansGone, Sent, Untouched
  <1> QED
    BY <1>1, <1>2

LEMMA KillStep == KillInv /\ [KillNext]_killVars => KillInv'
  <1> SUFFICES ASSUME KillInv, [KillNext]_killVars PROVE KillInv'
    OBVIOUS
  <1>1. CASE FirstSignal
    <2>1. CASE Finish("error")
      BY <1>1, <2>1, FinishStep DEF FirstSignal, Finish
    <2> QED
      BY <1>1, <2>1, SignalStep DEF FirstSignal, At
  <1>2. CASE SecondSignal
    <2>1. CASE Finish("error")
      BY <1>2, <2>1, FinishStep DEF SecondSignal, Finish
    <2> QED
      BY <1>2, <2>1, SignalStep DEF SecondSignal, At
  <1>3. CASE WaitProcessExit
    BY <1>3, FinishStep DEF WaitProcessExit, At, Finish
  <1>4. CASE UNCHANGED killVars
    <2>1. CommandInv'
      BY <1>4, CommandStep DEF KillInv, killVars
    <2> QED
      BY <1>4, <2>1, Travels DEF killVars, vars
  <1> QED
    BY <1>1, <1>2, <1>3, <1>4, HostStep, RefuseStep, PostStep, PlumbingStep, RejectStep,
       BeginStep, CheckStep, OpenStep, WaitStep DEF KillNext

(* Types, for any number of requests and processes.                        *)
THEOREM TypeCorrect == KillSpec => []KillTypeOK
  <1>1. KillInv => KillTypeOK
    BY DEF KillInv
  <1> QED
    BY <1>1, KillInitInv, KillStep, PTL DEF KillSpec

(* A late result, a timeout or a collision of ids never joins an answer to *)
(* a request of another id, nor a request to nobody (ws/agent.py:498-530). *)
THEOREM AnswersArriveRight == KillSpec => []AnswersFindTheirRequest
  <1>1. KillInv => AnswersFindTheirRequest
    BY DEF KillInv, CommandInv, AnswersFindTheirRequest, AnswerFromSameId
  <1> QED
    BY <1>1, KillInitInv, KillStep, PTL DEF KillSpec

(* TERM and the KILL that follows hit the same process, whoever has the    *)
(* number by then (process.go:83-103).                                     *)
THEOREM KillHitsWhatTermHit == KillSpec => []OneProcessPerCommand
  <1>1. KillInv => OneProcessPerCommand
    BY DEF KillInv
  <1> QED
    BY <1>1, KillInitInv, KillStep, PTL DEF KillSpec

(* Only a process that starts between the check and the opening can be     *)
(* signalled in the place of the one that the command names.               *)
THEOREM OnlyNewcomersAreMistaken == KillSpec => []StrangerIsNewer
  <1>1. KillInv => StrangerIsNewer
    BY DEF KillInv
  <1> QED
    BY <1>1, KillInitInv, KillStep, PTL DEF KillSpec

(* A success that the agent reports is that of a process that is gone.     *)
THEOREM SuccessIsTrue == KillSpec => []SuccessMeansGone
  <1>1. KillInv => SuccessMeansGone
    BY DEF KillInv
  <1> QED
    BY <1>1, KillInitInv, KillStep, PTL DEF KillSpec

-----------------------------------------------------------------------------
(* The promise of Termination.                                             *)

(* A result has left its command behind, and is on its way or has answered *)
(* one request.                                                            *)
AnswerInv ==
    /\ \A k \in 1 .. Len(results) : status[results[k]] # "none"
    /\ \A j, k \in 1 .. Len(results) : j # k => results[j] # results[k]
    /\ \A v \in Request : future[v] # NoRequest =>
           /\ status[future[v]] # "none"
           /\ \A k \in 1 .. Len(results) : results[k] # future[v]
           /\ \A w \in Request : future[w] = future[v] => w = v
    /\ step \in {"wait", "second", "waitKilled"} => \E s \in signalled : s.req = running

LEMMA AnswerInit == KillInit => AnswerInv
  BY DEF KillInit, Init, AnswerInv

LEMMA ResultGoesOut ==
    ASSUME KillInv, AnswerInv, NEW r \in Request, NEW outcome \in {"success", "error"},
           status[r] = "none", status' = [status EXCEPT ![r] = outcome],
           results' = Append(results, r), future' = future,
           step' \notin {"wait", "second", "waitKilled"}
    PROVE  AnswerInv'
  <1>1. /\ results \in Seq(Request) /\ Len(results) \in Nat
        /\ \A k \in 1 .. Len(results) : results[k] \in Request
        /\ future \in [Request -> Request \cup {NoRequest}]
        /\ status \in [Request -> {"none", "success", "error"}]
    BY DEF KillInv, KillTypeOK, TypeOK
  <1>2. /\ Len(results') = Len(results) + 1 /\ results'[Len(results) + 1] = r
        /\ \A k \in 1 .. Len(results) : results'[k] = results[k]
    BY <1>1
  <1>3. \A k \in 1 .. Len(results') : k \in 1 .. Len(results) \/ k = Len(results) + 1
    BY <1>1, <1>2
  <1>4. \A k \in 1 .. Len(results) : results[k] # r
    BY DEF AnswerInv
  <1>5. status'[r] # "none" /\ \A q \in Request : status[q] # "none" => status'[q] # "none"
    BY <1>1
  <1>6. \A k \in 1 .. Len(results') : status'[results'[k]] # "none"
    BY <1>1, <1>2, <1>3, <1>5 DEF AnswerInv
  <1>7. \A j, k \in 1 .. Len(results') : j # k => results'[j] # results'[k]
    BY <1>2, <1>3, <1>4 DEF AnswerInv
  <1>8. ASSUME NEW v \in Request, future[v] # NoRequest
        PROVE  /\ status'[future[v]] # "none"
               /\ \A k \in 1 .. Len(results') : results'[k] # future[v]
               /\ \A w \in Request : future[w] = future[v] => w = v
    <2>1. future[v] \in Request /\ future[v] # r
      BY <1>1, <1>8 DEF AnswerInv
    <2> QED
      BY <1>2, <1>3, <1>5, <1>8, <2>1 DEF AnswerInv
  <1> QED
    BY <1>6, <1>7, <1>8 DEF AnswerInv

(* Some of the results on their way are left.                              *)
LEMMA ResultsGetLost ==
    ASSUME AnswerInv, UNCHANGED <<future, status, step, signalled, running>>, NEW k \in Nat,
           Len(results') \in Nat,
           \A j \in 1 .. Len(results') : j + k \in 1 .. Len(results)
                                         /\ results'[j] = results[j + k]
    PROVE  AnswerInv'
  <1>1. \A i, j \in 1 .. Len(results') : i # j => results'[i] # results'[j]
    <2> TAKE i, j \in 1 .. Len(results')
    <2>1. i # j => i + k # j + k
      OBVIOUS
    <2> QED
      BY <2>1 DEF AnswerInv
  <1>2. \A j \in 1 .. Len(results') : status[results'[j]] # "none"
    BY DEF AnswerInv
  <1>3. ASSUME NEW v \in Request, future[v] # NoRequest
        PROVE  /\ status[future[v]] # "none"
               /\ \A j \in 1 .. Len(results') : results'[j] # future[v]
               /\ \A w \in Request : future[w] = future[v] => w = v
    BY <1>3 DEF AnswerInv
  <1> QED
    BY <1>1, <1>2, <1>3 DEF AnswerInv

LEMMA AnswerArrives == ASSUME KillInv, AnswerInv, Receive, UNCHANGED executorVars PROVE AnswerInv'
  <1> DEFINE i == id[Head(results)]
             waiter == pending[i]
  <1>1. /\ results \in Seq(Request) /\ results # <<>> /\ results' = Tail(results)
        /\ future \in [Request -> Request \cup {NoRequest}]
    BY DEF Receive, KillInv, KillTypeOK, TypeOK
  <1>2. /\ Len(results) \in Nat \ {0} /\ Head(results) = results[1] /\ results[1] \in Request
        /\ Len(results') = Len(results) - 1
        /\ \A k \in 1 .. Len(results') : k + 1 \in 1 .. Len(results) /\ results'[k] = results[k + 1]
    BY <1>1
  <1>3. UNCHANGED <<status, step, signalled, running>>
    BY DEF Receive, executorVars
  <1>4. i \in Ids /\ pending \in [Ids -> Request \cup {NoRequest}]
    <2>1. Sent(results[1]) /\ id \in [Request -> 0 .. MaxMs]
      BY <1>2 DEF KillInv, CommandInv, KillTypeOK, TypeOK
    <2> QED
      BY <1>2, <2>1, CommandResultsAssumption DEF Sent, Ids, KillInv, KillTypeOK, TypeOK
  <1>5. waiter \in Request \cup {NoRequest}
    BY <1>4
  <1>6. future' = IF waiter # NoRequest /\ future[waiter] = NoRequest
                  THEN [future EXCEPT ![waiter] = results[1]] ELSE future
    BY <1>2 DEF Receive, Complete
  <1> HIDE DEF waiter
  <1>7. CASE future' = future
    <2>1. Len(results') \in Nat /\ 1 \in Nat
      BY <1>2
    <2> QED
      BY <1>2, <1>3, <1>7, <2>1, ResultsGetLost
  <1>8. CASE waiter # NoRequest /\ future[waiter] = NoRequest
    <2>1. /\ waiter \in Request /\ future'[waiter] = results[1]
          /\ \A w \in Request \ {waiter} : future'[w] = future[w]
      BY <1>1, <1>5, <1>6, <1>8
    <2>2. 1 \in 1 .. Len(results)
      BY <1>2
    <2>3. /\ \A w \in Request : future[w] # results[1]
          /\ status[results[1]] # "none"
      BY <1>2, <2>2, CommandResultsAssumption DEF AnswerInv
    <2>4. \A j \in 1 .. Len(results') : results'[j] # results[1] /\ status[results'[j]] # "none"
      <3> TAKE j \in 1 .. Len(results')
      <3>1. j + 1 \in 1 .. Len(results) /\ j + 1 # 1 /\ results'[j] = results[j + 1]
        BY <1>2
      <3> QED
        BY <2>2, <3>1 DEF AnswerInv
    <2>5. \A j, k \in 1 .. Len(results') : j # k => results'[j] # results'[k]
      <3> TAKE j, k \in 1 .. Len(results')
      <3>1. /\ j + 1 \in 1 .. Len(results) /\ k + 1 \in 1 .. Len(results)
            /\ results'[j] = results[j + 1] /\ results'[k] = results[k + 1]
            /\ (j # k => j + 1 # k + 1)
        BY <1>2
      <3> QED
        BY <3>1 DEF AnswerInv
    <2>6. ASSUME NEW v \in Request, future'[v] # NoRequest
          PROVE  /\ status[future'[v]] # "none"
                 /\ \A k \in 1 .. Len(results') : results'[k] # future'[v]
                 /\ \A w \in Request : future'[w] = future'[v] => w = v
      <3>1. CASE v = waiter
        BY <2>1, <2>3, <2>4, <3>1
      <3>2. CASE v # waiter
        <4>1. future'[v] = future[v] /\ future[v] # NoRequest
          BY <2>1, <2>6, <3>2
        <4>2. \A k \in 1 .. Len(results') : results'[k] # future[v]
          BY <1>2, <4>1 DEF AnswerInv
        <4> QED
          BY <2>1, <2>3, <4>1, <4>2 DEF AnswerInv
      <3> QED
        BY <3>1, <3>2
    <2> QED
      BY <1>3, <2>4, <2>5, <2>6 DEF AnswerInv
  <1> QED
    BY <1>6, <1>7, <1>8

LEMMA AnswerQuiet ==
    ASSUME AnswerInv, UNCHANGED <<results, future, status>>,
           \/ UNCHANGED <<step, signalled, running>>
           \/ step' \notin {"wait", "second", "waitKilled"}
           \/ \E s \in signalled' : s.req = running'
    PROVE  AnswerInv'
  BY DEF AnswerInv

LEMMA AnswerStep == KillInv /\ AnswerInv /\ [KillNext]_killVars => AnswerInv'
  <1> SUFFICES ASSUME KillInv, AnswerInv, [KillNext]_killVars PROVE AnswerInv'
    OBVIOUS
  <1> USE DEF osVars, viewVars, executorVars
  <1>1. ASSUME \/ \E p \in Process : ProcessStarts(p) \/ ProcessExits(p)
               \/ update_processes
               \/ \E r \in Request : \/ \E p \in Process : ChooseRow(r, p)
                                     \/ Refuse(r) \/ PostChosen(r)
               \/ UNCHANGED killVars
        PROVE  AnswerInv'
    <2>1. UNCHANGED <<results, future, status, step, signalled, running>>
      BY <1>1 DEF ProcessStarts, ProcessExits, update_processes, ChooseRow, Refuse, PostChosen,
                  Post, SendWithoutAgent, Send, SendRaises, killVars, vars
    <2> QED
      BY <2>1, AnswerQuiet
  <1>2. ASSUME Plumbing PROVE AnswerInv'
    <2>1. CASE Receive
      BY <1>2, <2>1, AnswerArrives DEF Plumbing
    <2>2. CASE SessionEnds
      <3>1. PICK k \in 1 .. Len(results) + 1 : results' = SubSeq(results, k, Len(results))
        BY <2>2 DEF SessionEnds
      <3>2. results \in Seq(Request) /\ Len(results) \in Nat
        BY DEF KillInv, KillTypeOK, TypeOK
      <3>3. /\ results' \in Seq(Request) /\ Len(results') \in Nat /\ k - 1 \in Nat
            /\ \A j \in 1 .. Len(results') : j + (k - 1) \in 1 .. Len(results)
                                             /\ results'[j] = results[j + (k - 1)]
        <4>1. /\ results' \in Seq(Request)
              /\ \A j \in 1 .. Len(results') : j + k - 1 \in 1 .. Len(results)
                                               /\ results'[j] = results[j + k - 1]
          BY <3>1, <3>2, Suffix
        <4>2. \A j \in Nat : j + k - 1 = j + (k - 1)
          BY <3>2
        <4> QED
          BY <3>2, <4>1, <4>2
      <3>4. UNCHANGED <<future, status, step, signalled, running>>
        BY <1>2, <2>2 DEF Plumbing, SessionEnds
      <3> QED
        BY <3>3, <3>4, ResultsGetLost
    <2>3. CASE \/ \E r \in Request : Return(r) \/ Timeout(r)
               \/ SessionBegins \/ Tick
      <3>1. UNCHANGED <<results, future, status, step, signalled, running>>
        BY <1>2, <2>3 DEF Plumbing, Return, Timeout, SessionBegins, Tick
      <3> QED
        BY <3>1, AnswerQuiet
    <2> QED
      BY <1>2, <2>1, <2>2, <2>3 DEF Plumbing
  <1>3. ASSUME Reject PROVE AnswerInv'
    <2>1. /\ wire \in Seq(Request) /\ wire # <<>> /\ running = NoRequest
          /\ results' = Append(results, Head(wire)) /\ future' = future /\ step' = step
          /\ status' = [status EXCEPT ![Head(wire)] = "error"]
      BY <1>3 DEF Reject, AgentRejects, KillInv, KillTypeOK, TypeOK
    <2>2. Head(wire) = wire[1] /\ 1 \in 1 .. Len(wire) /\ wire[1] \in Request
      BY <2>1
    <2>3. status[Head(wire)] = "none" /\ step = "idle"
      BY <2>1, <2>2 DEF KillInv, Untouched, KillTypeOK
    <2> QED
      BY <2>1, <2>2, <2>3, ResultGoesOut
  <1>4. ASSUME NEW outcome \in {"success", "error"}, Finish(outcome) PROVE AnswerInv'
    <2>1. /\ running # NoRequest /\ running \in Request /\ status[running] = "none"
          /\ results' = Append(results, running) /\ future' = future /\ step' = "idle"
          /\ status' = [status EXCEPT ![running] = outcome]
      BY <1>4 DEF Finish, AgentFinishes, KillInv, KillTypeOK, TypeOK
    <2> QED
      BY <2>1, ResultGoesOut
  <1>5. ASSUME Begin PROVE AnswerInv'
    <2>1. UNCHANGED <<results, future, status>> /\ step' = "check"
      BY <1>5 DEF Begin, AgentStarts
    <2> QED
      BY <2>1, AnswerQuiet
  <1>6. ASSUME NEW s, Goto(s), s \in {"open", "first"} PROVE AnswerInv'
    <2>1. UNCHANGED <<results, future, status>> /\ step' = s
      BY <1>6 DEF Goto, vars
    <2> QED
      BY <1>6, <2>1, AnswerQuiet
  <1>7. ASSUME NEW s, Goto(s), signalled' = signalled, step = "wait" PROVE AnswerInv'
    <2>1. UNCHANGED <<results, future, status, running>>
      BY <1>7 DEF Goto, vars
    <2>2. \E t \in signalled' : t.req = running'
      BY <1>7, <2>1 DEF AnswerInv
    <2> QED
      BY <2>1, <2>2, AnswerQuiet
  <1>8. ASSUME NEW s, NEW sig, Signal(handle, sig), Goto(s) PROVE AnswerInv'
    <2>1. UNCHANGED <<results, future, status, running>>
      BY <1>8 DEF Goto, vars
    <2> DEFINE new == [req |-> running, sig |-> sig, process |-> handle,
                       newer |-> handle \notin before]
    <2>2. new \in signalled' /\ new.req = running'
      BY <1>8, <2>1 DEF Signal
    <2> HIDE DEF new
    <2>3. \E t \in signalled' : t.req = running'
      BY <2>2
    <2> QED
      BY <2>1, <2>3, AnswerQuiet
  <1>9. ASSUME ensureProcessIdentity \/ FindProcess PROVE AnswerInv'
    BY <1>4, <1>6, <1>9 DEF ensureProcessIdentity, FindProcess
  <1>10. ASSUME FirstSignal \/ SecondSignal PROVE AnswerInv'
    BY <1>4, <1>8, <1>10 DEF FirstSignal, SecondSignal
  <1>11. ASSUME WaitProcessExit \/ WaitIsOver PROVE AnswerInv'
    BY <1>4, <1>7, <1>11 DEF WaitProcessExit, WaitIsOver, At
  <1> QED
    BY <1>1, <1>2, <1>3, <1>5, <1>9, <1>10, <1>11 DEF KillNext

(* Nothing that the promise speaks of changes.                             *)
LEMMA NothingPromised ==
    ASSUME UNCHANGED <<id, signalled, status, future>> PROVE UNCHANGED Promise!vars
  BY DEF Promise!vars, Asked, HitBy

LEMMA PostAsks ==
    ASSUME KillInv, NEW r \in Request, PostChosen(r)
    PROVE  Promise!Next \/ UNCHANGED Promise!vars
  <1>1. UNCHANGED <<signalled, status, future>> /\ req[r] = "new"
    BY DEF PostChosen, Post, SendWithoutAgent, Send, SendRaises
  <1>2. CASE SendWithoutAgent(r)
    BY <1>1, <1>2, NothingPromised DEF SendWithoutAgent
  <1>3. CASE Send(r) \/ SendRaises(r)
    <2>1. id' = [id EXCEPT ![r] = ms]
      BY <1>3 DEF Send, SendRaises, File, NewId
    <2>2. ms # 0 /\ id \in [Request -> 0 .. MaxMs] /\ id[r] = 0
      BY <1>1, CommandResultsAssumption DEF KillInv, CommandInv, TypeOK, Sent, Ids
    <2>3. r \notin Asked /\ Asked' = Asked \cup {r}
      BY <2>1, <2>2 DEF Asked
    <2>4. Promise!Ask(r)
      BY <1>1, <2>3 DEF Promise!Ask, HitBy
    <2> QED
      BY <2>4 DEF Promise!Next
  <1> QED
    BY <1>2, <1>3 DEF PostChosen, Post

LEMMA EndIsOnce ==
    ASSUME KillInv, NEW r \in Request, NEW result \in {"success", "error"}, Sent(r),
           status[r] = "none", status' = [status EXCEPT ![r] = result],
           result = "success" => \E s \in signalled : s.req = r,
           UNCHANGED <<id, signalled, future>>
    PROVE  Promise!Next
  <1>1. result = "success" => HitBy[r] # {}
    BY DEF HitBy
  <1>2. r \in Asked
    BY DEF Asked, Sent
  <1>3. UNCHANGED <<Asked, HitBy, future>>
    BY DEF Asked, HitBy
  <1>4. Promise!End(r, result)
    BY <1>1, <1>2, <1>3 DEF Promise!End
  <1> QED
    BY <1>4 DEF Promise!Next

LEMMA ReceiveAnswers ==
    ASSUME KillInv, AnswerInv, Receive, UNCHANGED executorVars
    PROVE  Promise!Next \/ UNCHANGED Promise!vars
  <1> DEFINE waiter == pending[id[results[1]]]
  <1>1. /\ results \in Seq(Request) /\ Head(results) = results[1] /\ 1 \in 1 .. Len(results)
        /\ results[1] \in Request
    BY DEF Receive, KillInv, KillTypeOK, TypeOK
  <1>2. /\ UNCHANGED <<id, signalled, status>>
        /\ future' = IF waiter # NoRequest /\ future[waiter] = NoRequest
                     THEN [future EXCEPT ![waiter] = results[1]] ELSE future
    BY <1>1 DEF Receive, Complete, executorVars
  <1>3. waiter \in Request \cup {NoRequest} /\ (waiter # NoRequest => Sent(waiter))
    <2>1. id[results[1]] \in Ids
      BY <1>1, CommandResultsAssumption
         DEF KillInv, CommandInv, KillTypeOK, TypeOK, Sent, Ids
    <2>2. waiter \in Request \cup {NoRequest}
      BY <2>1 DEF KillInv, KillTypeOK, TypeOK
    <2>3. waiter # NoRequest => id[waiter] = id[results[1]]
      BY <2>1 DEF KillInv, CommandInv
    <2>4. id[results[1]] # 0
      BY <1>1 DEF KillInv, CommandInv, Sent
    <2> QED
      BY <2>2, <2>3, <2>4 DEF Sent
  <1> HIDE DEF waiter
  <1>4. CASE waiter # NoRequest /\ future[waiter] = NoRequest
    <2>1. waiter \in Asked /\ future' = [future EXCEPT ![waiter] = results[1]]
      BY <1>2, <1>3, <1>4 DEF Asked, Sent
    <2>2. status[results[1]] # "none" /\ \A w \in Request : future[w] # results[1]
      BY <1>1, CommandResultsAssumption DEF AnswerInv
    <2>3. UNCHANGED <<Asked, HitBy, status>>
      BY <1>2 DEF Asked, HitBy
    <2>4. Promise!Answer(waiter, results[1])
      BY <1>4, <2>1, <2>2, <2>3 DEF Promise!Answer
    <2> QED
      BY <1>1, <1>3, <1>4, <2>4 DEF Promise!Next
  <1>5. CASE future' = future
    BY <1>2, <1>5, NothingPromised
  <1> QED
    BY <1>2, <1>4, <1>5

(* The first signal hits a process, the second hits it again.              *)
LEMMA SignalHits ==
    ASSUME KillInv, AnswerInv, NEW sig, Signal(handle, sig), NEW s, Goto(s),
           running # NoRequest, step \in {"first", "second"}
    PROVE  Promise!Next \/ UNCHANGED Promise!vars
  <1>1. /\ running \in Request /\ handle \in Process /\ status[running] = "none"
        /\ Sent(running)
    BY DEF KillInv, CommandInv, KillTypeOK, TypeOK
  <1>2. UNCHANGED <<id, status, future>>
    BY DEF Goto, vars
  <1> DEFINE new == [req |-> running, sig |-> sig, process |-> handle,
                     newer |-> handle \notin before]
  <1>3. signalled' = signalled \cup {new} /\ new.req = running /\ new.process = handle
    BY DEF Signal
  <1> HIDE DEF new
  <1>4. \A t \in signalled : t.req = running => t.process = handle
    BY DEF KillInv, Untouched
  <1>5. HitBy' = [HitBy EXCEPT ![running] = {handle}]
    <2>1. ASSUME NEW r \in Request, r # running PROVE HitBy'[r] = HitBy[r]
      <3>1. {t \in signalled' : t.req = r} = {t \in signalled : t.req = r}
        BY <1>3, <2>1
      <3> QED
        BY <3>1 DEF HitBy
    <2>2. HitBy'[running] = {handle}
      BY <1>1, <1>3, <1>4 DEF HitBy
    <2> QED
      BY <1>1, <2>1, <2>2 DEF HitBy
  <1>6. CASE step = "first"
    <2>1. HitBy[running] = {}
      BY <1>1, <1>6 DEF KillInv, Untouched, HitBy
    <2>2. running \in Asked /\ Asked' = Asked
      BY <1>1, <1>2 DEF Asked, Sent
    <2>3. Promise!Hit(running, handle)
      BY <1>1, <1>2, <1>5, <2>1, <2>2 DEF Promise!Hit
    <2> QED
      BY <1>1, <2>3 DEF Promise!Next
  <1>7. CASE step = "second"
    <2>1. \E t \in signalled : t.req = running
      BY <1>7 DEF AnswerInv
    <2>2. HitBy[running] = {handle}
      BY <1>1, <1>4, <2>1 DEF HitBy
    <2>3. HitBy' = HitBy
      BY <1>5, <2>2 DEF HitBy
    <2> QED
      BY <1>2, <2>3 DEF Promise!vars, Asked
  <1> QED
    BY <1>6, <1>7

LEMMA StepTerminates ==
    KillInv /\ AnswerInv /\ [KillNext]_killVars => [Promise!Next]_(Promise!vars)
  <1> SUFFICES ASSUME KillInv, AnswerInv, [KillNext]_killVars
               PROVE  Promise!Next \/ UNCHANGED Promise!vars
    OBVIOUS
  <1> USE DEF osVars, viewVars, executorVars
  <1>1. ASSUME \/ \E p \in Process : ProcessStarts(p) \/ ProcessExits(p)
               \/ update_processes
               \/ \E r \in Request : (\E p \in Process : ChooseRow(r, p)) \/ Refuse(r)
               \/ Begin
               \/ UNCHANGED killVars
        PROVE  UNCHANGED Promise!vars
    <2>1. UNCHANGED <<id, signalled, status, future>>
      BY <1>1 DEF ProcessStarts, ProcessExits, update_processes, ChooseRow, Refuse, Begin,
                  AgentStarts, killVars, vars
    <2> QED
      BY <2>1, NothingPromised
  <1>2. ASSUME Plumbing PROVE Promise!Next \/ UNCHANGED Promise!vars
    <2>1. CASE Receive
      BY <1>2, <2>1, ReceiveAnswers DEF Plumbing
    <2>2. CASE \/ \E r \in Request : Return(r) \/ Timeout(r)
               \/ SessionEnds \/ SessionBegins \/ Tick
      <3>1. UNCHANGED <<id, signalled, status, future>>
        BY <1>2, <2>2 DEF Plumbing, Return, Timeout, SessionEnds, SessionBegins, Tick
      <3> QED
        BY <3>1, NothingPromised
    <2> QED
      BY <1>2, <2>1, <2>2 DEF Plumbing
  <1>3. ASSUME Reject PROVE Promise!Next
    <2>1. /\ wire \in Seq(Request) /\ wire # <<>>
          /\ UNCHANGED <<id, signalled, future>>
          /\ status' = [status EXCEPT ![Head(wire)] = "error"]
      BY <1>3 DEF Reject, AgentRejects, KillInv, KillTypeOK, TypeOK
    <2>2. Head(wire) = wire[1] /\ 1 \in 1 .. Len(wire) /\ wire[1] \in Request
      BY <2>1
    <2>3. status[Head(wire)] = "none" /\ Sent(Head(wire))
      BY <2>2 DEF KillInv, CommandInv, Untouched
    <2> QED
      BY <2>1, <2>2, <2>3, EndIsOnce
  <1>4. ASSUME NEW outcome \in {"success", "error"}, Finish(outcome),
               outcome = "success" => step \in {"wait", "second", "waitKilled"}
        PROVE  Promise!Next
    <2>1. /\ running \in Request /\ Sent(running) /\ status[running] = "none"
          /\ UNCHANGED <<id, signalled, future>>
          /\ status' = [status EXCEPT ![running] = outcome]
      BY <1>4 DEF Finish, AgentFinishes, KillInv, CommandInv, KillTypeOK, TypeOK
    <2>2. outcome = "success" => \E s \in signalled : s.req = running
      BY <1>4 DEF AnswerInv
    <2> QED
      BY <2>1, <2>2, EndIsOnce
  <1>5. ASSUME NEW s, Goto(s), signalled' = signalled PROVE UNCHANGED Promise!vars
    <2>1. UNCHANGED <<id, signalled, status, future>>
      BY <1>5 DEF Goto, vars
    <2> QED
      BY <2>1, NothingPromised
  <1>6. ASSUME ensureProcessIdentity \/ FindProcess PROVE Promise!Next \/ UNCHANGED Promise!vars
    BY <1>4, <1>5, <1>6 DEF ensureProcessIdentity, FindProcess
  <1>7. ASSUME FirstSignal \/ SecondSignal PROVE Promise!Next \/ UNCHANGED Promise!vars
    BY <1>4, <1>7, SignalHits DEF FirstSignal, SecondSignal, At
  <1>8. ASSUME WaitProcessExit \/ WaitIsOver PROVE Promise!Next \/ UNCHANGED Promise!vars
    BY <1>4, <1>5, <1>8 DEF WaitProcessExit, WaitIsOver, At
  <1> QED
    BY <1>1, <1>2, <1>3, <1>6, <1>7, <1>8, PostAsks DEF KillNext

(* For any number of requests and processes, whatever the clock, the       *)
(* sessions and the host do: a command is carried out once, on one process,*)
(* and its result answers one request (server/ws/agent.py:498-530,         *)
(* agent/executor/process.go:72-103).                                      *)
THEOREM CommandsKeepPromise == KillSpec => ImplementsTermination
  <1>1. KillInit => Promise!Init
    <2> SUFFICES ASSUME KillInit PROVE Promise!Init
      OBVIOUS
    <2>1. Asked = {} /\ HitBy = [r \in Request |-> {}]
      BY DEF KillInit, Init, Asked, HitBy
    <2> QED
      BY <2>1 DEF KillInit, Init, Promise!Init
  <1> QED
    BY <1>1, KillInitInv, KillStep, AnswerInit, AnswerStep, StepTerminates, PTL
       DEF KillSpec, ImplementsTermination, Promise!Spec
=============================================================================
