-------------------------- MODULE ContainmentProofs --------------------------
(***************************************************************************)
(* Whatever the system does by itself it has recorded before, for any      *)
(* addresses, kinds, durations and any number of events and crashes.       *)
(*                                                                         *)
(* The table shows it only once a statement is committed, so the invariant *)
(* follows the evidence back through the queue: an automatic row that      *)
(* waits has its event committed or in front of it (Ordered), and the row  *)
(* a suspended handler is still to queue has its event committed or        *)
(* waiting.                                                                *)
(*                                                                         *)
(* Second, the queue and its writer implement the table of BlockTable.     *)
(* A version of the table is what the first n waiting statements leave, so *)
(* the proof is about sets of positions in a queue: what their first n     *)
(* are, and how both change when a statement is appended or leaves.        *)
(*                                                                         *)
(* Third, a detection is answered once: each command and each rule has a   *)
(* detection of its own among those counted for its address.               *)
(***************************************************************************)
EXTENDS Containment, SequenceTheorems, FiniteSetTheorems, TLAPS

Explains(e, ip, at) == e.ip = ip /\ e.action = "auto_block" /\ e.ts = at

(* The events that wait in a queue q.                                      *)
Waiting(q) == {q[i].event : i \in {j \in 1 .. Len(q) : q[j].op = "event"}}

AutomaticPut(w) == w.op = "put" /\ w.row.auto

(* Each automatic row in q has its event in ev or in front of it.          *)
Ordered(ev, q) ==
    \A i \in 1 .. Len(q) : AutomaticPut(q[i]) =>
        \/ \E e \in ev : Explains(e, q[i].ip, q[i].row.at)
        \/ \E j \in 1 .. i - 1 : /\ q[j].op = "event"
                                 /\ Explains(q[j].event, q[i].ip, q[i].row.at)

SentIsRecorded ==
    handler.pc = "sent" => \E e \in Recorded : Explains(e, handler.ip, handler.ts)

EvidenceInv ==
    /\ TypeOK
    /\ Ordered(events, queue)
    /\ SentIsRecorded
    /\ EvidenceFirst

-----------------------------------------------------------------------------
(* Lemmas about queues of statements.                                      *)

(* A statement that is appended hides no event, and shows its own.         *)
LEMMA AppendShows ==
    ASSUME NEW q \in Seq(Write), NEW w \in Write
    PROVE  /\ Append(q, w) \in Seq(Write)
           /\ Waiting(q) \subseteq Waiting(Append(q, w))
           /\ w.op = "event" => w.event \in Waiting(Append(q, w))
  <1> DEFINE p == Append(q, w)
  <1>1. /\ p \in Seq(Write) /\ Len(p) = Len(q) + 1 /\ Len(q) \in Nat
        /\ p[Len(q) + 1] = w /\ \A i \in 1 .. Len(q) : p[i] = q[i]
    OBVIOUS
  <1> HIDE DEF p
  <1>2. ASSUME NEW i \in 1 .. Len(q), q[i].op = "event" PROVE q[i].event \in Waiting(p)
    <2>1. i \in 1 .. Len(p) /\ p[i] = q[i]
      BY <1>1
    <2> QED
      BY <1>2, <2>1 DEF Waiting
  <1>3. ASSUME w.op = "event" PROVE w.event \in Waiting(p)
    <2>1. Len(q) + 1 \in 1 .. Len(p)
      BY <1>1
    <2> QED
      BY <1>1, <1>3, <2>1 DEF Waiting
  <1> QED
    BY <1>1, <1>2, <1>3 DEF Waiting, p

(* Order is kept by a statement that puts no automatic row, or one whose   *)
(* event is committed or waits already.                                    *)
LEMMA AppendOrdered ==
    ASSUME NEW ev, NEW q \in Seq(Write), NEW w \in Write, Ordered(ev, q),
           AutomaticPut(w) =>
               \E e \in ev \cup Waiting(q) : Explains(e, w.ip, w.row.at)
    PROVE  Ordered(ev, Append(q, w))
  <1> DEFINE p == Append(q, w)
  <1>1. /\ Len(p) = Len(q) + 1 /\ Len(q) \in Nat
        /\ p[Len(q) + 1] = w /\ \A i \in 1 .. Len(q) : p[i] = q[i]
    OBVIOUS
  <1> HIDE DEF p
  <1> SUFFICES ASSUME NEW i \in 1 .. Len(p), AutomaticPut(p[i])
               PROVE  \/ \E e \in ev : Explains(e, p[i].ip, p[i].row.at)
                      \/ \E j \in 1 .. i - 1 : /\ p[j].op = "event"
                                               /\ Explains(p[j].event, p[i].ip, p[i].row.at)
    BY DEF Ordered, p
  <1>2. CASE i \in 1 .. Len(q)
    <2>1. p[i] = q[i] /\ \A j \in 1 .. i - 1 : p[j] = q[j]
      BY <1>1, <1>2
    <2> QED
      BY <1>2, <2>1 DEF Ordered
  <1>3. CASE i = Len(q) + 1
    <2>1. p[i] = w
      BY <1>1, <1>3
    <2>2. CASE \E e \in ev : Explains(e, w.ip, w.row.at)
      BY <2>1, <2>2
    <2>3. CASE \E e \in Waiting(q) : Explains(e, w.ip, w.row.at)
      <3>1. PICK j \in 1 .. Len(q) : q[j].op = "event" /\ Explains(q[j].event, w.ip, w.row.at)
        BY <2>3 DEF Waiting
      <3>2. j \in 1 .. i - 1 /\ p[j] = q[j]
        BY <1>1, <1>3
      <3> QED
        BY <2>1, <3>1, <3>2
    <2> QED
      BY <2>1, <2>2, <2>3
  <1> QED
    BY <1>1, <1>2, <1>3

(* The head leaves: what waited still waits or is the head's event.        *)
LEMMA TailKeeps ==
    ASSUME NEW q \in Seq(Write), q # <<>>
    PROVE  /\ Head(q) \in Write /\ Tail(q) \in Seq(Write)
           /\ Waiting(q) \subseteq Waiting(Tail(q)) \cup
                  (IF Head(q).op = "event" THEN {Head(q).event} ELSE {})
  <1> DEFINE p == Tail(q)
  <1>1. /\ p \in Seq(Write) /\ Len(p) = Len(q) - 1 /\ Len(q) \in Nat \ {0}
        /\ Head(q) = q[1] /\ Head(q) \in Write
        /\ \A i \in 1 .. Len(p) : p[i] = q[i + 1]
    OBVIOUS
  <1> HIDE DEF p
  <1>2. ASSUME NEW i \in 1 .. Len(q), q[i].op = "event", i # 1 PROVE q[i].event \in Waiting(p)
    <2>1. i - 1 \in 1 .. Len(p) /\ p[i - 1] = q[i]
      BY <1>1, <1>2
    <2> QED
      BY <1>2, <2>1 DEF Waiting
  <1> QED
    BY <1>1, <1>2 DEF Waiting, p

(* The head leaves and order stays: an event that leaves is committed.     *)
LEMMA TailOrdered ==
    ASSUME NEW ev, NEW new, NEW q \in Seq(Write), q # <<>>, Ordered(ev, q),
           ev \subseteq new, Head(q).op = "event" => Head(q).event \in new
    PROVE  Ordered(new, Tail(q))
  <1> DEFINE p == Tail(q)
  <1>1. /\ Len(p) = Len(q) - 1 /\ Len(q) \in Nat \ {0} /\ Head(q) = q[1]
        /\ \A i \in 1 .. Len(p) : p[i] = q[i + 1]
    OBVIOUS
  <1> HIDE DEF p
  <1> SUFFICES ASSUME NEW i \in 1 .. Len(p), AutomaticPut(p[i])
               PROVE  \/ \E e \in new : Explains(e, p[i].ip, p[i].row.at)
                      \/ \E j \in 1 .. i - 1 : /\ p[j].op = "event"
                                               /\ Explains(p[j].event, p[i].ip, p[i].row.at)
    BY DEF Ordered, p
  <1>2. i + 1 \in 1 .. Len(q) /\ p[i] = q[i + 1]
    BY <1>1
  <1>3. CASE \E e \in ev : Explains(e, p[i].ip, p[i].row.at)
    BY <1>3
  <1>4. CASE \E j \in 1 .. i : q[j].op = "event" /\ Explains(q[j].event, p[i].ip, p[i].row.at)
    <2>1. PICK j \in 1 .. i : q[j].op = "event" /\ Explains(q[j].event, p[i].ip, p[i].row.at)
      BY <1>4
    <2>2. CASE j = 1
      BY <1>1, <2>1, <2>2
    <2>3. CASE j # 1
      <3>1. j - 1 \in 1 .. i - 1 /\ p[j - 1] = q[j]
        BY <1>1, <2>3
      <3> QED
        BY <2>1, <3>1
    <2> QED
      BY <2>2, <2>3
  <1>5. (i + 1) - 1 = i
    OBVIOUS
  <1> QED
    BY <1>2, <1>3, <1>4, <1>5 DEF Ordered

-----------------------------------------------------------------------------
(* Commands that leave the link from its end.                              *)

(* t is what is left of s.                                                 *)
Sheds(t, s) ==
    /\ t \in Seq(Ip) /\ Len(t) <= Len(s)
    /\ \A i \in 1 .. Len(t) : i \in 1 .. Len(s) /\ t[i] = s[i]

LEMMA ArrivingSheds ==
    ASSUME NEW s \in Seq(Ip), NEW t \in Arriving(s) PROVE Sheds(t, s)
  <1>1. PICK k \in 0 .. Len(s) : t = SubSeq(s, 1, k)
    BY DEF Arriving
  <1>2. Len(s) \in Nat /\ k \in Nat /\ k <= Len(s) /\ \A i \in 1 .. Len(s) : s[i] \in Ip
    OBVIOUS
  <1>3. 1 \in Int /\ k \in Int /\ \A i \in 1 .. k : s[i] \in Ip
    BY <1>2
  <1>4. /\ SubSeq(s, 1, k) \in Seq(Ip)
        /\ Len(SubSeq(s, 1, k)) = IF 1 <= k THEN k - 1 + 1 ELSE 0
        /\ \A i \in 1 .. k - 1 + 1 : SubSeq(s, 1, k)[i] = s[1 + i - 1]
    BY <1>3, SubSeqProperties
  <1>5. t \in Seq(Ip) /\ Len(t) = k
    BY <1>1, <1>2, <1>4
  <1>6. \A i \in 1 .. k : i \in 1 .. Len(s) /\ t[i] = s[i]
    <2> TAKE i \in 1 .. k
    <2>1. i \in 1 .. k - 1 + 1 /\ 1 + i - 1 = i /\ i \in 1 .. Len(s)
      BY <1>2
    <2> QED
      BY <1>1, <1>4, <2>1
  <1> QED
    BY <1>2, <1>5, <1>6 DEF Sheds

LEMMA LinkSheds ==
    ASSUME TypeOK, link' = link \/ link' \in Arriving(link) PROVE Sheds(link', link)
  <1>1. link \in Seq(Ip)
    BY DEF TypeOK
  <1>2. CASE link' = link
    BY <1>1, <1>2 DEF Sheds
  <1>3. CASE link' \in Arriving(link)
    BY <1>1, <1>3, ArrivingSheds
  <1> QED
    BY <1>2, <1>3

-----------------------------------------------------------------------------
(* What is recorded stays recorded, and the rules stay explained.          *)

LEMMA RecordedIs == /\ Recorded = events \cup Waiting(queue)
                    /\ Recorded' = events' \cup Waiting(queue')
  BY DEF Recorded, QueuedEvents, Waiting

LEMMA OrderedIs == Ordered(events, queue)' <=> Ordered(events', queue')
  BY DEF Ordered, AutomaticPut, Explains

(* A step after which the handler is where it was, idle, or suspended with *)
(* what it had, keeps the types if it queues and sends what is typed.      *)
LEMMA TypeKept ==
    ASSUME TypeOK, queue' \in Seq(Write), link' \in Seq(Ip),
           UNCHANGED <<now, dbVars, sweep, rules, logs>>, registered' \in BOOLEAN,
           manual' \in Nat, crashes' \in Nat,
           \/ handler' = handler
           \/ handler'.pc = "idle"
           \/ /\ handler.pc # "idle" /\ handler'.pc = "sent"
              /\ handler'.ip = handler.ip /\ handler'.ts = handler.ts
    PROVE  TypeOK'
  BY DEF TypeOK, dbVars

LEMMA EnqueueRecords ==
    ASSUME queue \in Seq(Write), NEW w \in Write, queue' = Enqueue(queue, w),
           events' = events
    PROVE  /\ queue' \in Seq(Write)
           /\ Recorded \subseteq Recorded'
           /\ w.op = "event" => w.event \in Recorded'
  BY AppendShows, RecordedIs DEF Enqueue

(* A step that sends nothing, executes nothing and forgets no event.       *)
LEMMA RulesStayExplained ==
    ASSUME TypeOK, RuleHasEvidence, Recorded \subseteq Recorded',
           rules' = rules, Sheds(link', link), crashes' = crashes
    PROVE  RuleHasEvidence'
  <1> SUFFICES ASSUME crashes = 0, NEW ip \in Ip,
                      rules[ip] > 0 \/ (\E i \in 1 .. Len(link') : link'[i] = ip)
               PROVE  \E e \in Recorded' : e.ip = ip /\ e.action = "auto_block"
    BY DEF RuleHasEvidence
  <1>1. rules[ip] > 0 \/ (\E i \in 1 .. Len(link) : link[i] = ip)
    BY DEF Sheds
  <1> QED
    BY <1>1 DEF RuleHasEvidence

(* A step that commits nothing.                                            *)
LEMMA RowsStay ==
    ASSUME RowHasEvidence, blocked' = blocked, events' = events
    PROVE  RowHasEvidence'
  BY DEF RowHasEvidence

(* A step that leaves tables and queue alone, and sends nothing.           *)
LEMMA QuietStep ==
    ASSUME EvidenceInv, TypeOK', UNCHANGED <<dbVars, queue, rules, crashes>>,
           link' = link \/ link' \in Arriving(link),
           handler' = handler \/ handler'.pc # "sent"
    PROVE  EvidenceInv'
  <1>1. Recorded' = Recorded
    BY RecordedIs DEF dbVars
  <1>2. SentIsRecorded'
    BY <1>1 DEF EvidenceInv, SentIsRecorded
  <1>3. EvidenceFirst'
    BY <1>1, LinkSheds, RulesStayExplained, RowsStay DEF EvidenceInv, EvidenceFirst, dbVars
  <1> QED
    BY <1>2, <1>3 DEF EvidenceInv, Ordered, dbVars

(* A step that queues one statement; an automatic row only if explained.   *)
LEMMA EnqueueStep ==
    ASSUME EvidenceInv, TypeOK', NEW w \in Write, queue' = Enqueue(queue, w),
           UNCHANGED <<dbVars, rules, link, crashes>>,
           handler' = handler \/ handler'.pc # "sent",
           AutomaticPut(w) => \E e \in Recorded : Explains(e, w.ip, w.row.at)
    PROVE  EvidenceInv'
  <1>1. Recorded \subseteq Recorded'
    BY EnqueueRecords DEF EvidenceInv, TypeOK, dbVars
  <1>2. SentIsRecorded'
    BY <1>1 DEF EvidenceInv, SentIsRecorded
  <1>3. EvidenceFirst'
    BY <1>1, LinkSheds, RulesStayExplained, RowsStay DEF EvidenceInv, EvidenceFirst, dbVars
  <1>4. Ordered(events, Append(queue, w))
    BY AppendOrdered, RecordedIs DEF EvidenceInv, TypeOK
  <1>5. Ordered(events, queue)'
    BY <1>4, OrderedIs DEF Enqueue, dbVars
  <1> QED
    BY <1>2, <1>3, <1>5 DEF EvidenceInv

-----------------------------------------------------------------------------
(* The actions.                                                            *)

LEMMA InitIsExplained == Init => EvidenceInv
  <1> SUFFICES ASSUME Init PROVE EvidenceInv
    OBVIOUS
  <1>1. TypeOK
    BY ContainmentAssumption DEF Init, TypeOK, Idle, Asleep, Time
  <1>2. Ordered(events, queue) /\ SentIsRecorded
    BY DEF Init, Ordered, SentIsRecorded, Idle
  <1>3. EvidenceFirst
    BY DEF Init, EvidenceFirst, RowHasEvidence, RuleHasEvidence
  <1> QED
    BY <1>1, <1>2, <1>3 DEF EvidenceInv

LEMMA Bounds == MaxTime \in Nat \ {0} /\ MaxLogs \in Nat /\ {Lag, Ahead, BlockDuration} \subseteq Nat
                /\ Lag < MaxTime
  BY ContainmentAssumption

(* The statements _handle_log queues.                                      *)
LEMMA HandlerWrites ==
    ASSUME TypeOK, handler.pc # "idle"
    PROVE  /\ handler.pc = "ready" => InsertEvent(EventOf(handler)) \in Write
           /\ PutRow(handler.ip, BlockRow(handler.ts)) \in Write
  <1> USE ContainmentAssumption
  <1>1. ASSUME handler.pc = "ready" PROVE EventOf(handler) \in Event
    <2>1. ActionTaken(handler) \in Actions
      BY DEF ActionTaken, Actions
    <2>2. logs \in 1 .. MaxLogs
      BY DEF TypeOK
    <2>3. /\ handler.ip \in Ip /\ handler.ts \in Stamp /\ handler.kind \in Kinds
          /\ handler.kind.type \in EventTypes
      BY <1>1 DEF TypeOK
    <2> QED
      BY <2>1, <2>2, <2>3 DEF EventOf, Event
  <1>2. BlockRow(handler.ts) \in Row
    <2>1. handler.ts \in Stamp
      BY DEF TypeOK
    <2>2. handler.ts + BlockDuration \in 1 .. (MaxTime + Ahead + BlockDuration)
      BY <2>1, Bounds DEF Stamp
    <2> QED
      BY <2>1, <2>2 DEF BlockRow, Row
  <1> QED
    BY <1>1, <1>2 DEF TypeOK, InsertEvent, PutRow, Write

LEMMA ReadsStep ==
    ASSUME EvidenceInv,
           \/ \E ip \in Ip, kind \in Kinds, ts \in now - Lag .. now + Ahead :
                 ReadCount(ip, kind, ts)
           \/ ReadBlocked \/ ReadDuplicate \/ Suppress
    PROVE  EvidenceInv'
  <1> USE DEF dbVars, hostVars, counters
  <1>1. ASSUME NEW ip \in Ip, NEW kind \in Kinds, NEW ts \in now - Lag .. now + Ahead,
               ReadCount(ip, kind, ts)
        PROVE  TypeOK' /\ handler'.pc # "sent" /\ UNCHANGED <<dbVars, queue, hostVars, crashes>>
    <2>1. ts \in Stamp
      <3>1. now \in 1 + Lag .. MaxTime
        BY DEF TypeOK, EvidenceInv, Time
      <3> QED
        BY <1>1, <3>1, Bounds DEF Stamp
    <2>2. logs' \in 0 .. MaxLogs /\ logs' # 0
      BY <1>1, Bounds DEF ReadCount, TypeOK, EvidenceInv
    <2>3. handler'.pc = "counted" /\ handler'.ip = ip /\ handler'.kind = kind
          /\ handler'.ts = ts
      BY <1>1 DEF ReadCount
    <2>4. UNCHANGED <<now, dbVars, queue, sweep, registered, hostVars, manual, crashes>>
      BY <1>1 DEF ReadCount
    <2> QED
      BY <2>1, <2>2, <2>3, <2>4 DEF TypeOK, EvidenceInv
  <1>2. ASSUME ReadBlocked \/ ReadDuplicate
        PROVE  TypeOK' /\ handler'.pc # "sent" /\ UNCHANGED <<dbVars, queue, hostVars, crashes>>
    <2>1. /\ handler.pc \in {"counted", "checked"} /\ handler'.pc \in {"checked", "ready"}
          /\ handler'.ip = handler.ip /\ handler'.ts = handler.ts /\ handler'.kind = handler.kind
      BY <1>2 DEF ReadBlocked, ReadDuplicate
    <2>2. UNCHANGED <<now, dbVars, queue, sweep, registered, hostVars, counters>>
      BY <1>2 DEF ReadBlocked, ReadDuplicate
    <2> QED
      BY <2>1, <2>2 DEF TypeOK, EvidenceInv
  <1>3. ASSUME Suppress
        PROVE  TypeOK' /\ handler'.pc # "sent" /\ UNCHANGED <<dbVars, queue, hostVars, crashes>>
    BY <1>3 DEF Suppress, TypeOK, EvidenceInv, Idle
  <1> QED
    BY <1>1, <1>2, <1>3, QuietStep

LEMMA RecordStep == ASSUME EvidenceInv, Record PROVE EvidenceInv'
  <1> DEFINE w == InsertEvent(EventOf(handler))
  <1>1. w \in Write /\ queue' = Enqueue(queue, w) /\ ~AutomaticPut(w)
    BY HandlerWrites DEF Record, Proceed, EvidenceInv, InsertEvent, AutomaticPut
  <1>2. TypeOK'
    <2>1. queue' \in Seq(Write) /\ handler'.pc = "idle"
      BY <1>1, EnqueueRecords DEF EvidenceInv, TypeOK, Record, Idle, dbVars
    <2> QED
      BY <2>1, TypeKept DEF EvidenceInv, TypeOK, Record, hostVars, counters
  <1> QED
    BY <1>1, <1>2, EnqueueStep DEF Record, Idle, dbVars, hostVars, counters

(* The event of a block explains the row and the command.                  *)
LEMMA BlockExplained ==
    ASSUME Decision(handler) = "block"
    PROVE  Explains(EventOf(handler), handler.ip, handler.ts)
  BY DEF Explains, EventOf, ActionTaken

(* A block is recorded, and the agent gets some of the commands sent.      *)
LEMMA BlockStep ==
    ASSUME EvidenceInv, BlockWithoutAgent \/ SendBlock \/ SendRaises PROVE EvidenceInv'
  <1> USE DEF dbVars, hostVars, counters
  <1> DEFINE w == InsertEvent(EventOf(handler))
             sent == Append(link, handler.ip)
  <1>1. /\ handler.pc = "ready" /\ handler.ip \in Ip /\ Decision(handler) = "block"
        /\ link \in Seq(Ip) /\ queue \in Seq(Write)
    BY DEF EvidenceInv, TypeOK, BlockWithoutAgent, SendBlock, SendRaises, Proceed
  <1>2. /\ w \in Write /\ queue' = Enqueue(queue, w) /\ w.op = "event" /\ ~AutomaticPut(w)
        /\ UNCHANGED <<now, dbVars, sweep, rules, counters>>
    BY <1>1, HandlerWrites
       DEF BlockWithoutAgent, SendBlock, SendRaises, EvidenceInv, InsertEvent, AutomaticPut
  <1>3. \/ handler'.pc = "idle"
        \/ /\ handler'.pc = "sent"
           /\ handler'.ip = handler.ip /\ handler'.ts = handler.ts
    BY DEF BlockWithoutAgent, SendBlock, SendRaises, Idle
  <1>4. Sheds(link', sent)
    <2>1. /\ sent \in Seq(Ip) /\ Len(sent) = Len(link) + 1 /\ Len(link) \in Nat
          /\ \A i \in 1 .. Len(link) : sent[i] = link[i]
      BY <1>1
    <2>2. CASE BlockWithoutAgent
      <3>1. link' = link
        BY <2>2 DEF BlockWithoutAgent
      <3> HIDE DEF sent
      <3> QED
        BY <1>1, <2>1, <3>1 DEF Sheds
    <2>3. CASE SendBlock
      <3>1. link' = sent
        BY <2>3 DEF SendBlock
      <3> HIDE DEF sent
      <3> QED
        BY <2>1, <3>1 DEF Sheds
    <2>4. CASE SendRaises
      <3>1. link' \in Arriving(sent)
        BY <2>4 DEF SendRaises
      <3> HIDE DEF sent
      <3> QED
        BY <2>1, <3>1, ArrivingSheds
    <2> QED
      BY <2>2, <2>3, <2>4
  <1>5. queue' \in Seq(Write) /\ Recorded \subseteq Recorded' /\ EventOf(handler) \in Recorded'
    BY <1>1, <1>2, EnqueueRecords DEF InsertEvent
  <1>6. Explains(EventOf(handler), handler.ip, handler.ts)
    BY <1>1, BlockExplained
  <1>7. TypeOK'
    <2>1. registered' \in BOOLEAN
      BY DEF BlockWithoutAgent, SendBlock, SendRaises, EvidenceInv, TypeOK
    <2>2. link' \in Seq(Ip)
      BY <1>4 DEF Sheds
    <2> QED
      BY <1>1, <1>2, <1>3, <1>5, <2>1, <2>2, TypeKept DEF EvidenceInv, TypeOK
  <1>8. Ordered(events, Append(queue, w))
    BY <1>1, <1>2, AppendOrdered DEF EvidenceInv
  <1>9. Ordered(events, queue)'
    BY <1>2, <1>8, OrderedIs DEF Enqueue
  <1>10. SentIsRecorded'
    BY <1>3, <1>5, <1>6 DEF SentIsRecorded
  <1>11. RuleHasEvidence'
    <2> SUFFICES ASSUME crashes = 0, NEW ip \in Ip,
                        rules[ip] > 0 \/ (\E i \in 1 .. Len(link') : link'[i] = ip)
                 PROVE  \E e \in Recorded' : e.ip = ip /\ e.action = "auto_block"
      BY <1>2 DEF RuleHasEvidence
    <2>1. CASE ip = handler.ip
      BY <1>5, <1>6, <2>1 DEF Explains
    <2>2. CASE rules[ip] > 0
      BY <1>5, <2>2 DEF EvidenceInv, EvidenceFirst, RuleHasEvidence
    <2>3. CASE ip # handler.ip /\ (\E i \in 1 .. Len(link') : link'[i] = ip)
      <3>1. \E i \in 1 .. Len(sent) : sent[i] = ip
        BY <1>4, <2>3 DEF Sheds
      <3>2. \E i \in 1 .. Len(link) : link[i] = ip
        BY <1>1, <2>3, <3>1
      <3> QED
        BY <1>5, <3>2 DEF EvidenceInv, EvidenceFirst, RuleHasEvidence
    <2> QED
      BY <2>1, <2>2, <2>3
  <1>12. RowHasEvidence'
    BY <1>2, RowsStay DEF EvidenceInv, EvidenceFirst
  <1> QED
    BY <1>7, <1>9, <1>10, <1>11, <1>12 DEF EvidenceInv, EvidenceFirst

LEMMA FinishBlockStep == ASSUME EvidenceInv, FinishBlock PROVE EvidenceInv'
  <1> DEFINE w == PutRow(handler.ip, BlockRow(handler.ts))
  <1>1. w \in Write /\ queue' = Enqueue(queue, w)
    BY HandlerWrites DEF FinishBlock, EvidenceInv
  <1>2. \E e \in Recorded : Explains(e, w.ip, w.row.at)
    BY DEF FinishBlock, EvidenceInv, SentIsRecorded, PutRow, BlockRow
  <1>3. TypeOK'
    <2>1. queue' \in Seq(Write) /\ handler'.pc = "idle"
      BY <1>1, EnqueueRecords DEF EvidenceInv, TypeOK, FinishBlock, Idle, dbVars
    <2> QED
      BY <2>1, TypeKept DEF EvidenceInv, TypeOK, FinishBlock, hostVars, counters
  <1> QED
    BY <1>1, <1>2, <1>3, EnqueueStep DEF FinishBlock, Idle, dbVars, hostVars, counters

(* The statement an operator's action queues.                              *)
LEMMA OperatorWrites ==
    ASSUME TypeOK, NEW ip \in Ip,
           \/ \E duration \in Durations : ManualBlock(ip, duration)
           \/ ManualUnblock(ip)
    PROVE  \E w \in Write : queue' = Enqueue(queue, w) /\ ~AutomaticPut(w)
  <1>1. ASSUME NEW duration \in Durations, ManualBlock(ip, duration)
        PROVE  \E w \in Write : queue' = Enqueue(queue, w) /\ ~AutomaticPut(w)
    <2> DEFINE row == [at |-> now, expires |-> Until(duration), auto |-> FALSE]
    <2>1. row \in Row
      <3>1. now \in 1 .. MaxTime /\ duration \in 0 .. BlockDuration
        <4>1. Durations \subseteq 0 .. BlockDuration
          BY ContainmentAssumption
        <4>2. now \in Time
          BY DEF TypeOK
        <4> QED
          BY <4>1, <4>2, Bounds DEF Time
      <3>2. Until(duration) \in {Never} \cup 1 .. (MaxTime + Ahead + BlockDuration)
        BY <3>1, Bounds DEF Until, Never
      <3>3. now \in Stamp
        BY <3>1, Bounds DEF Stamp
      <3> QED
        BY <3>2, <3>3 DEF Row
    <2>2. PutRow(ip, row) \in Write /\ ~AutomaticPut(PutRow(ip, row))
      BY <2>1 DEF PutRow, Write, AutomaticPut
    <2> QED
      BY <1>1, <2>2 DEF ManualBlock
  <1>2. ASSUME ManualUnblock(ip)
        PROVE  \E w \in Write : queue' = Enqueue(queue, w) /\ ~AutomaticPut(w)
    <2>1. DeleteRow(ip) \in Write /\ ~AutomaticPut(DeleteRow(ip))
      BY DEF DeleteRow, Write, AutomaticPut
    <2> QED
      BY <1>2, <2>1 DEF ManualUnblock
  <1> QED
    BY <1>1, <1>2

LEMMA OperatorStep ==
    ASSUME EvidenceInv, NEW ip \in Ip,
           \/ \E duration \in Durations : ManualBlock(ip, duration)
           \/ ManualUnblock(ip)
    PROVE  EvidenceInv'
  <1> USE DEF dbVars, hostVars, counters
  <1>1. PICK w \in Write : queue' = Enqueue(queue, w) /\ ~AutomaticPut(w)
    BY OperatorWrites DEF EvidenceInv
  <1>2. manual' = manual + 1
        /\ UNCHANGED <<now, dbVars, handler, sweep, registered, hostVars, logs, crashes>>
    BY DEF ManualBlock, ManualUnblock
  <1>3. TypeOK'
    <2>1. queue' \in Seq(Write)
      BY <1>1, <1>2, EnqueueRecords DEF EvidenceInv, TypeOK
    <2> QED
      BY <1>2, <2>1, TypeKept DEF EvidenceInv, TypeOK
  <1> QED
    BY <1>1, <1>2, <1>3, EnqueueStep

LEMMA ExpiryStep == ASSUME EvidenceInv, ExpirySelect \/ ExpiryDelete PROVE EvidenceInv'
  <1> USE DEF dbVars, hostVars, counters
  <1>1. ASSUME ExpirySelect PROVE EvidenceInv'
    <2>1. TypeOK'
      BY <1>1 DEF ExpirySelect, EvidenceInv, TypeOK
    <2> QED
      BY <1>1, <2>1, QuietStep DEF ExpirySelect
  <1>2. ASSUME ExpiryDelete PROVE EvidenceInv'
    <2> DEFINE w == SweepRows(sweep.ips)
    <2>1. w \in Write /\ queue' = Enqueue(queue, w) /\ ~AutomaticPut(w)
      BY <1>2 DEF ExpiryDelete, EvidenceInv, TypeOK, SweepRows, Write, AutomaticPut
    <2>2. TypeOK'
      BY <1>2, <2>1, EnqueueRecords DEF ExpiryDelete, EvidenceInv, TypeOK, Asleep
    <2> QED
      BY <1>2, <2>1, <2>2, EnqueueStep DEF ExpiryDelete
  <1> QED
    BY <1>1, <1>2

LEMMA CommitStep == ASSUME EvidenceInv, Commit PROVE EvidenceInv'
  <1> USE DEF hostVars, counters
  <1> DEFINE w == Head(queue)
  <1>1. /\ queue \in Seq(Write) /\ queue # <<>> /\ w \in Write
        /\ queue' = Tail(queue) /\ queue' \in Seq(Write)
    BY TailKeeps DEF Commit, EvidenceInv, TypeOK
  <1>2. /\ w.op = "event" => events' = events \cup {w.event} /\ blocked' = blocked
        /\ w.op # "event" => events' = events /\ blocked' = Apply(blocked, w)
    BY DEF Commit
  <1>3. events \subseteq events' /\ (w.op = "event" => w.event \in events')
    BY <1>2
  <1> HIDE DEF w
  <1>4. Recorded \subseteq Recorded'
    BY <1>1, <1>3, TailKeeps, RecordedIs DEF w
  <1>5. Ordered(events', queue')
    BY <1>1, <1>3, TailOrdered DEF EvidenceInv, w
  <1>6. ASSUME w.op = "put" PROVE w.ip \in Ip /\ w.row \in Row
    BY <1>1, <1>6 DEF Write
  <1>7. TypeOK'
    <2>1. events' \subseteq Event
      BY <1>1, <1>2 DEF EvidenceInv, TypeOK, Write
    <2>2. blocked' \in [Ip -> Row \cup {NoRow}]
      BY <1>2, <1>6 DEF EvidenceInv, TypeOK, Apply
    <2> QED
      BY <1>1, <2>1, <2>2 DEF EvidenceInv, TypeOK, Commit
  <1>8. SentIsRecorded'
    BY <1>4 DEF EvidenceInv, SentIsRecorded, Commit
  <1>9. RuleHasEvidence'
    BY <1>4, LinkSheds, RulesStayExplained DEF EvidenceInv, EvidenceFirst, Commit
  <1>10. ASSUME AutomaticPut(w) PROVE \E e \in events : Explains(e, w.ip, w.row.at)
    <2>1. 1 \in 1 .. Len(queue) /\ w = queue[1] /\ 1 .. 1 - 1 = {}
      BY <1>1 DEF w
    <2> QED
      BY <1>10, <2>1 DEF EvidenceInv, Ordered
  <1>11. RowHasEvidence'
    <2> SUFFICES ASSUME NEW ip \in Ip, blocked'[ip] # NoRow, blocked'[ip].auto
                 PROVE  \E e \in events' : e.ip = ip /\ e.action = "auto_block"
                                           /\ e.ts = blocked'[ip].at
      BY DEF RowHasEvidence
    <2>1. CASE w.op = "put" /\ w.ip = ip
      <3>1. blocked'[ip] = w.row
        BY <1>2, <2>1 DEF Apply, EvidenceInv, TypeOK
      <3> QED
        BY <1>3, <1>10, <2>1, <3>1 DEF AutomaticPut, Explains
    <2>2. CASE ~(w.op = "put" /\ w.ip = ip)
      <3>1. blocked'[ip] = blocked[ip]
        BY <1>2, <2>2 DEF Apply, EvidenceInv, TypeOK
      <3> QED
        BY <1>3, <3>1 DEF EvidenceInv, EvidenceFirst, RowHasEvidence
    <2> QED
      BY <2>1, <2>2
  <1> QED
    BY <1>5, <1>7, <1>8, <1>9, <1>11, OrderedIs DEF EvidenceInv, EvidenceFirst

LEMMA AgentExecuteStep == ASSUME EvidenceInv, AgentExecute PROVE EvidenceInv'
  <1> USE DEF dbVars, counters
  <1>1. /\ Len(link) \in Nat \ {0} /\ Head(link) = link[1] /\ Head(link) \in Ip
        /\ link' \in Seq(Ip) /\ Len(link') = Len(link) - 1
        /\ \A i \in 1 .. Len(link') : link'[i] = link[i + 1]
    BY DEF AgentExecute, EvidenceInv, TypeOK
  <1>2. TypeOK'
    BY <1>1 DEF AgentExecute, EvidenceInv, TypeOK
  <1>3. Recorded' = Recorded
    BY RecordedIs DEF AgentExecute
  <1>4. RuleHasEvidence'
    <2> SUFFICES ASSUME crashes = 0, NEW ip \in Ip,
                        rules'[ip] > 0 \/ (\E i \in 1 .. Len(link') : link'[i] = ip)
                 PROVE  rules[ip] > 0 \/ (\E i \in 1 .. Len(link) : link[i] = ip)
      BY <1>3 DEF EvidenceInv, EvidenceFirst, RuleHasEvidence, AgentExecute
    <2>1. CASE \E i \in 1 .. Len(link') : link'[i] = ip
      <3>1. PICK i \in 1 .. Len(link') : link'[i] = ip
        BY <2>1
      <3>2. i + 1 \in 1 .. Len(link) /\ link[i + 1] = ip
        BY <1>1, <3>1
      <3> QED
        BY <3>2
    <2>2. CASE rules'[ip] > 0
      BY <1>1, <2>2 DEF AgentExecute, EvidenceInv, TypeOK
    <2> QED
      BY <2>1, <2>2
  <1>5. SentIsRecorded' /\ RowHasEvidence'
    BY <1>3, RowsStay DEF AgentExecute, EvidenceInv, EvidenceFirst, SentIsRecorded
  <1> QED
    BY <1>2, <1>4, <1>5
       DEF AgentExecute, EvidenceInv, EvidenceFirst, Ordered

LEMMA LinkAndClockStep ==
    ASSUME EvidenceInv, LinkDown \/ LinkUp \/ Tick PROVE EvidenceInv'
  <1> USE DEF dbVars, hostVars, counters
  <1>1. /\ UNCHANGED <<dbVars, queue, rules, handler, sweep, counters>>
        /\ link' = link \/ link' \in Arriving(link)
    BY DEF LinkDown, LinkUp, Tick
  <1>2. link' \in Seq(Ip)
    BY <1>1, LinkSheds DEF EvidenceInv, Sheds
  <1>3. now' \in Time
    BY Bounds DEF LinkDown, LinkUp, Tick, EvidenceInv, TypeOK, Time
  <1>4. registered' \in BOOLEAN
    BY DEF LinkDown, LinkUp, Tick, EvidenceInv, TypeOK
  <1>5. TypeOK'
    BY <1>1, <1>2, <1>3, <1>4 DEF EvidenceInv, TypeOK
  <1> QED
    BY <1>1, <1>5, QuietStep

LEMMA CrashStep == ASSUME EvidenceInv, Crash PROVE EvidenceInv'
  <1> USE DEF dbVars
  <1>1. queue' = <<>> /\ Len(queue') = 0 /\ handler' = Idle /\ sweep' = Asleep
        /\ queue' \in Seq(Write) /\ link' \in Seq(Ip)
        /\ crashes \in Nat /\ crashes' = crashes + 1
    BY LinkSheds DEF Crash, EvidenceInv, TypeOK, Sheds
  <1>2. /\ UNCHANGED <<now, dbVars, rules, logs, manual>> /\ registered' = FALSE
        /\ handler'.pc = "idle" /\ sweep'.pc = "asleep"
    BY <1>1 DEF Crash, Idle, Asleep
  <1>3. TypeOK'
    <2>1. manual' \in Nat /\ crashes' \in Nat
      BY <1>1, <1>2 DEF EvidenceInv, TypeOK
    <2>2. registered' \in BOOLEAN
      BY <1>2
    <2> QED
      BY <1>1, <1>2, <2>1, <2>2 DEF EvidenceInv, TypeOK
  <1>4. Ordered(events, queue)' /\ SentIsRecorded'
    BY <1>1 DEF Ordered, SentIsRecorded, Idle
  <1>5. EvidenceFirst'
    BY <1>1, RowsStay DEF Crash, EvidenceInv, EvidenceFirst, RuleHasEvidence
  <1> QED
    BY <1>3, <1>4, <1>5 DEF EvidenceInv

-----------------------------------------------------------------------------
(* The theorems.                                                           *)

LEMMA EvidenceIsInvariant == Spec => []EvidenceInv
  <1>1. ASSUME EvidenceInv, [Next]_vars PROVE EvidenceInv'
    <2>1. CASE Next
      BY <1>1, <2>1, ReadsStep, RecordStep, BlockStep, FinishBlockStep, OperatorStep, ExpiryStep, CommitStep,
         AgentExecuteStep, LinkAndClockStep, CrashStep DEF Next
    <2>2. CASE UNCHANGED vars
      <3>1. TypeOK'
        BY <1>1, <2>2 DEF vars, dbVars, hostVars, counters, EvidenceInv, TypeOK
      <3> QED
        BY <1>1, <2>2, <3>1, QuietStep DEF vars, dbVars
    <2> QED
      BY <1>1, <2>1, <2>2
  <1> QED
    BY <1>1, InitIsExplained, PTL DEF Spec

(* The pipeline's state keeps its type: what waits in the queue is always  *)
(* a whole statement, whichever coroutine queued it.                       *)
THEOREM TypeCorrect == Spec => []TypeOK
  BY EvidenceIsInvariant, PTL DEF EvidenceInv

(* No automatic row is durable before its event, through any crash; and    *)
(* while the process lives no command is under way and no rule stands      *)
(* without one: _handle_log records before it acts.                        *)
THEOREM EvidenceComesFirst == Spec => []EvidenceFirst
  BY EvidenceIsInvariant, PTL DEF EvidenceInv

-----------------------------------------------------------------------------
(* Sets of positions in a queue.                                           *)

(* They are finite.                                                        *)
LEMMA PositionsFinite ==
    ASSUME NEW n \in Nat, NEW S \in SUBSET (1 .. n)
    PROVE  IsFiniteSet(S) /\ Cardinality(S) \in Nat
  <1>1. IsFiniteSet(1 .. n)
    BY FS_Interval
  <1> QED
    BY <1>1, FS_Subset, FS_CardinalityType

(* The largest of them is what Max chooses.                                *)
IsLast(m, S) == S \in SUBSET Int /\ m \in S /\ \A i \in S : i <= m

LEMMA LastIsMax ==
    ASSUME NEW m, NEW S, IsLast(m, S)
    PROVE  Max(S) = m
  <1>1. PICK x \in S : x = Max(S) /\ m <= x
    BY DEF IsLast, Max
  <1>2. x <= m /\ x \in Int /\ m \in Int
    BY DEF IsLast
  <1> QED
    BY <1>1, <1>2

(* A set of positions that is not empty has a last one: the positions      *)
(* behind one of them are finitely many, so some have least behind them.   *)
LEMMA LastExists ==
    ASSUME NEW n \in Nat, NEW S \in SUBSET (1 .. n), S # {}
    PROVE  \E m \in S : IsLast(m, S)
  <1> DEFINE Behind(i) == {k \in S : k > i}
             Family == {Behind(i) : i \in S}
  <1>1. IsFiniteSet(S) /\ \A i \in S : i \in Nat
    BY PositionsFinite
  <1>2. Family \subseteq SUBSET S /\ Family # {}
    OBVIOUS
  <1>3. IsWellFoundedOn(StrictSubsetOrdering(S), SUBSET S)
    BY <1>1, FS_StrictSubsetOrderingWellFounded, FS_FiniteSubsetsOfFinite
  <1>4. PICK B \in Family : \A C \in Family : <<C, B>> \notin StrictSubsetOrdering(S)
    <2> HIDE DEF Family
    <2> QED
      BY <1>2, <1>3, WFMin
  <1>5. PICK i \in S : B = Behind(i)
    BY <1>4
  <1>6. ASSUME NEW k \in S, k > i PROVE FALSE
    <2>1. Behind(k) \in Family
      OBVIOUS
    <2>4. Behind(k) \subseteq Behind(i)
      <3> SUFFICES ASSUME NEW h \in S, h > k PROVE h > i
        OBVIOUS
      <3> QED
        BY <1>1, <1>6
    <2>2. k \in Behind(i) /\ k \notin Behind(k)
      BY <1>1, <1>6
    <2>3. <<Behind(k), Behind(i)>> \in StrictSubsetOrdering(S)
      BY <2>2, <2>4 DEF StrictSubsetOrdering
    <2> QED
      BY <1>4, <1>5, <2>1, <2>3
  <1>7. \A k \in S : k <= i
    BY <1>1, <1>6
  <1> QED
    BY <1>1, <1>7 DEF IsLast

(* The same positions after the head of the queue has left.                *)
Shifted(S) == {i - 1 : i \in S}

LEMMA ShiftedIs ==
    ASSUME NEW n \in Nat, NEW S \in SUBSET (2 .. n)
    PROVE  /\ Shifted(S) \subseteq 1 .. n - 1
           /\ \A i \in 1 .. n - 1 : i \in Shifted(S) <=> i + 1 \in S
           /\ IsFiniteSet(Shifted(S)) /\ Cardinality(Shifted(S)) = Cardinality(S)
  <1>1. /\ Shifted(S) \subseteq 1 .. n - 1
        /\ \A i \in 1 .. n - 1 : i \in Shifted(S) <=> i + 1 \in S
    BY DEF Shifted
  <1>2. S \in SUBSET (1 .. n)
    OBVIOUS
  <1> DEFINE f == [i \in S |-> i - 1]
  <1>3. f \in Bijection(S, Shifted(S))
    <2>1. f \in [S -> Shifted(S)] /\ \A t \in Shifted(S) : \E i \in S : f[i] = t
      BY DEF Shifted
    <2>2. IsInjective(f)
      BY DEF IsInjective
    <2> HIDE DEF f
    <2> QED
      BY <2>1, <2>2 DEF Bijection, Injection, Surjection
  <1>4. ExistsBijection(S, Shifted(S))
    BY <1>3 DEF ExistsBijection
  <1> QED
    BY <1>1, <1>2, <1>4, PositionsFinite, FS_Bijection

(* The first n of a set of positions: all of them if there are no more ... *)
LEMMA FirstOfAll ==
    ASSUME NEW m \in Nat, NEW P \in SUBSET (1 .. m), NEW n \in Nat, n >= Cardinality(P)
    PROVE  FirstOf(P, n) = P
  <1>1. ASSUME NEW i \in P PROVE Cardinality({k \in P : k <= i}) <= n
    <2>1. /\ IsFiniteSet(P) /\ {k \in P : k <= i} \in SUBSET P
          /\ Cardinality(P) \in Nat /\ Cardinality({k \in P : k <= i}) \in Nat
      BY PositionsFinite
    <2>2. Cardinality({k \in P : k <= i}) <= Cardinality(P)
      BY <2>1, FS_Subset
    <2> QED
      BY <2>1, <2>2
  <1> QED
    BY <1>1 DEF FirstOf

(* ... the same if a later position is added ...                           *)
LEMMA FirstOfMore ==
    ASSUME NEW m \in Nat, NEW P \in SUBSET (1 .. m), NEW n \in Nat, n <= Cardinality(P)
    PROVE  /\ Cardinality(P \cup {m + 1}) = Cardinality(P) + 1
           /\ FirstOf(P \cup {m + 1}, n) = FirstOf(P, n)
  <1> DEFINE Q == P \cup {m + 1}
  <1>1. Q \in SUBSET (1 .. m + 1) /\ m + 1 \in Nat /\ m + 1 \notin P
    OBVIOUS
  <1>2. Cardinality(Q) = Cardinality(P) + 1 /\ Cardinality(P) \in Nat
    BY <1>1, PositionsFinite, FS_AddElement
  <1>3. ASSUME NEW i \in P PROVE {k \in Q : k <= i} = {k \in P : k <= i}
    BY <1>1
  <1>4. {k \in Q : k <= m + 1} = Q
    <2>1. \A k \in Q : k <= m + 1
      BY <1>1
    <2> HIDE DEF Q
    <2> QED
      BY <2>1
  <1>5. m + 1 \notin FirstOf(Q, n)
    BY <1>2, <1>4 DEF FirstOf
  <1>6. \A i \in P : i \in FirstOf(Q, n) <=> i \in FirstOf(P, n)
    BY <1>3 DEF FirstOf
  <1> QED
    BY <1>2, <1>5, <1>6 DEF FirstOf

(* ... shifted with them ...                                               *)
LEMMA FirstOfShifted ==
    ASSUME NEW m \in Nat, NEW P \in SUBSET (2 .. m), NEW n \in Nat
    PROVE  FirstOf(Shifted(P), n) = Shifted(FirstOf(P, n))
  <1>1. ASSUME NEW i \in P
        PROVE  Cardinality({k \in Shifted(P) : k <= i - 1}) = Cardinality({k \in P : k <= i})
    <2>1. {k \in P : k <= i} \in SUBSET (2 .. m)
      OBVIOUS
    <2>2. {k \in Shifted(P) : k <= i - 1} = Shifted({k \in P : k <= i})
      BY DEF Shifted
    <2> QED
      BY <2>1, <2>2, ShiftedIs
  <1>2. ASSUME NEW j \in Shifted(P)
        PROVE  j \in FirstOf(Shifted(P), n) <=> j \in Shifted(FirstOf(P, n))
    <2>1. PICK i \in P : j = i - 1
      BY DEF Shifted
    <2>2. j \in FirstOf(Shifted(P), n) <=> i \in FirstOf(P, n)
      BY <1>1, <2>1 DEF FirstOf
    <2>3. j \in Shifted(FirstOf(P, n)) <=> i \in FirstOf(P, n)
      <3>1. FirstOf(P, n) \subseteq P
        BY DEF FirstOf
      <3>2. \A h \in P : h - 1 = j => h = i
        BY <2>1
      <3> QED
        BY <2>1, <3>1, <3>2 DEF Shifted
    <2> QED
      BY <2>2, <2>3
  <1> QED
    BY <1>2 DEF FirstOf, Shifted

(* ... and with position 1 in front, one more of them.                     *)
LEMMA FirstOfHead ==
    ASSUME NEW m \in Nat, NEW P \in SUBSET (1 .. m), 1 \in P, NEW n \in Nat
    PROVE  /\ Cardinality(P) = Cardinality(P \ {1}) + 1
           /\ FirstOf(P, n + 1) = {1} \cup FirstOf(P \ {1}, n)
  <1> DEFINE R == P \ {1}
  <1>1. IsFiniteSet(P) /\ Cardinality(P) \in Nat /\ R \in SUBSET (1 .. m)
    BY PositionsFinite
  <1>2. Cardinality(P) = Cardinality(R) + 1
    BY <1>1, FS_RemoveElement
  <1>3. ASSUME NEW i \in R
        PROVE  i \in FirstOf(P, n + 1) <=> i \in FirstOf(R, n)
    <2> DEFINE U == {k \in R : k <= i}
    <2>1. U \in SUBSET (1 .. m) /\ 1 \notin U
      OBVIOUS
    <2>2. {k \in P : k <= i} = U \cup {1}
      OBVIOUS
    <2>3. Cardinality(U \cup {1}) = Cardinality(U) + 1 /\ Cardinality(U) \in Nat
      BY <2>1, PositionsFinite, FS_AddElement
    <2>4. Cardinality(U) + 1 <= n + 1 <=> Cardinality(U) <= n
      BY <2>3
    <2> QED
      BY <2>2, <2>3, <2>4 DEF FirstOf
  <1>4. 1 \in FirstOf(P, n + 1)
    <2>1. {k \in P : k <= 1} = {1}
      <3>1. \A k \in P : k <= 1 <=> k = 1
        OBVIOUS
      <3> QED
        BY <3>1
    <2> QED
      BY <2>1, FS_Singleton DEF FirstOf
  <1> QED
    BY <1>2, <1>3, <1>4 DEF FirstOf

-----------------------------------------------------------------------------
(* The table after some statements of a queue.                             *)

(* An address that none of them is about keeps its row; any other has what *)
(* the last of them about it leaves.                                       *)
WritesAbout(q, S, ip) == {i \in S : AboutIp(q[i], ip)}

LEMMA TableUntouched ==
    ASSUME NEW table, NEW q, NEW S, NEW ip \in Ip, WritesAbout(q, S, ip) = {}
    PROVE  TableAfter(table, q, S)[ip] = table[ip]
  BY DEF TableAfter, WritesAbout

LEMMA TableWritten ==
    ASSUME NEW table, NEW q, NEW S, NEW ip \in Ip, NEW m, IsLast(m, WritesAbout(q, S, ip))
    PROVE  TableAfter(table, q, S)[ip] = RowLeft(q[m])
  <1>1. Max(WritesAbout(q, S, ip)) = m /\ m \in WritesAbout(q, S, ip)
    BY LastIsMax DEF IsLast
  <1> QED
    BY <1>1 DEF TableAfter, WritesAbout

(* A table is its rows.                                                    *)
LEMMA TableEqual ==
    ASSUME NEW t1, NEW q1, NEW S1, NEW t2, NEW q2, NEW S2,
           \A ip \in Ip : TableAfter(t1, q1, S1)[ip] = TableAfter(t2, q2, S2)[ip]
    PROVE  TableAfter(t1, q1, S1) = TableAfter(t2, q2, S2)
  BY DEF TableAfter

(* It depends on these statements only.                                    *)
LEMMA SameStatements ==
    ASSUME NEW n \in Nat, NEW S \in SUBSET (1 .. n), NEW table, NEW q1, NEW q2,
           \A i \in S : q1[i] = q2[i]
    PROVE  TableAfter(table, q1, S) = TableAfter(table, q2, S)
  <1> SUFFICES ASSUME NEW ip \in Ip
               PROVE  TableAfter(table, q1, S)[ip] = TableAfter(table, q2, S)[ip]
    BY TableEqual
  <1>1. WritesAbout(q1, S, ip) = WritesAbout(q2, S, ip) /\ WritesAbout(q1, S, ip) \subseteq S
    BY DEF WritesAbout
  <1>2. CASE WritesAbout(q1, S, ip) = {}
    <2>1. TableAfter(table, q1, S)[ip] = table[ip]
      BY <1>2, TableUntouched
    <2>2. WritesAbout(q2, S, ip) = {}
      BY <1>1, <1>2
    <2>3. TableAfter(table, q2, S)[ip] = table[ip]
      BY <2>2, TableUntouched
    <2> QED
      BY <2>1, <2>3
  <1>3. CASE WritesAbout(q1, S, ip) # {}
    <2>1. PICK m \in WritesAbout(q1, S, ip) : IsLast(m, WritesAbout(q1, S, ip))
      BY <1>1, <1>3, LastExists
    <2>2. TableAfter(table, q1, S)[ip] = RowLeft(q1[m])
      BY <1>1, <2>1, TableWritten
    <2>3. TableAfter(table, q2, S)[ip] = RowLeft(q2[m])
      BY <1>1, <2>1, TableWritten
    <2> QED
      BY <1>1, <2>2, <2>3
  <1> QED
    BY <1>2, <1>3

(* One more statement at the end has its effect on the table before it.    *)
LEMMA OneMoreStatement ==
    ASSUME NEW n \in Nat, NEW S \in SUBSET (1 .. n), NEW table, NEW q, NEW ip \in Ip
    PROVE  LET row == TableAfter(table, q, S \cup {n + 1})[ip]
           IN /\ AboutIp(q[n + 1], ip) => row = RowLeft(q[n + 1])
              /\ ~AboutIp(q[n + 1], ip) => row = TableAfter(table, q, S)[ip]
  <1> DEFINE more == WritesAbout(q, S \cup {n + 1}, ip)
             less == WritesAbout(q, S, ip)
  <1>1. /\ less \in SUBSET (1 .. n) /\ more \subseteq less \cup {n + 1}
        /\ less \subseteq more /\ (n + 1 \in more <=> AboutIp(q[n + 1], ip))
    BY DEF WritesAbout
  <1>2. CASE AboutIp(q[n + 1], ip)
    <2> HIDE DEF more, less
    <2>1. IsLast(n + 1, more)
      BY <1>1, <1>2 DEF IsLast
    <2> QED
      BY <1>2, <2>1, TableWritten DEF more
  <1>3. CASE ~AboutIp(q[n + 1], ip)
    <2>1. more = less
      BY <1>1, <1>3
    <2>2. CASE less = {}
      <3>1. TableAfter(table, q, S)[ip] = table[ip]
        BY <2>2, TableUntouched
      <3>2. TableAfter(table, q, S \cup {n + 1})[ip] = table[ip]
        <4>1. more = {}
          BY <2>1, <2>2
        <4> QED
          BY <4>1, TableUntouched
      <3> QED
        BY <1>3, <3>1, <3>2
    <2>3. CASE less # {}
      <3>1. PICK m \in less : IsLast(m, less)
        BY <1>1, <2>3, LastExists
      <3>2. TableAfter(table, q, S)[ip] = RowLeft(q[m])
        BY <1>1, <3>1, TableWritten
      <3>3. TableAfter(table, q, S \cup {n + 1})[ip] = RowLeft(q[m])
        BY <1>1, <2>1, <3>1, TableWritten
      <3> QED
        BY <1>3, <3>2, <3>3
    <2> QED
      BY <2>2, <2>3
  <1> QED
    BY <1>2, <1>3

(* The first statement has its effect on the table under the others.       *)
LEMMA FirstStatement ==
    ASSUME NEW n \in Nat, NEW S \in SUBSET (2 .. n), NEW table, NEW q
    PROVE  TableAfter(table, q, {1} \cup S) = TableAfter(TableAfter(table, q, {1}), q, S)
  <1> SUFFICES ASSUME NEW ip \in Ip
               PROVE  TableAfter(table, q, {1} \cup S)[ip] =
                      TableAfter(TableAfter(table, q, {1}), q, S)[ip]
    BY TableEqual
  <1> DEFINE all == WritesAbout(q, {1} \cup S, ip)
             rest == WritesAbout(q, S, ip)
  <1>1. rest \subseteq 2 .. n /\ all \subseteq {1} \cup rest /\ rest \subseteq all
    BY DEF WritesAbout
  <1>2. CASE rest = {}
    <2>1. all = WritesAbout(q, {1}, ip)
      BY <1>2 DEF WritesAbout
    <2>2. TableAfter(TableAfter(table, q, {1}), q, S)[ip] = TableAfter(table, q, {1})[ip]
      BY <1>2, TableUntouched
    <2>3. CASE all = {}
      <3>1. TableAfter(table, q, {1} \cup S)[ip] = table[ip]
        BY <2>3, TableUntouched
      <3>2. TableAfter(table, q, {1})[ip] = table[ip]
        BY <2>1, <2>3, TableUntouched
      <3> QED
        BY <2>2, <3>1, <3>2
    <2>4. CASE all # {}
      <3>1. all \subseteq {1}
        BY <1>1, <1>2
      <3> HIDE DEF all
      <3>4. all = {1}
        BY <2>4, <3>1
      <3>5. IsLast(1, all)
        BY <3>4 DEF IsLast
      <3>2. TableAfter(table, q, {1} \cup S)[ip] = RowLeft(q[1])
        BY <3>5, TableWritten DEF all
      <3>3. TableAfter(table, q, {1})[ip] = RowLeft(q[1])
        BY <2>1, <3>5, TableWritten DEF all
      <3> QED
        BY <2>2, <3>2, <3>3
    <2> QED
      BY <2>3, <2>4
  <1>3. CASE rest # {}
    <2> HIDE DEF all, rest
    <2>0. rest \in SUBSET (1 .. n)
      BY <1>1
    <2>1. PICK m \in rest : IsLast(m, rest)
      BY <1>3, <2>0, LastExists
    <2>2. IsLast(m, all)
      <3>1. m \in 2 .. n /\ m \in all
        BY <1>1, <2>1
      <3>2. \A i \in all : i = 1 \/ i \in rest
        BY <1>1
      <3> QED
        BY <2>1, <3>1, <3>2 DEF IsLast
    <2>3. TableAfter(table, q, {1} \cup S)[ip] = RowLeft(q[m])
      BY <2>2, TableWritten DEF all
    <2>4. TableAfter(TableAfter(table, q, {1}), q, S)[ip] = RowLeft(q[m])
      BY <2>0, <2>1, TableWritten DEF rest
    <2> QED
      BY <2>3, <2>4
  <1> QED
    BY <1>2, <1>3

(* The head has left: the others have the same effect.                     *)
LEMMA OthersShifted ==
    ASSUME NEW n \in Nat, NEW S \in SUBSET (2 .. n), NEW table, NEW q, NEW tail,
           \A i \in S : tail[i - 1] = q[i]
    PROVE  TableAfter(table, tail, Shifted(S)) = TableAfter(table, q, S)
  <1> SUFFICES ASSUME NEW ip \in Ip
               PROVE  TableAfter(table, tail, Shifted(S))[ip] = TableAfter(table, q, S)[ip]
    BY TableEqual
  <1> DEFINE before == WritesAbout(q, S, ip)
             after == WritesAbout(tail, Shifted(S), ip)
  <1>1. before \in SUBSET (2 .. n) /\ before \in SUBSET (1 .. n) /\ before \subseteq S
    <2>1. before \subseteq S
      BY DEF WritesAbout
    <2> HIDE DEF before
    <2> QED
      BY <2>1
  <1>2. after = Shifted(before)
    BY DEF WritesAbout, Shifted
  <1>3. CASE before = {}
    <2>1. after = {}
      BY <1>2, <1>3 DEF Shifted
    <2> QED
      BY <1>3, <2>1, TableUntouched
  <1>4. CASE before # {}
    <2> HIDE DEF before, after
    <2>1. PICK m \in before : IsLast(m, before)
      BY <1>1, <1>4, LastExists
    <2>2. PICK p \in Int : p = m - 1
      BY <1>1, <2>1
    <2>3. IsLast(p, after)
      BY <1>1, <1>2, <2>1, <2>2 DEF Shifted, IsLast
    <2>4. TableAfter(table, tail, Shifted(S))[ip] = RowLeft(tail[p])
      BY <2>3, TableWritten DEF after
    <2>5. TableAfter(table, q, S)[ip] = RowLeft(q[m])
      BY <1>1, <2>1, TableWritten DEF before
    <2>6. tail[p] = q[m]
      BY <1>1, <2>2
    <2> QED
      BY <2>4, <2>5, <2>6
  <1> QED
    BY <1>3, <1>4

-----------------------------------------------------------------------------
(* The versions of the table that a queue stands for.                      *)

Table == [Ip -> Row \cup {NoRow}]

(* A statement leaves a row or none, so the table stays a table.           *)
LEMMA WriteTypes ==
    ASSUME NEW w \in Write, w.op # "event"
    PROVE  /\ w.op = "put" => w.ip \in Ip /\ w.row \in Row
           /\ w.op # "put" => w.ips \in SUBSET Ip
           /\ RowLeft(w) \in Row \cup {NoRow}
  BY DEF Write, RowLeft

LEMMA TableType ==
    ASSUME NEW table \in Table, NEW q \in Seq(Write), NEW S \in SUBSET TablePositions(q)
    PROVE  TableAfter(table, q, S) \in Table
  <1>1. ASSUME NEW ip \in Ip PROVE TableAfter(table, q, S)[ip] \in Row \cup {NoRow}
    <2>1. CASE WritesAbout(q, S, ip) = {}
      <3>1. TableAfter(table, q, S)[ip] = table[ip]
        BY <2>1, TableUntouched
      <3> QED
        BY <3>1 DEF Table
    <2>2. CASE WritesAbout(q, S, ip) # {}
      <3>1. WritesAbout(q, S, ip) \in SUBSET (1 .. Len(q)) /\ Len(q) \in Nat
        <4>1. WritesAbout(q, S, ip) \subseteq S /\ S \subseteq 1 .. Len(q)
          BY DEF WritesAbout, TablePositions
        <4>2. Len(q) \in Nat
          OBVIOUS
        <4> QED
          BY ONLY <4>1, <4>2
      <3>2. PICK m \in WritesAbout(q, S, ip) : IsLast(m, WritesAbout(q, S, ip))
        BY <2>2, <3>1, LastExists
      <3>3. m \in 1 .. Len(q) /\ q[m].op # "event" /\ q[m] \in Write
        BY DEF WritesAbout, TablePositions
      <3> QED
        BY <3>2, <3>3, TableWritten, WriteTypes
    <2> QED
      BY <2>1, <2>2
  <1> QED
    BY <1>1 DEF TableAfter, Table

(* Without a statement nothing changes.                                    *)
LEMMA NoStatement ==
    ASSUME NEW table \in Table, NEW q
    PROVE  TableAfter(table, q, {}) = table
  <1>1. ASSUME NEW ip \in Ip PROVE TableAfter(table, q, {})[ip] = table[ip]
    <2>1. WritesAbout(q, {}, ip) = {}
      BY DEF WritesAbout
    <2> QED
      BY <2>1, TableUntouched
  <1> QED
    BY <1>1 DEF TableAfter, Table

(* One statement has the effect that the writer's commit has.              *)
LEMMA OneStatement ==
    ASSUME NEW table \in Table, NEW q, NEW w \in Write, w.op # "event", q[1] = w
    PROVE  TableAfter(table, q, {1}) = Apply(table, w)
  <1>1. ASSUME NEW ip \in Ip PROVE TableAfter(table, q, {1})[ip] = Apply(table, w)[ip]
    <2>1. LET row == TableAfter(table, q, {} \cup {0 + 1})[ip]
          IN /\ AboutIp(q[0 + 1], ip) => row = RowLeft(q[0 + 1])
             /\ ~AboutIp(q[0 + 1], ip) => row = TableAfter(table, q, {})[ip]
      <3>1. 0 \in Nat /\ {} \in SUBSET (1 .. 0)
        OBVIOUS
      <3> QED
        BY <3>1, OneMoreStatement
    <2>2. {} \cup {0 + 1} = {1} /\ 0 + 1 = 1
      OBVIOUS
    <2>3. LET row == TableAfter(table, q, {1})[ip]
          IN /\ AboutIp(w, ip) => row = RowLeft(w)
             /\ ~AboutIp(w, ip) => row = table[ip]
      BY <2>1, <2>2, NoStatement
    <2>4. LET row == Apply(table, w)[ip]
          IN /\ AboutIp(w, ip) => row = RowLeft(w)
             /\ ~AboutIp(w, ip) => row = table[ip]
      BY WriteTypes DEF Apply, AboutIp, RowLeft, Table
    <2> QED
      BY <2>3, <2>4
  <1>2. Apply(table, w) = [ip \in Ip |-> Apply(table, w)[ip]]
    BY WriteTypes DEF Apply, Table
  <1> QED
    BY <1>1, <1>2 DEF TableAfter

(* Before its first statement a set of them has none.                      *)
LEMMA FirstOfNone ==
    ASSUME NEW m \in Nat, NEW P \in SUBSET (1 .. m)
    PROVE  FirstOf(P, 0) = {}
  <1> SUFFICES ASSUME NEW i \in P, Cardinality({k \in P : k <= i}) <= 0 PROVE FALSE
    BY DEF FirstOf
  <1>1. {k \in P : k <= i} \in SUBSET (1 .. m) /\ i \in {k \in P : k <= i}
    <2>1. i <= i
      OBVIOUS
    <2> QED
      BY <2>1
  <1>2. Cardinality({k \in P : k <= i}) = 0 /\ IsFiniteSet({k \in P : k <= i})
    BY <1>1, PositionsFinite
  <1> QED
    BY <1>1, <1>2, FS_EmptySet

(* There are n + 1 versions when n statements wait: the committed table,   *)
(* then what each of the statements leaves of the version before it.       *)
AreVersions(v, n, table, q, P) ==
    /\ P \in SUBSET (1 .. Len(q)) /\ n \in Nat /\ Cardinality(P) = n
    /\ v \in Seq(Table) /\ Len(v) = n + 1
    /\ \A k \in 1 .. n + 1 : v[k] = TableAfter(table, q, FirstOf(P, k - 1))
    /\ v[1] = table /\ v[n + 1] = TableAfter(table, q, P)

LEMMA VersionsAre ==
    ASSUME NEW table \in Table, NEW q \in Seq(Write), NEW P, P = TablePositions(q),
           NEW v, v = VersionsOf(table, q, P)
    PROVE  AreVersions(v, Cardinality(P), table, q, P)
  <1>1. P \in SUBSET (1 .. Len(q)) /\ Len(q) \in Nat
    BY DEF TablePositions
  <1>2. PICK n \in Nat : n = Cardinality(P)
    BY <1>1, PositionsFinite
  <1>3. \A k \in 1 .. n + 1 : FirstOf(P, k - 1) \in SUBSET P
    BY DEF FirstOf
  <1>4. \A k \in 1 .. n + 1 : TableAfter(table, q, FirstOf(P, k - 1)) \in Table
    BY <1>3, TableType
  <1>5. v = [k \in 1 .. n + 1 |-> TableAfter(table, q, FirstOf(P, k - 1))]
    BY <1>2 DEF VersionsOf
  <1>6. v \in [1 .. n + 1 -> Table]
    BY <1>4, <1>5
  <1>7. n + 1 \in Nat /\ 1 \in 1 .. n + 1 /\ n + 1 \in 1 .. n + 1 /\ 1 - 1 = 0 /\ n + 1 - 1 = n
    OBVIOUS
  <1>8. v \in Seq(Table) /\ Len(v) = n + 1
    BY <1>6, <1>7
  <1>9. v[1] = table
    <2>1. v[1] = TableAfter(table, q, FirstOf(P, 0))
      BY <1>5, <1>7
    <2> QED
      BY <1>1, <2>1, FirstOfNone, NoStatement
  <1>10. v[n + 1] = TableAfter(table, q, P)
    <2>1. v[n + 1] = TableAfter(table, q, FirstOf(P, n))
      BY <1>5, <1>7
    <2>2. FirstOf(P, n) = P
      <3>1. n >= Cardinality(P) /\ n \in Nat
        BY <1>2
      <3> QED
        BY ONLY <1>1, <3>1, FirstOfAll
    <2> QED
      BY <2>1, <2>2
  <1>11. \A k \in 1 .. n + 1 : v[k] = TableAfter(table, q, FirstOf(P, k - 1))
    BY <1>5
  <1> QED
    BY <1>1, <1>2, <1>8, <1>9, <1>10, <1>11 DEF AreVersions

-----------------------------------------------------------------------------
(* What becomes of the versions when a statement is queued or committed.   *)

(* The positions of the statements about the table, when one is appended   *)
(* and when the head leaves.                                               *)
LEMMA AppendedQueue ==
    ASSUME NEW q \in Seq(Write), NEW w \in Write
    PROVE  /\ Append(q, w) \in Seq(Write) /\ Len(Append(q, w)) = Len(q) + 1
           /\ Append(q, w)[Len(q) + 1] = w
           /\ \A i \in 1 .. Len(q) : Append(q, w)[i] = q[i]
           /\ w.op = "event" => TablePositions(Append(q, w)) = TablePositions(q)
           /\ w.op # "event" =>
                  TablePositions(Append(q, w)) = TablePositions(q) \cup {Len(q) + 1}
  <1> DEFINE p == Append(q, w)
  <1>1. /\ p \in Seq(Write) /\ Len(p) = Len(q) + 1 /\ p[Len(q) + 1] = w
        /\ \A i \in 1 .. Len(q) : p[i] = q[i]
    OBVIOUS
  <1>2. PICK n \in Nat : n = Len(q)
    OBVIOUS
  <1> HIDE DEF p
  <1>3. 1 .. Len(p) = (1 .. n) \cup {n + 1}
    BY <1>1, <1>2
  <1>4. w.op = "event" => TablePositions(p) = TablePositions(q)
    BY <1>1, <1>2, <1>3 DEF TablePositions
  <1>5. w.op # "event" => TablePositions(p) = TablePositions(q) \cup {n + 1}
    BY <1>1, <1>2, <1>3 DEF TablePositions
  <1> QED
    BY <1>1, <1>2, <1>4, <1>5 DEF p

(* An event makes no version.                                              *)
LEMMA EventIsNoVersion ==
    ASSUME NEW table \in Table, NEW q \in Seq(Write), NEW w \in Write, w.op = "event"
    PROVE  VersionsOf(table, Append(q, w), TablePositions(Append(q, w))) =
           VersionsOf(table, q, TablePositions(q))
  <1> DEFINE P == TablePositions(q)
  <1>1. TablePositions(Append(q, w)) = P
    BY AppendedQueue
  <1>2. ASSUME NEW n PROVE TableAfter(table, Append(q, w), FirstOf(P, n)) =
                           TableAfter(table, q, FirstOf(P, n))
    <2>1. FirstOf(P, n) \in SUBSET (1 .. Len(q)) /\ Len(q) \in Nat
      BY DEF FirstOf, TablePositions
    <2>2. \A i \in FirstOf(P, n) : Append(q, w)[i] = q[i]
      BY <2>1, AppendedQueue
    <2> QED
      BY <2>1, <2>2, SameStatements
  <1> QED
    BY <1>1, <1>2 DEF VersionsOf

(* A statement about the table makes one, behind the others.               *)
LEMMA WriteIsVersion ==
    ASSUME NEW table \in Table, NEW q \in Seq(Write), NEW w \in Write, w.op # "event"
    PROVE  LET v == VersionsOf(table, q, TablePositions(q))
               p == Append(q, w)
               t == TableAfter(table, p, TablePositions(p))
           IN /\ VersionsOf(table, p, TablePositions(p)) = Append(v, t)
              /\ \A ip \in Ip : /\ AboutIp(w, ip) => t[ip] = RowLeft(w)
                                /\ ~AboutIp(w, ip) => t[ip] = v[Len(v)][ip]
  <1> DEFINE p == Append(q, w)
             P == TablePositions(q)
             Q == TablePositions(p)
             v == VersionsOf(table, q, P)
             u == VersionsOf(table, p, Q)
             t == TableAfter(table, p, Q)
  <1>1. /\ p \in Seq(Write) /\ p[Len(q) + 1] = w /\ \A i \in 1 .. Len(q) : p[i] = q[i]
        /\ Q = P \cup {Len(q) + 1}
    BY AppendedQueue
  <1>2. PICK n \in Nat : n = Len(q)
    OBVIOUS
  <1>3. AreVersions(v, Cardinality(P), table, q, P)
    BY VersionsAre
  <1>4. PICK c \in Nat : c = Cardinality(P) /\ AreVersions(v, c, table, q, P)
    BY <1>3 DEF AreVersions
  <1>4a. P \in SUBSET (1 .. n)
    BY <1>2, <1>4 DEF AreVersions
  <1> HIDE DEF p, P, v, Q, u, t
  <1>5. Q = P \cup {n + 1} /\ Cardinality(Q) = c + 1
    <2>1. Q = P \cup {n + 1}
      BY <1>1, <1>2
    <2>2. c <= Cardinality(P) /\ c = Cardinality(P)
      BY <1>4
    <2>3. Cardinality(P \cup {n + 1}) = c + 1
      BY ONLY <1>4a, <2>2, n \in Nat, c \in Nat, FirstOfMore
    <2> QED
      BY <2>1, <2>3
  <1>6. AreVersions(u, c + 1, table, p, Q) /\ t = TableAfter(table, p, Q)
    <2>1. p \in Seq(Write) /\ Q = TablePositions(p) /\ u = VersionsOf(table, p, Q)
      BY <1>1 DEF Q, u
    <2>2. AreVersions(u, Cardinality(Q), table, p, Q)
      BY <2>1, VersionsAre
    <2> QED
      BY <1>5, <2>2 DEF t
  <1>7. t \in Table
    <2>1. p \in Seq(Write) /\ Q \in SUBSET TablePositions(p)
      BY <1>1 DEF Q
    <2> QED
      BY <2>1, TableType DEF t
  <1>8. ASSUME NEW k \in 1 .. c + 1 PROVE u[k] = v[k]
    <2>1. PICK m \in Nat : m = k - 1 /\ m <= c
      OBVIOUS
    <2>2. FirstOf(Q, m) = FirstOf(P, m)
      BY <1>4, <1>4a, <1>5, <2>1, FirstOfMore
    <2>3. FirstOf(P, m) \in SUBSET (1 .. n)
      BY <1>4a DEF FirstOf
    <2>4. \A i \in FirstOf(P, m) : p[i] = q[i]
      BY <1>1, <1>2, <2>3
    <2>5. TableAfter(table, p, FirstOf(P, m)) = TableAfter(table, q, FirstOf(P, m))
      BY <2>3, <2>4, SameStatements
    <2>6. u[k] = TableAfter(table, p, FirstOf(Q, m))
      BY <1>6, <2>1 DEF AreVersions
    <2>7. v[k] = TableAfter(table, q, FirstOf(P, m))
      BY <1>4, <2>1 DEF AreVersions
    <2> QED
      BY <2>2, <2>5, <2>6, <2>7
  <1>9. u = Append(v, t)
    <2> DEFINE a == Append(v, t)
    <2>1. /\ a \in Seq(Table) /\ Len(a) = c + 1 + 1 /\ a[c + 1 + 1] = t
          /\ \A k \in 1 .. c + 1 : a[k] = v[k]
      BY <1>4, <1>7 DEF AreVersions
    <2> HIDE DEF a
    <2>2. \A k \in 1 .. Len(u) : u[k] = a[k]
      <3>1. \A k \in 1 .. c + 1 + 1 : k \in 1 .. c + 1 \/ k = c + 1 + 1
        OBVIOUS
      <3> QED
        BY <1>6, <1>8, <2>1, <3>1 DEF AreVersions
    <2>3. u = a
      BY <1>6, <2>1, <2>2, SeqEqual DEF AreVersions
    <2> QED
      BY <2>3 DEF a
  <1>10. ASSUME NEW ip \in Ip
         PROVE  /\ AboutIp(w, ip) => t[ip] = RowLeft(w)
                /\ ~AboutIp(w, ip) => t[ip] = v[Len(v)][ip]
    <2>1. LET row == TableAfter(table, p, P \cup {n + 1})[ip]
          IN /\ AboutIp(p[n + 1], ip) => row = RowLeft(p[n + 1])
             /\ ~AboutIp(p[n + 1], ip) => row = TableAfter(table, p, P)[ip]
      BY <1>4a, OneMoreStatement
    <2>2. \A i \in P : p[i] = q[i]
      BY <1>1, <1>2, <1>4a
    <2>3. TableAfter(table, p, P) = TableAfter(table, q, P)
      BY <1>4a, <2>2, SameStatements
    <2>4. p[n + 1] = w
      BY <1>1, <1>2
    <2>5. t = TableAfter(table, p, P \cup {n + 1})
      BY <1>5 DEF t
    <2>6. v[Len(v)] = TableAfter(table, p, P)
      BY <1>4, <2>3 DEF AreVersions
    <2> QED
      BY <2>1, <2>4, <2>5, <2>6
  <1> QED
    BY <1>9, <1>10 DEF u, v, t, p, P, Q

LEMMA HeadAndTail ==
    ASSUME NEW q \in Seq(Write), q # <<>>
    PROVE  /\ Head(q) = q[1] /\ Head(q) \in Write /\ Tail(q) \in Seq(Write)
           /\ Len(q) \in Nat /\ 1 \in 1 .. Len(q) /\ Len(Tail(q)) = Len(q) - 1
           /\ \A i \in 2 .. Len(q) : Tail(q)[i - 1] = q[i]
           /\ TablePositions(q) \ {1} \in SUBSET (2 .. Len(q))
           /\ TablePositions(Tail(q)) = Shifted(TablePositions(q) \ {1})
           /\ 1 \in TablePositions(q) <=> Head(q).op # "event"
  <1> DEFINE r == Tail(q)
             P == TablePositions(q)
  <1>1. PICK n \in Nat : n = Len(q) /\ n # 0
    OBVIOUS
  <1>2. /\ Head(q) = q[1] /\ Head(q) \in Write /\ r \in Seq(Write) /\ Len(r) = n - 1
        /\ \A i \in 1 .. n - 1 : r[i] = q[i + 1]
    BY <1>1
  <1> HIDE DEF r
  <1>3. \A i \in 2 .. n : i - 1 \in 1 .. n - 1 /\ r[i - 1] = q[i]
    <2> TAKE i \in 2 .. n
    <2>1. PICK k \in 1 .. n - 1 : i = k + 1 /\ k = i - 1
      BY i - 1 \in 1 .. n - 1
    <2> QED
      BY <1>2, <2>1
  <1>4. P \ {1} \in SUBSET (2 .. n) /\ (1 \in P <=> Head(q).op # "event")
    <2>1. \A i \in P \ {1} : i \in 2 .. n
      BY <1>1 DEF TablePositions
    <2>2. 1 \in P <=> q[1].op # "event"
      BY <1>1 DEF TablePositions
    <2> QED
      BY <1>2, <2>1, <2>2
  <1>5. TablePositions(r) = Shifted(P \ {1})
    <2>1. \A i \in 1 .. n - 1 : i \in TablePositions(r) <=> i + 1 \in P \ {1}
      BY <1>1, <1>2 DEF TablePositions
    <2>2. TablePositions(r) \subseteq 1 .. n - 1 /\ Shifted(P \ {1}) \subseteq 1 .. n - 1
          /\ \A i \in 1 .. n - 1 : i \in Shifted(P \ {1}) <=> i + 1 \in P \ {1}
      <3>1. TablePositions(r) \subseteq 1 .. n - 1
        BY <1>2 DEF TablePositions
      <3> QED
        BY <1>4, <3>1, ShiftedIs
    <2> HIDE DEF P
    <2>3. \A i : i \in TablePositions(r) <=> i \in Shifted(P \ {1})
      BY <2>1, <2>2
    <2> QED
      BY ONLY <2>3
  <1> QED
    BY <1>1, <1>2, <1>3, <1>4, <1>5 DEF r

(* The writer commits an event: no version goes.                           *)
LEMMA EventLeaves ==
    ASSUME NEW table \in Table, NEW q \in Seq(Write), q # <<>>, Head(q).op = "event"
    PROVE  VersionsOf(table, Tail(q), TablePositions(Tail(q))) =
           VersionsOf(table, q, TablePositions(q))
  <1> DEFINE P == TablePositions(q)
             R == TablePositions(Tail(q))
  <1>1. P \in SUBSET (2 .. Len(q)) /\ Len(q) \in Nat /\ R = Shifted(P)
    <2>1. P \ {1} = P
      BY HeadAndTail
    <2> QED
      BY <2>1, HeadAndTail
  <1>2. \A i \in 2 .. Len(q) : Tail(q)[i - 1] = q[i]
    BY HeadAndTail
  <1> HIDE DEF P, R
  <1>3. Cardinality(R) = Cardinality(P)
    BY <1>1, ShiftedIs
  <1>4. ASSUME NEW n \in Nat
        PROVE  TableAfter(table, Tail(q), FirstOf(R, n)) = TableAfter(table, q, FirstOf(P, n))
    <2>1. FirstOf(R, n) = Shifted(FirstOf(P, n))
      BY <1>1, FirstOfShifted
    <2>2. FirstOf(P, n) \in SUBSET (2 .. Len(q))
      BY <1>1 DEF FirstOf
    <2>3. \A i \in FirstOf(P, n) : Tail(q)[i - 1] = q[i]
      BY <1>2, <2>2
    <2>4. TableAfter(table, Tail(q), Shifted(FirstOf(P, n))) = TableAfter(table, q, FirstOf(P, n))
      BY <1>1, <2>2, <2>3, OthersShifted
    <2> QED
      BY <2>1, <2>4
  <1>5. PICK c \in Nat : c = Cardinality(P)
    BY VersionsAre DEF AreVersions, P
  <1>6. \A k \in 1 .. c + 1 :
            TableAfter(table, Tail(q), FirstOf(R, k - 1)) = TableAfter(table, q, FirstOf(P, k - 1))
    <2> TAKE k \in 1 .. c + 1
    <2>1. PICK n \in Nat : n = k - 1
      OBVIOUS
    <2> QED
      BY <1>4, <2>1
  <1>7. VersionsOf(table, Tail(q), R) = VersionsOf(table, q, P)
    BY <1>3, <1>5, <1>6 DEF VersionsOf
  <1> QED
    BY <1>7 DEF P, R

(* It commits a statement about the table: the oldest version goes.        *)
LEMMA VersionLeaves ==
    ASSUME NEW table \in Table, NEW q \in Seq(Write), q # <<>>, Head(q).op # "event"
    PROVE  LET v == VersionsOf(table, q, TablePositions(q))
           IN /\ Len(v) > 1
              /\ VersionsOf(Apply(table, Head(q)), Tail(q), TablePositions(Tail(q))) = Tail(v)
  <1> DEFINE P == TablePositions(q)
             R == TablePositions(Tail(q))
             Q == P \ {1}
             new == Apply(table, Head(q))
             v == VersionsOf(table, q, P)
             u == VersionsOf(new, Tail(q), R)
  <1>1. /\ P \in SUBSET (1 .. Len(q)) /\ 1 \in P /\ Q \in SUBSET (2 .. Len(q)) /\ Len(q) \in Nat
        /\ R = Shifted(Q) /\ P = {1} \cup Q
    BY HeadAndTail DEF TablePositions
  <1>2. \A i \in 2 .. Len(q) : Tail(q)[i - 1] = q[i]
    BY HeadAndTail
  <1>3. new = TableAfter(table, q, {1})
    BY HeadAndTail, OneStatement
  <1>4. new \in Table
    <2>1. {1} \in SUBSET TablePositions(q)
      BY <1>1
    <2> QED
      BY <1>3, <2>1, TableType
  <1>5. AreVersions(v, Cardinality(P), table, q, P)
    BY VersionsAre
  <1>6. AreVersions(u, Cardinality(R), new, Tail(q), R)
    BY <1>4, HeadAndTail, VersionsAre
  <1> HIDE DEF P, Q, R, v, u, new
  <1>7. PICK c \in Nat : Cardinality(R) = c /\ Cardinality(P) = c + 1
    <2>1. Cardinality(R) = Cardinality(Q) /\ Cardinality(R) \in Nat
      BY <1>1, <1>6, ShiftedIs DEF AreVersions
    <2>2. Cardinality(P) = Cardinality(P \ {1}) + 1
      BY <1>1, FirstOfHead
    <2> QED
      BY <2>1, <2>2 DEF Q
  <1>8. ASSUME NEW n \in Nat
        PROVE  TableAfter(new, Tail(q), FirstOf(R, n)) = TableAfter(table, q, FirstOf(P, n + 1))
    <2>1. FirstOf(R, n) = Shifted(FirstOf(Q, n))
      BY <1>1, FirstOfShifted
    <2>2. FirstOf(Q, n) \in SUBSET (2 .. Len(q))
      BY <1>1 DEF FirstOf
    <2>3. \A i \in FirstOf(Q, n) : Tail(q)[i - 1] = q[i]
      BY <1>2, <2>2
    <2>4. TableAfter(new, Tail(q), Shifted(FirstOf(Q, n))) = TableAfter(new, q, FirstOf(Q, n))
      BY <1>1, <2>2, <2>3, OthersShifted
    <2>5. FirstOf(P, n + 1) = {1} \cup FirstOf(Q, n)
      BY <1>1, FirstOfHead DEF Q
    <2>6. TableAfter(table, q, {1} \cup FirstOf(Q, n)) = TableAfter(new, q, FirstOf(Q, n))
      BY <1>1, <1>3, <2>2, FirstStatement
    <2> QED
      BY <2>1, <2>4, <2>5, <2>6
  <1>9. ASSUME NEW k \in 1 .. c + 1 PROVE u[k] = v[k + 1]
    <2>1. PICK n \in Nat : n = k - 1 /\ n + 1 = k
      OBVIOUS
    <2>2. u[k] = TableAfter(new, Tail(q), FirstOf(R, n))
      BY <1>6, <1>7, <2>1 DEF AreVersions
    <2>3. v[k + 1] = TableAfter(table, q, FirstOf(P, n + 1))
      <3>1. k + 1 \in 1 .. c + 1 + 1 /\ k + 1 - 1 = n + 1
        BY <2>1
      <3> QED
        BY <1>5, <1>7, <3>1 DEF AreVersions
    <2> QED
      BY <1>8, <2>2, <2>3
  <1>10. Len(v) > 1 /\ u = Tail(v)
    <2> DEFINE a == Tail(v)
    <2>1. v \in Seq(Table) /\ Len(v) = c + 1 + 1 /\ u \in Seq(Table) /\ Len(u) = c + 1
      BY <1>5, <1>6, <1>7 DEF AreVersions
    <2>2. /\ a \in Seq(Table) /\ Len(a) = c + 1
          /\ \A k \in 1 .. c + 1 : a[k] = v[k + 1]
      BY <2>1
    <2> HIDE DEF a
    <2>3. \A k \in 1 .. Len(u) : u[k] = a[k]
      BY <1>9, <2>1, <2>2
    <2>4. u = a
      BY <2>1, <2>2, <2>3, SeqEqual
    <2> QED
      BY <2>1, <2>4 DEF a
  <1> QED
    BY <1>10 DEF P, R, v, u, new

(* Nothing waits.                                                          *)
LEMMA NothingQueued ==
    ASSUME NEW table \in Table
    PROVE  VersionsOf(table, <<>>, TablePositions(<<>>)) = <<table>>
  <1> DEFINE P == TablePositions(<<>>)
             v == VersionsOf(table, <<>>, P)
  <1>1. <<>> \in Seq(Write) /\ Len(<<>>) = 0
    OBVIOUS
  <1>2. P = {}
    BY <1>1 DEF TablePositions
  <1>3. AreVersions(v, Cardinality(P), table, <<>>, P)
    BY <1>1, VersionsAre
  <1> HIDE DEF v, P
  <1>4. v \in Seq(Table) /\ Len(v) = 1 /\ v[1] = table
    BY <1>2, <1>3, FS_EmptySet DEF AreVersions
  <1>5. v = <<table>>
    <2>1. <<table>> \in Seq(Table) /\ Len(<<table>>) = 1 /\ <<table>>[1] = table
      OBVIOUS
    <2>2. \A k \in 1 .. Len(v) : v[k] = <<table>>[k]
      BY <1>4, <2>1
    <2> QED
      BY <1>4, <2>1, <2>2, SeqEqual
  <1> QED
    BY <1>5 DEF v, P

-----------------------------------------------------------------------------
(* Every step of the pipeline is a step of the block table or none.        *)

(* The versions before and after a step.                                   *)
LEMMA VersionsNow ==
    /\ Versions = VersionsOf(blocked, queue, TablePositions(queue))
    /\ Versions' = VersionsOf(blocked', queue', TablePositions(queue'))
  BY DEF Versions

LEMMA VersionsTyped ==
    ASSUME TypeOK
    PROVE  /\ Versions \in Seq(Table) /\ Len(Versions) \in Nat \ {0}
           /\ Versions # <<>> /\ Versions[1] = blocked /\ Versions[Len(Versions)] \in Table
  <1> DEFINE P == TablePositions(queue)
  <1>1. blocked \in Table /\ queue \in Seq(Write)
    BY DEF TypeOK, Table
  <1>2. AreVersions(Versions, Cardinality(P), blocked, queue, P)
    BY <1>1, VersionsNow, VersionsAre
  <1>3. PICK c \in Nat : AreVersions(Versions, c, blocked, queue, P)
    BY <1>2 DEF AreVersions
  <1> HIDE DEF P
  <1>4. Versions \in Seq(Table) /\ Len(Versions) = c + 1 /\ Versions[1] = blocked
    BY <1>3 DEF AreVersions
  <1> QED
    BY <1>4

(* The two ways to accept a table.                                         *)
LEMMA DurablePuts ==
    ASSUME NEW ip \in Ip, NEW t, Versions' = Append(Versions, t),
           Versions \in Seq(Table), Versions # <<>>, t[ip] \in Row,
           t = [Versions[Len(Versions)] EXCEPT ![ip] = t[ip]],
           Len(Versions') > Len(Versions)
    PROVE  Durable!Next
  <1>1. Versions' [Len(Versions')] = t
    OBVIOUS
  <1>2. Durable!PutAny(ip)
    BY <1>1 DEF Durable!PutAny, Durable!Put, Durable!Accept, Durable!Newest, Durable!Last
  <1> QED
    BY <1>2 DEF Durable!Next, Durable!Operation

LEMMA DurableDeletes ==
    ASSUME NEW ips \in SUBSET Ip, NEW t, Versions' = Append(Versions, t),
           t = [ip \in Ip |-> IF ip \in ips THEN NoRow ELSE Versions[Len(Versions)][ip]],
           Len(Versions') > Len(Versions)
    PROVE  Durable!Next
  <1>1. Durable!Delete(ips)
    BY DEF Durable!Delete, Durable!Accept, Durable!Newest, Durable!Last
  <1> QED
    BY <1>1 DEF Durable!Next, Durable!Operation

(* A statement about the table that is queued is accepted; q is the queue  *)
(* in front of it, the same versions behind it as the queue has.           *)
LEMMA StatementAccepted ==
    ASSUME TypeOK, NEW q \in Seq(Write), VersionsOf(blocked, q, TablePositions(q)) = Versions,
           NEW w \in Write, w.op # "event", queue' = Append(q, w), blocked' = blocked
    PROVE  Durable!Next
  <1> DEFINE newest == Versions[Len(Versions)]
             p == Append(q, w)
             t == TableAfter(blocked, p, TablePositions(p))
  <1>1. /\ Versions' = Append(Versions, t)
        /\ \A ip \in Ip : /\ AboutIp(w, ip) => t[ip] = RowLeft(w)
                          /\ ~AboutIp(w, ip) => t[ip] = newest[ip]
    <2> DEFINE v == VersionsOf(blocked, q, TablePositions(q))
    <2>1. Versions' = VersionsOf(blocked, p, TablePositions(p)) /\ blocked \in Table
      BY VersionsNow DEF TypeOK, Table
    <2>2. /\ VersionsOf(blocked, p, TablePositions(p)) = Append(v, t)
          /\ \A ip \in Ip : /\ AboutIp(w, ip) => t[ip] = RowLeft(w)
                            /\ ~AboutIp(w, ip) => t[ip] = v[Len(v)][ip]
      BY <2>1, WriteIsVersion
    <2>3. v = Versions
      OBVIOUS
    <2> HIDE DEF v, p, t
    <2> QED
      BY <2>1, <2>2, <2>3
  <1>2. t = [ip \in Ip |-> t[ip]]
    BY DEF TableAfter
  <1>3. newest \in Table /\ Versions \in Seq(Table) /\ Versions # <<>>
    BY VersionsTyped
  <1> HIDE DEF p, t, newest
  <1>6. Len(Versions') > Len(Versions)
    BY <1>1, <1>3
  <1>4. CASE w.op = "put"
    <2>1. w.ip \in Ip /\ w.row \in Row
      BY <1>4, WriteTypes
    <2>2. t[w.ip] = w.row /\ \A ip \in Ip : ip # w.ip => t[ip] = newest[ip]
      BY <1>1, <1>4, <2>1 DEF AboutIp, RowLeft
    <2>3. t = [newest EXCEPT ![w.ip] = t[w.ip]]
      BY <1>2, <1>3, <2>2 DEF Table
    <2> QED
      BY <1>1, <1>3, <1>6, <2>1, <2>2, <2>3, DurablePuts DEF newest
  <1>5. CASE w.op # "put"
    <2>1. w.ips \in SUBSET Ip
      BY <1>5, WriteTypes
    <2>2. \A ip \in Ip : t[ip] = IF ip \in w.ips THEN NoRow ELSE newest[ip]
      BY <1>1, <1>5 DEF AboutIp, RowLeft
    <2>3. t = [ip \in Ip |-> IF ip \in w.ips THEN NoRow ELSE newest[ip]]
      BY <1>2, <2>2
    <2> QED
      BY <1>1, <1>6, <2>1, <2>3, DurableDeletes DEF newest
  <1> QED
    BY <1>4, <1>5

(* An event that is queued is not.                                         *)
LEMMA EventPasses ==
    ASSUME TypeOK, NEW w \in Write, w.op = "event"
    PROVE  VersionsOf(blocked, Append(queue, w), TablePositions(Append(queue, w))) = Versions
  BY VersionsNow, EventIsNoVersion DEF TypeOK, Table

(* Both start with an empty table.                                         *)
LEMMA InitIsInit == ASSUME Init PROVE Durable!Init
  <1>1. blocked = [ip \in Ip |-> NoRow] /\ queue = <<>> /\ blocked \in Table
    BY DEF Init, Table
  <1>2. Versions = <<blocked>>
    BY <1>1, NothingQueued, VersionsNow
  <1> QED
    BY <1>1, <1>2 DEF Durable!Init

(* A commit makes the oldest accepted change durable, if it is a change.   *)
LEMMA CommitPersists == ASSUME TypeOK, Commit PROVE Durable!Next \/ Versions' = Versions
  <1>1. queue \in Seq(Write) /\ queue # <<>> /\ blocked \in Table /\ queue' = Tail(queue)
    BY DEF TypeOK, Commit, Table
  <1>2. CASE Head(queue).op = "event"
    <2>1. blocked' = blocked
      BY <1>2 DEF Commit
    <2> QED
      BY <1>1, <1>2, <2>1, EventLeaves, VersionsNow
  <1>3. CASE Head(queue).op # "event"
    <2>1. blocked' = Apply(blocked, Head(queue))
      BY <1>3 DEF Commit
    <2>2. Len(Versions) > 1 /\ Versions' = Tail(Versions)
      BY <1>1, <1>3, <2>1, VersionLeaves, VersionsNow
    <2>3. Durable!Persist
      BY <2>2 DEF Durable!Persist
    <2> QED
      BY <2>3 DEF Durable!Next
  <1> QED
    BY <1>2, <1>3

(* A crash leaves the durable table.                                       *)
LEMMA CrashForgets == ASSUME TypeOK, Crash PROVE Durable!Next
  <1>1. queue' = <<>> /\ blocked' = blocked /\ blocked \in Table
    BY DEF TypeOK, Crash, dbVars, Table
  <1>2. Versions' = <<blocked>>
    BY <1>1, NothingQueued, VersionsNow
  <1>3. Head(Versions) = blocked
    BY VersionsTyped
  <1>4. Durable!Crash
    BY <1>2, <1>3 DEF Durable!Crash
  <1> QED
    BY <1>4 DEF Durable!Next

(* A step that leaves the table and its queue alone.                       *)
LEMMA VersionsStay ==
    ASSUME UNCHANGED <<blocked, queue>> PROVE Versions' = Versions
  BY VersionsNow

(* A step that queues one statement.                                       *)
LEMMA OneQueued ==
    ASSUME TypeOK, NEW w \in Write, queue' = Enqueue(queue, w), blocked' = blocked
    PROVE  Durable!Next \/ Versions' = Versions
  <1>1. queue \in Seq(Write) /\ queue' = Append(queue, w)
    BY DEF TypeOK, Enqueue
  <1>2. CASE w.op = "event"
    BY <1>1, <1>2, EventPasses, VersionsNow
  <1>3. CASE w.op # "event"
    BY <1>1, <1>3, StatementAccepted, VersionsNow
  <1> QED
    BY <1>2, <1>3

(* Every step: what the handlers, the operator and the expiry loop queue is*)
(* accepted, one statement at a time.                                      *)
LEMMA StepImplements ==
    ASSUME EvidenceInv, [Next]_vars PROVE [Durable!Next]_Versions
  <1> USE DEF dbVars, hostVars, counters
  <1> SUFFICES Durable!Next \/ Versions' = Versions
    OBVIOUS
  <1>1. TypeOK /\ queue \in Seq(Write)
    BY DEF EvidenceInv, TypeOK
  <1>2. ASSUME NEW ip \in Ip, NEW kind \in Kinds, NEW ts \in now - Lag .. now + Ahead,
               ReadCount(ip, kind, ts)
        PROVE  Versions' = Versions
    BY <1>2, VersionsStay DEF ReadCount
  <1>3. ASSUME ReadBlocked \/ ReadDuplicate \/ Suppress PROVE Versions' = Versions
    BY <1>3, VersionsStay DEF ReadBlocked, ReadDuplicate, Suppress
  <1>4. ASSUME Record \/ BlockWithoutAgent \/ SendBlock \/ SendRaises
        PROVE  Durable!Next \/ Versions' = Versions
    <2>1. InsertEvent(EventOf(handler)) \in Write
      BY <1>1, <1>4, HandlerWrites DEF Record, BlockWithoutAgent, SendBlock, SendRaises, Proceed
    <2>2. queue' = Enqueue(queue, InsertEvent(EventOf(handler))) /\ blocked' = blocked
      BY <1>4 DEF Record, BlockWithoutAgent, SendBlock, SendRaises
    <2> QED
      BY <1>1, <2>1, <2>2, OneQueued
  <1>5. ASSUME FinishBlock PROVE Durable!Next \/ Versions' = Versions
    <2>1. PutRow(handler.ip, BlockRow(handler.ts)) \in Write
      BY <1>1, <1>5, HandlerWrites DEF FinishBlock
    <2> QED
      BY <1>1, <1>5, <2>1, OneQueued DEF FinishBlock
  <1>6. ASSUME NEW ip \in Ip,
               \/ \E duration \in Durations : ManualBlock(ip, duration)
               \/ ManualUnblock(ip)
        PROVE  Durable!Next \/ Versions' = Versions
    <2>1. PICK w \in Write : queue' = Enqueue(queue, w)
      BY <1>1, <1>6, OperatorWrites
    <2> QED
      BY <1>1, <1>6, <2>1, OneQueued DEF ManualBlock, ManualUnblock
  <1>7. ASSUME ExpiryDelete PROVE Durable!Next \/ Versions' = Versions
    <2>1. SweepRows(sweep.ips) \in Write
      BY <1>1, <1>7 DEF ExpiryDelete, TypeOK, SweepRows, Write
    <2> QED
      BY <1>1, <1>7, <2>1, OneQueued DEF ExpiryDelete
  <1>8. ASSUME ExpirySelect \/ AgentExecute \/ LinkDown \/ LinkUp \/ Tick \/ vars' = vars
         PROVE  Versions' = Versions
    BY <1>8, VersionsStay DEF ExpirySelect, AgentExecute, LinkDown, LinkUp, Tick, vars
  <1> QED
    BY <1>1, <1>2, <1>3, <1>4, <1>5, <1>6, <1>7, <1>8, CommitPersists, CrashForgets
       DEF Next

(* The queue of statements and its single writer together keep what the    *)
(* block list promises: puts and deletes take effect whole, in the order   *)
(* they were accepted in, and become durable in it (server/db.py).         *)
THEOREM ImplementsTable == Spec => ImplementsBlockTable
  <1>1. Init => Durable!Init
    BY InitIsInit
  <1>2. EvidenceInv /\ [Next]_vars => [Durable!Next]_Versions
    BY StepImplements
  <1>3. Spec => []EvidenceInv
    BY EvidenceIsInvariant
  <1> QED
    BY <1>1, <1>2, <1>3, PTL DEF Spec, ImplementsBlockTable, Durable!Spec

-----------------------------------------------------------------------------
(* One command for one detection.                                          *)

(* A detection that is not yet noted has a number of its own.              *)
DetectionInv ==
    /\ logs \in Nat
    /\ \A ip \in Ip : IsFiniteSet(Detections(ip))
    /\ \A d \in detected : d.id \in Nat /\ d.id <= logs
    /\ handler.pc \in {"counted", "checked", "ready"} => \A d \in detected : d.id # logs
    /\ OneCommandPerDetection

LEMMA CommandsTyped ==
    ASSUME TypeOK, NEW ip \in Ip
    PROVE  /\ Commands(ip) \in SUBSET (1 .. Len(link)) /\ Len(link) \in Nat
           /\ IsFiniteSet(Commands(ip)) /\ Cardinality(Commands(ip)) \in Nat
           /\ rules[ip] \in Nat
  <1>1. Commands(ip) \in SUBSET (1 .. Len(link)) /\ Len(link) \in Nat /\ rules[ip] \in Nat
    BY DEF TypeOK, Commands
  <1> QED
    BY <1>1, PositionsFinite

LEMMA DetectionsTyped ==
    ASSUME DetectionInv, NEW ip \in Ip
    PROVE  IsFiniteSet(Detections(ip)) /\ Cardinality(Detections(ip)) \in Nat
  BY FS_CardinalityType DEF DetectionInv

(* A step that sends and executes nothing, and forgets no detection.       *)
LEMMA CountKept ==
    ASSUME TypeOK, DetectionInv, rules' = rules, link' = link \/ link' \in Arriving(link),
           NEW ip \in Ip, Detections(ip) \subseteq Detections(ip)', IsFiniteSet(Detections(ip)')
    PROVE  rules'[ip] + Cardinality(Commands(ip)') <= Cardinality(Detections(ip)')
  <1>1. Cardinality(Detections(ip)) <= Cardinality(Detections(ip)')
        /\ Cardinality(Detections(ip)') \in Nat
    BY FS_Subset, FS_CardinalityType
  <1>2. PICK c \in Nat : c = Cardinality(Commands(ip))
    BY CommandsTyped
  <1>3. Cardinality(Commands(ip)') \in Nat /\ Cardinality(Commands(ip)') <= c
    <2>1. Commands(ip)' \subseteq Commands(ip)
      BY LinkSheds DEF Commands, Sheds
    <2> QED
      BY <1>2, <2>1, CommandsTyped, FS_Subset, FS_CardinalityType
  <1>4. PICK n \in Nat : n = Cardinality(Detections(ip)) /\ rules[ip] + c <= n
    BY <1>2, DetectionsTyped DEF DetectionInv, OneCommandPerDetection
  <1>5. rules[ip] \in Nat
    BY CommandsTyped
  <1> QED
    BY <1>1, <1>3, <1>4, <1>5

(* What Detect adds is new.                                                *)
LEMMA DetectAdds ==
    ASSUME TypeOK, DetectionInv, handler.pc = "ready", Detect(handler), logs' = logs
    PROVE  /\ \A d \in detected' : d.id \in Nat /\ d.id <= logs'
           /\ \A ip \in Ip : /\ Detections(ip) \subseteq Detections(ip)'
                             /\ IsFiniteSet(Detections(ip)')
           /\ \A ip \in Ip : ip = handler.ip =>
                  Cardinality(Detections(ip)') = Cardinality(Detections(ip)) + 1
  <1> DEFINE new == [id |-> logs, ip |-> handler.ip, type |-> handler.kind.type,
                     ts |-> handler.ts]
  <1>1. detected' = detected \cup {new} /\ new.id = logs /\ new.ip = handler.ip
        /\ logs \in Nat /\ new \notin detected /\ handler.ip \in Ip
    BY DEF Detect, DetectionInv, TypeOK
  <1> HIDE DEF new
  <1>2. ASSUME NEW ip \in Ip
        PROVE  Detections(ip) \subseteq Detections(ip)' /\ IsFiniteSet(Detections(ip)')
    <2>1. Detections(ip)' \subseteq Detections(ip) \cup {new}
          /\ Detections(ip) \subseteq Detections(ip)'
      BY <1>1 DEF Detections
    <2>2. IsFiniteSet(Detections(ip) \cup {new})
      BY DetectionsTyped, FS_AddElement
    <2> QED
      BY <2>1, <2>2, FS_Subset
  <1>3. ASSUME NEW ip \in Ip, ip = handler.ip
        PROVE  Cardinality(Detections(ip)') = Cardinality(Detections(ip)) + 1
    <2>1. Detections(ip)' = Detections(ip) \cup {new} /\ new \notin Detections(ip)
      BY <1>1, <1>3 DEF Detections
    <2>2. Cardinality(Detections(ip) \cup {new}) = Cardinality(Detections(ip)) + 1
      BY <2>1, DetectionsTyped, FS_AddElement
    <2> QED
      BY <2>1, <2>2
  <1>4. \A d \in detected' : d.id \in Nat /\ d.id <= logs'
    BY <1>1 DEF DetectionInv
  <1> QED
    BY <1>2, <1>3, <1>4

(* A detection that ends without a command.                                *)
LEMMA DetectedQuietly ==
    ASSUME TypeOK, DetectionInv, handler.pc = "ready", Detect(handler), logs' = logs,
           handler'.pc \in {"idle", "sent"}, rules' = rules, link' = link
    PROVE  DetectionInv'
  <1>1. \A ip \in Ip : rules'[ip] + Cardinality(Commands(ip)') <= Cardinality(Detections(ip)')
    BY DetectAdds, CountKept
  <1>2. OneCommandPerDetection'
    BY <1>1 DEF OneCommandPerDetection
  <1> QED
    BY <1>2, DetectAdds DEF DetectionInv

(* A detection that ends with one.                                         *)
LEMMA DetectedAndSent ==
    ASSUME TypeOK, DetectionInv, SendBlock \/ SendRaises PROVE DetectionInv'
  <1> USE DEF dbVars, counters
  <1> DEFINE sent == Append(link, handler.ip)
  <1>1. /\ handler.pc = "ready" /\ Detect(handler) /\ logs' = logs
        /\ handler'.pc \in {"idle", "sent"} /\ rules' = rules /\ handler.ip \in Ip
        /\ link \in Seq(Ip)
        /\ link' = sent \/ link' \in Arriving(sent)
    BY DEF SendBlock, SendRaises, Proceed, TypeOK, Idle
  <1>2. PICK m \in Nat : m = Len(link)
    BY <1>1
  <1>3. /\ sent \in Seq(Ip) /\ Len(sent) = m + 1 /\ sent[m + 1] = handler.ip
        /\ \A i \in 1 .. m : sent[i] = link[i]
    BY <1>1, <1>2
  <1> HIDE DEF sent
  <1>4. Sheds(link', sent)
    <2>1. CASE link' = sent
      BY <1>3, <2>1 DEF Sheds
    <2>2. CASE link' \in Arriving(sent)
      BY <1>3, <2>2, ArrivingSheds
    <2> QED
      BY <1>1, <2>1, <2>2
  <1>5. \A i \in 1 .. Len(link') :
            \/ i \in 1 .. m /\ link'[i] = link[i]
            \/ i = m + 1 /\ link'[i] = handler.ip
    BY <1>2, <1>3, <1>4 DEF Sheds
  <1>6. ASSUME NEW ip \in Ip
        PROVE  rules'[ip] + Cardinality(Commands(ip)') <= Cardinality(Detections(ip)')
    <2>1. PICK c \in Nat, n \in Nat, r \in Nat :
             /\ c = Cardinality(Commands(ip)) /\ n = Cardinality(Detections(ip))
             /\ r = rules[ip] /\ r + c <= n
      BY CommandsTyped, DetectionsTyped DEF DetectionInv, OneCommandPerDetection
    <2>2. CASE ip = handler.ip
      <3>1. Commands(ip)' \subseteq Commands(ip) \cup {m + 1}
        BY <1>2, <1>5 DEF Commands
      <3>2. m + 1 \notin Commands(ip)
        BY <1>2 DEF Commands
      <3>3. /\ IsFiniteSet(Commands(ip) \cup {m + 1})
            /\ Cardinality(Commands(ip) \cup {m + 1}) = c + 1
        BY <2>1, <3>2, CommandsTyped, FS_AddElement
      <3>4. Cardinality(Commands(ip)') \in Nat /\ Cardinality(Commands(ip)') <= c + 1
        BY <3>1, <3>3, FS_Subset, FS_CardinalityType
      <3>5. Cardinality(Detections(ip)') = n + 1
        BY <1>1, <2>1, <2>2, DetectAdds
      <3> QED
        BY <1>1, <2>1, <3>4, <3>5
    <2>3. CASE ip # handler.ip
      <3>1. Commands(ip)' \subseteq Commands(ip)
        BY <1>2, <1>5, <2>3 DEF Commands
      <3>2. Cardinality(Commands(ip)') \in Nat /\ Cardinality(Commands(ip)') <= c
        BY <2>1, <3>1, CommandsTyped, FS_Subset, FS_CardinalityType
      <3>3. n <= Cardinality(Detections(ip)') /\ Cardinality(Detections(ip)') \in Nat
        BY <1>1, <2>1, DetectAdds, FS_Subset, FS_CardinalityType
      <3> QED
        BY <1>1, <2>1, <3>2, <3>3
    <2> QED
      BY <2>2, <2>3
  <1>7. OneCommandPerDetection'
    BY <1>6 DEF OneCommandPerDetection
  <1> QED
    BY <1>1, <1>7, DetectAdds DEF DetectionInv

(* The agent turns a command into a rule.                                  *)
LEMMA CommandToRule == ASSUME TypeOK, DetectionInv, AgentExecute PROVE DetectionInv'
  <1> USE DEF dbVars, counters
  <1>1. /\ link \in Seq(Ip) /\ link # <<>> /\ link' = Tail(link)
        /\ rules' = [rules EXCEPT ![Head(link)] = @ + 1]
        /\ UNCHANGED <<detected, logs, handler>>
    BY DEF AgentExecute, TypeOK
  <1>2. PICK m \in Nat \ {0} : m = Len(link)
    BY <1>1
  <1>3. /\ Head(link) = link[1] /\ Head(link) \in Ip /\ Len(link') = m - 1
        /\ \A i \in 1 .. m - 1 : link'[i] = link[i + 1]
    BY <1>1, <1>2
  <1>4. ASSUME NEW ip \in Ip
        PROVE  rules'[ip] + Cardinality(Commands(ip)') <= Cardinality(Detections(ip)')
    <2> DEFINE S == Commands(ip) \ {1}
    <2>1. PICK c \in Nat, n \in Nat, r \in Nat :
             /\ c = Cardinality(Commands(ip)) /\ n = Cardinality(Detections(ip))
             /\ r = rules[ip] /\ r + c <= n
      BY CommandsTyped, DetectionsTyped DEF DetectionInv, OneCommandPerDetection
    <2>2. S \in SUBSET (2 .. m)
      BY <1>2 DEF Commands
    <2>3. Commands(ip)' = Shifted(S)
      <3>1. \A i \in 1 .. m - 1 : i \in Commands(ip)' <=> i + 1 \in S
        BY <1>2, <1>3 DEF Commands
      <3>2. Commands(ip)' \subseteq 1 .. m - 1
        BY <1>3 DEF Commands
      <3>3. Shifted(S) \subseteq 1 .. m - 1 /\ \A i \in 1 .. m - 1 : i \in Shifted(S) <=> i + 1 \in S
        BY <2>2, ShiftedIs
      <3> HIDE DEF S
      <3>4. \A i : i \in Commands(ip)' <=> i \in Shifted(S)
        BY <3>1, <3>2, <3>3
      <3> QED
        BY ONLY <3>4
    <2>4. Cardinality(Commands(ip)') = Cardinality(S)
      BY <2>2, <2>3, ShiftedIs
    <2>5. Cardinality(Detections(ip)') = n
      BY <1>1, <2>1 DEF Detections
    <2>6. CASE ip = Head(link)
      <3>1. 1 \in Commands(ip)
        BY <1>2, <1>3, <2>6 DEF Commands
      <3>2. Cardinality(S) = c - 1
        BY <2>1, <3>1, CommandsTyped, FS_RemoveElement
      <3>3. rules'[ip] = r + 1
        BY <1>1, <2>1, <2>6 DEF TypeOK
      <3> QED
        BY <2>1, <2>4, <2>5, <3>2, <3>3
    <2>7. CASE ip # Head(link)
      <3>1. S = Commands(ip)
        BY <1>3, <2>7 DEF Commands
      <3>2. rules'[ip] = r
        BY <1>1, <2>1, <2>7 DEF TypeOK
      <3> QED
        BY <2>1, <2>4, <2>5, <3>1, <3>2
    <2> QED
      BY <2>6, <2>7
  <1>5. OneCommandPerDetection'
    BY <1>4 DEF OneCommandPerDetection
  <1> QED
    BY <1>1, <1>5 DEF DetectionInv, Detections

LEMMA DetectionStep == EvidenceInv /\ DetectionInv /\ [Next]_vars => DetectionInv'
  <1> SUFFICES ASSUME TypeOK, DetectionInv, [Next]_vars PROVE DetectionInv'
    BY DEF EvidenceInv
  <1> USE DEF dbVars, hostVars, counters
  <1>1. ASSUME NEW ip \in Ip, NEW kind \in Kinds, NEW ts \in now - Lag .. now + Ahead,
               ReadCount(ip, kind, ts)
        PROVE  DetectionInv'
    <2>1. logs' = logs + 1 /\ UNCHANGED <<detected, rules, link>>
      BY <1>1 DEF ReadCount
    <2>2. OneCommandPerDetection'
      BY <2>1 DEF DetectionInv, OneCommandPerDetection, Commands, Detections
    <2>3. logs \in Nat /\ \A d \in detected : d.id \in Nat /\ d.id <= logs' /\ d.id # logs'
      BY <2>1 DEF DetectionInv
    <2> QED
      BY <2>1, <2>2, <2>3 DEF DetectionInv, Detections
  <1>2. ASSUME Suppress \/ Record \/ BlockWithoutAgent PROVE DetectionInv'
    <2>1. /\ handler.pc = "ready" /\ Detect(handler) /\ logs' = logs
          /\ handler'.pc \in {"idle", "sent"} /\ rules' = rules /\ link' = link
      BY <1>2 DEF Suppress, Record, BlockWithoutAgent, Proceed, Idle
    <2> QED
      BY <2>1, DetectedQuietly
  <1>3. ASSUME \/ ReadBlocked \/ ReadDuplicate \/ FinishBlock \/ ExpirySelect \/ ExpiryDelete
               \/ Commit \/ LinkDown \/ LinkUp \/ Tick \/ Crash \/ UNCHANGED vars
               \/ \E ip \in Ip : \/ \E duration \in Durations : ManualBlock(ip, duration)
                                 \/ ManualUnblock(ip)
        PROVE  DetectionInv'
    <2> DEFINE Manual == \E ip \in Ip : \/ \E duration \in Durations : ManualBlock(ip, duration)
                                        \/ ManualUnblock(ip)
    <2>1. ASSUME Manual PROVE UNCHANGED <<detected, rules, logs, link, handler>>
      BY <2>1 DEF ManualBlock, ManualUnblock
    <2>2. /\ UNCHANGED <<detected, rules, logs>>
          /\ link' = link \/ link' \in Arriving(link)
          /\ \/ handler'.pc \notin {"counted", "checked", "ready"}
             \/ handler.pc \in {"counted", "checked", "ready"}
      <3>1. CASE LinkDown \/ Crash
        BY <3>1 DEF LinkDown, Crash, Idle
      <3>2. CASE \/ ReadBlocked \/ ReadDuplicate \/ FinishBlock \/ ExpirySelect \/ ExpiryDelete
                 \/ Commit \/ LinkUp \/ Tick \/ UNCHANGED vars
        BY <3>2 DEF ReadBlocked, ReadDuplicate, FinishBlock, ExpirySelect, ExpiryDelete,
                    Commit, LinkUp, Tick, vars, Idle
      <3>3. CASE Manual
        BY <2>1, <3>3
      <3> HIDE DEF Manual
      <3> QED
        BY <1>3, <3>1, <3>2, <3>3 DEF Manual
    <2>3. \A ip \in Ip : Detections(ip)' = Detections(ip)
      BY <2>2 DEF Detections
    <2>4. \A ip \in Ip : rules'[ip] + Cardinality(Commands(ip)') <= Cardinality(Detections(ip)')
      BY <2>2, <2>3, DetectionsTyped, CountKept
    <2>5. OneCommandPerDetection'
      BY <2>4 DEF OneCommandPerDetection
    <2> QED
      BY <2>2, <2>3, <2>5 DEF DetectionInv
  <1> QED
    BY <1>1, <1>2, <1>3, DetectedAndSent, CommandToRule DEF Next

(* A detection puts at most one rule on the host: through lost sessions,   *)
(* crashes and repeated signals the chain never holds more rules for an    *)
(* address than it was detected (server/ws/agent.py, _handle_log).         *)
THEOREM AnswersOnce == Spec => []OneCommandPerDetection
  <1>1. Init => DetectionInv
    <2> SUFFICES ASSUME Init PROVE DetectionInv
      OBVIOUS
    <2>1. detected = {} /\ link = <<>> /\ Len(link) = 0 /\ logs = 0 /\ handler.pc = "idle"
          /\ \A ip \in Ip : rules[ip] = 0
      BY DEF Init, Idle
    <2>2. \A ip \in Ip : Commands(ip) = {} /\ Detections(ip) = {}
      BY <2>1 DEF Commands, Detections
    <2>3. IsFiniteSet({}) /\ Cardinality({}) = 0
      BY FS_EmptySet
    <2>4. OneCommandPerDetection
      <3> SUFFICES ASSUME NEW ip \in Ip
                   PROVE  rules[ip] + Cardinality(Commands(ip)) <= Cardinality(Detections(ip))
        BY DEF OneCommandPerDetection
      <3>1. Cardinality(Commands(ip)) = 0 /\ Cardinality(Detections(ip)) = 0
        BY <2>2, <2>3, Zenon
      <3>2. rules[ip] = 0
        BY <2>1
      <3> QED
        BY <3>1, <3>2
    <2>5. \A ip \in Ip : IsFiniteSet(Detections(ip))
      BY <2>2, <2>3
    <2> QED
      BY <2>1, <2>4, <2>5 DEF DetectionInv
  <1>2. DetectionInv => OneCommandPerDetection
    BY DEF DetectionInv
  <1>3. Spec => []EvidenceInv
    BY EvidenceIsInvariant
  <1> QED
    BY <1>1, <1>2, <1>3, DetectionStep, PTL DEF Spec
=============================================================================
