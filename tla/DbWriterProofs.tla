--------------------------- MODULE DbWriterProofs ---------------------------
(***************************************************************************)
(* The order of commits and the completeness of an orderly stop, for any   *)
(* number of producers, queue capacity, attempts and errors.               *)
(*                                                                         *)
(* The invariant says what stands at each place of the queue: the          *)
(* statements Taken + 1 .. accepted in order, with the sentinel behind     *)
(* statement number sealed once stop_writer has put it and the writer has  *)
(* not met it; and that the log ends where the writer stands: with the     *)
(* last statement taken when the writer is between statements, one before  *)
(* it while the writer tries to commit it.                                 *)
(***************************************************************************)
EXTENDS DbWriter, SequenceTheorems, TLAPS

StopQueued == Sealed /\ writer # "stopped"
Statements == IF StopQueued THEN Len(queue) - 1 ELSE Len(queue)
Taken == accepted - Statements

Slot(i) == IF ~StopQueued \/ Taken + i <= sealed THEN Taken + i
           ELSE IF Taken + i = sealed + 1 THEN Stop ELSE Taken + i - 1

QueueInv ==
    /\ Statements \in Nat /\ Taken \in Nat
    /\ \A i \in 1 .. Len(queue) : queue[i] = Slot(i)
    /\ StopQueued => Taken <= sealed /\ sealed <= accepted
    /\ writer = "stopped" => Sealed /\ Taken = sealed
    /\ phase # "serving" => blocked \subseteq Detached
    /\ late \subseteq Detached

WriterInv ==
    /\ \A i \in 1 .. Len(txn) : txn[i] = current
    /\ writer \in {"executing", "committing"} =>
          current = Taken /\ LastCommitted = current - 1
    /\ writer = "committing" => txn # <<>>
    /\ writer \in {"opening", "idle", "stopped"} => txn = <<>> /\ LastCommitted = Taken

IInv == TypeOK /\ QueueInv /\ WriterInv /\ CommitOrder

LEMMA InitInv == Init => IInv
  <1> SUFFICES ASSUME Init PROVE IInv
    OBVIOUS
  <1>1. queue = <<>> /\ txn = <<>> /\ log = <<>> /\ accepted = 0
        /\ phase = "serving" /\ writer = "opening"
    BY DEF Init
  <1>2. ~StopQueued /\ LastCommitted = 0
    BY <1>1 DEF StopQueued, Sealed, LastCommitted
  <1>3. Statements = 0
    BY <1>1, <1>2 DEF Statements
  <1>4. Taken = 0
    BY <1>1, <1>3 DEF Taken
  <1> QED
    BY <1>1, <1>2, <1>3, <1>4 DEF Init, IInv, TypeOK, QueueInv, WriterInv, CommitOrder, Producers

(* What only concerns the writer when the queue and the log stay.          *)
LEMMA LogKeeps ==
    ASSUME log' = log
    PROVE  LastCommitted' = LastCommitted /\ (CommitOrder => CommitOrder')
  BY DEF LastCommitted, CommitOrder

(* Slots depend on the numbers alone.                                      *)
LEMMA SlotsKeep ==
    ASSUME StopQueued' <=> StopQueued, Taken' = Taken, sealed' = sealed
    PROVE  \A i \in Nat : Slot(i)' = Slot(i)
  BY DEF Slot

LEMMA QueueKeeps ==
    ASSUME IInv, queue' = queue, accepted' = accepted, UNCHANGED hVars,
           (writer' = "stopped") <=> (writer = "stopped"),
           \/ phase' = phase
           \/ phase = "serving" /\ phase' = "stopping"
           \/ phase = "waiting" /\ phase' = "stopped",
           phase' # "serving" => blocked' \subseteq Detached
    PROVE  QueueInv' /\ Taken' = Taken
  <1>1. (StopQueued' <=> StopQueued) /\ (Sealed' <=> Sealed) /\ sealed' = sealed /\ late' = late
    BY DEF StopQueued, Sealed, hVars
  <1>2. Statements' = Statements /\ Taken' = Taken
    BY <1>1 DEF Statements, Taken
  <1>3. \A i \in Nat : Slot(i)' = Slot(i)
    BY <1>1, <1>2, SlotsKeep
  <1>4. \A i \in 1 .. Len(queue') : queue'[i] = Slot(i)'
    <2> TAKE i \in 1 .. Len(queue')
    <2>1. Len(queue) \in Nat /\ i \in 1 .. Len(queue) /\ i \in Nat
      BY DEF IInv, TypeOK
    <2> QED
      BY <1>3, <2>1 DEF IInv, QueueInv
  <1> QED
    BY <1>1, <1>2, <1>4 DEF IInv, QueueInv

(* A statement joins the queue, before the sentinel or behind it.          *)
LEMMA AcceptKeeps ==
    ASSUME IInv, NEW p \in Producers, Accept(p), phase = "serving" \/ p \in Detached,
           phase' = phase, UNCHANGED wVars, blocked' \subseteq blocked
    PROVE  IInv'
  <1>1. /\ (StopQueued' <=> StopQueued) /\ (Sealed' <=> Sealed) /\ writer' = writer
        /\ sealed' = sealed
    BY DEF StopQueued, Sealed, wVars, Accept
  <1>2. /\ queue \in Seq(Nat) /\ accepted \in Nat /\ Len(queue) \in Nat /\ sealed \in Nat
        /\ queue' = Append(queue, accepted + 1) /\ accepted' = accepted + 1
    BY DEF IInv, TypeOK, Accept
  <1>3. /\ queue' \in Seq(Nat) /\ Len(queue') = Len(queue) + 1
        /\ queue'[Len(queue) + 1] = accepted + 1
        /\ \A i \in 1 .. Len(queue) : queue'[i] = queue[i]
    BY <1>2
  <1>4. /\ Statements \in Nat /\ Statements' = Statements + 1
        /\ Taken = accepted - Statements /\ Taken' = Taken /\ Taken \in Nat
    <2>1. Statements \in Nat /\ Taken \in Nat /\ Taken = accepted - Statements
      BY DEF IInv, QueueInv, Taken
    <2>2. Statements' = Statements + 1
      BY <1>1, <1>2, <1>3 DEF Statements
    <2> QED
      BY <1>2, <2>1, <2>2 DEF Taken
  <1>5. \A i \in Nat : Slot(i)' = Slot(i)
    BY <1>1, <1>4, SlotsKeep
  <1>6. Slot(Len(queue) + 1) = accepted + 1
    <2>1. CASE ~StopQueued
      BY <1>2, <1>4, <2>1 DEF Slot, Statements
    <2>2. CASE StopQueued
      BY <1>2, <1>4, <2>2 DEF Slot, Statements, IInv, QueueInv
    <2> QED
      BY <2>1, <2>2
  <1>7. \A i \in 1 .. Len(queue') : queue'[i] = Slot(i)'
    <2> TAKE i \in 1 .. Len(queue')
    <2>1. CASE i = Len(queue) + 1
      BY <1>2, <1>3, <1>5, <1>6, <2>1
    <2>2. CASE i # Len(queue) + 1
      <3>1. i \in 1 .. Len(queue) /\ i \in Nat
        BY <1>2, <1>3, <2>2
      <3> QED
        BY <1>3, <1>5, <3>1 DEF IInv, QueueInv
    <2> QED
      BY <2>1, <2>2
  <1>8. late' \subseteq Detached /\ late' \subseteq Producers
    BY DEF Accept, Sealed, IInv, QueueInv, TypeOK
  <1>9. QueueInv'
    <2>1. StopQueued' => Taken' <= sealed' /\ sealed' <= accepted'
      BY <1>1, <1>2, <1>4 DEF IInv, QueueInv
    <2>2. writer' = "stopped" => Sealed' /\ Taken' = sealed'
      BY <1>1, <1>4 DEF IInv, QueueInv
    <2>3. phase' # "serving" => blocked' \subseteq Detached
      BY DEF IInv, QueueInv
    <2> QED
      BY <1>4, <1>7, <1>8, <2>1, <2>2, <2>3 DEF QueueInv
  <1>10. WriterInv' /\ CommitOrder'
    BY <1>1, <1>4, LogKeeps DEF IInv, WriterInv, wVars
  <1> QED
    BY <1>1, <1>2, <1>3, <1>8, <1>9, <1>10 DEF IInv, TypeOK, wVars

(* The writer takes the head of the queue.                                 *)
LEMMA GetKeeps == ASSUME IInv, Get PROVE IInv'
  <1>1. /\ writer = "idle" /\ queue # <<>> /\ queue \in Seq(Nat) /\ accepted \in Nat
        /\ queue' = Tail(queue) /\ log' = log /\ txn' = txn
        /\ UNCHANGED <<accepted, blocked, phase, sealed, late, errors>>
        /\ txn = <<>> /\ LastCommitted = Taken /\ sealed \in Nat
    BY DEF Get, IInv, TypeOK, WriterInv, hVars
  <1>2. /\ Len(queue) \in Nat \ {0} /\ queue' \in Seq(Nat) /\ Len(queue') = Len(queue) - 1
        /\ \A i \in 1 .. Len(queue) - 1 : queue'[i] = queue[i + 1]
        /\ Head(queue) = queue[1] /\ Head(queue) \in Nat
    BY <1>1
  <1>3. /\ Head(queue) = Slot(1) /\ Taken \in Nat /\ Statements \in Nat
        /\ Taken = accepted - Statements
        /\ \A i \in 1 .. Len(queue) : queue[i] = Slot(i)
        /\ StopQueued => Taken <= sealed /\ sealed <= accepted
    BY <1>2 DEF IInv, QueueInv, Taken
  <1>4. CASE Head(queue) = Stop
    <2>1. writer' = "stopped" /\ current' = current /\ attempt' = attempt
      BY <1>4 DEF Get
    <2>2. StopQueued /\ Taken = sealed
      BY <1>1, <1>3, <1>4 DEF Slot, Stop
    <2>3. Sealed' /\ ~StopQueued'
      BY <1>1, <2>1, <2>2 DEF StopQueued, Sealed
    <2>4. Statements = Len(queue) - 1 /\ Statements' = Len(queue) - 1
      BY <1>2, <2>2, <2>3 DEF Statements
    <2>5. Taken' = Taken
      BY <1>1, <2>4 DEF Taken
    <2>6. \A i \in 1 .. Len(queue') : queue'[i] = Slot(i)'
      <3> TAKE i \in 1 .. Len(queue')
      <3>1. i \in 1 .. Len(queue) - 1 /\ i + 1 \in 1 .. Len(queue) /\ i \in Nat \ {0}
        BY <1>2
      <3>2. queue'[i] = Slot(i + 1)
        BY <1>2, <1>3, <3>1
      <3>3. Slot(i + 1) = Taken + i
        <4>1. /\ ~(Taken + (i + 1) <= sealed) /\ Taken + (i + 1) # sealed + 1
              /\ Taken + (i + 1) - 1 = Taken + i
          BY <1>1, <1>3, <2>2, <3>1
        <4> QED
          BY <2>2, <4>1 DEF Slot
      <3>4. Slot(i)' = Taken' + i
        BY <2>3 DEF Slot
      <3> QED
        BY <2>5, <3>2, <3>3, <3>4
    <2>7. QueueInv'
      BY <1>1, <1>2, <1>3, <2>1, <2>2, <2>3, <2>4, <2>5, <2>6 DEF IInv, QueueInv
    <2>8. WriterInv' /\ CommitOrder'
      BY <1>1, <2>1, <2>5, LogKeeps DEF IInv, WriterInv
    <2> QED
      BY <1>1, <1>2, <2>1, <2>7, <2>8 DEF IInv, TypeOK
  <1>5. CASE Head(queue) # Stop
    <2>1. writer' = "executing" /\ current' = Head(queue) /\ attempt' = 1
      BY <1>5 DEF Get
    <2>2. (StopQueued' <=> StopQueued) /\ (Sealed' <=> Sealed)
      BY <1>1, <2>1 DEF StopQueued, Sealed
    <2>3. Head(queue) = Taken + 1 /\ (StopQueued => Taken + 1 <= sealed)
      BY <1>1, <1>3, <1>5 DEF Slot
    <2>4. /\ Statements \in Nat \ {0}
          /\ Statements' = Statements - 1 /\ Taken' = Taken + 1
      <3>1. Statements \in Nat \ {0}
        <4>1. CASE StopQueued
          BY <1>1, <1>3, <2>3, <4>1
        <4>2. CASE ~StopQueued
          BY <1>2, <4>2 DEF Statements
        <4> QED
          BY <4>1, <4>2
      <3>2. Statements' = Statements - 1
        BY <1>2, <2>2 DEF Statements
      <3>3. Taken' = accepted - (Statements - 1)
        BY <1>1, <3>2 DEF Taken
      <3> QED
        BY <1>1, <1>3, <3>1, <3>2, <3>3
    <2>5. \A i \in 1 .. Len(queue') : queue'[i] = Slot(i)'
      <3> TAKE i \in 1 .. Len(queue')
      <3>1. i \in 1 .. Len(queue) - 1 /\ i + 1 \in 1 .. Len(queue) /\ i \in Nat \ {0}
        BY <1>2
      <3>2. queue'[i] = Slot(i + 1)
        BY <1>2, <1>3, <3>1
      <3>3. Taken' + i = Taken + (i + 1) /\ Taken' + i - 1 = Taken + (i + 1) - 1
        BY <1>3, <2>4, <3>1
      <3>4. Slot(i)' = Slot(i + 1)
        BY <1>1, <2>2, <3>3 DEF Slot
      <3> QED
        BY <3>2, <3>4
    <2>6. QueueInv'
      <3>1. Statements' \in Nat /\ Taken' \in Nat
        BY <1>3, <2>4
      <3>2. StopQueued' => Taken' <= sealed' /\ sealed' <= accepted'
        BY <1>1, <1>3, <2>2, <2>3, <2>4
      <3>3. /\ writer' # "stopped" /\ (phase' # "serving" => blocked' \subseteq Detached)
            /\ late' \subseteq Detached
        BY <1>1, <2>1 DEF IInv, QueueInv
      <3> QED
        BY <2>5, <3>1, <3>2, <3>3 DEF QueueInv
    <2>7. WriterInv' /\ CommitOrder'
      <3>1. current' = Taken' /\ LastCommitted' = current' - 1
        BY <1>1, <1>3, <2>1, <2>3, <2>4, LogKeeps
      <3> QED
        BY <1>1, <2>1, <3>1, LogKeeps DEF IInv, WriterInv
    <2> QED
      BY <1>1, <1>2, <2>1, <2>6, <2>7 DEF IInv, TypeOK
  <1> QED
    BY <1>4, <1>5

LEMMA ExecuteKeeps == ASSUME IInv, Execute PROVE IInv'
  <1>1. /\ writer = "executing" /\ writer' = "committing" /\ txn \in Seq(Nat) /\ current \in Nat
        /\ txn' = Append(txn, current)
        /\ UNCHANGED <<accepted, queue, blocked, current, attempt, log, phase, hVars, errors>>
    BY DEF Execute, IInv, TypeOK
  <1>2. /\ txn' \in Seq(Nat) /\ txn' # <<>> /\ Len(txn') = Len(txn) + 1
        /\ txn'[Len(txn) + 1] = current
        /\ \A i \in 1 .. Len(txn) : txn'[i] = txn[i]
    BY <1>1
  <1>3. \A i \in 1 .. Len(txn') : txn'[i] = current'
    <2> TAKE i \in 1 .. Len(txn')
    <2>1. i \in 1 .. Len(txn) \/ i = Len(txn) + 1
      BY <1>1, <1>2
    <2> QED
      BY <1>1, <1>2, <2>1 DEF IInv, WriterInv
  <1>4. QueueInv' /\ Taken' = Taken
    BY <1>1, QueueKeeps DEF IInv, QueueInv
  <1>5. WriterInv' /\ CommitOrder'
    BY <1>1, <1>2, <1>3, <1>4, LogKeeps DEF IInv, WriterInv
  <1> QED
    BY <1>1, <1>2, <1>4, <1>5 DEF IInv, TypeOK, hVars

(* The heart of the proof: a commit appends copies of the statement that   *)
(* follows the last one in the log.                                        *)
LEMMA CommitKeeps == ASSUME IInv, Commit PROVE IInv'
  <1>1. /\ writer = "committing" /\ writer' = "idle" /\ txn \in Seq(Nat) /\ log \in Seq(Nat)
        /\ log' = log \o txn /\ txn' = <<>> /\ txn # <<>>
        /\ UNCHANGED <<accepted, queue, blocked, current, attempt, phase, hVars, errors>>
        /\ current \in Nat /\ current = Taken /\ LastCommitted = current - 1
        /\ \A i \in 1 .. Len(txn) : txn[i] = current
    BY DEF Commit, IInv, TypeOK, WriterInv
  <1>2. /\ log' \in Seq(Nat) /\ Len(log') = Len(log) + Len(txn)
        /\ Len(txn) \in Nat \ {0} /\ Len(log) \in Nat /\ log' # <<>>
        /\ \A i \in 1 .. Len(log) : log'[i] = log[i]
        /\ \A i \in Len(log) + 1 .. Len(log) + Len(txn) : log'[i] = current
    <2>1. /\ log \o txn \in Seq(Nat)
          /\ Len(log \o txn) = Len(log) + Len(txn)
          /\ \A i \in 1 .. Len(log) + Len(txn) :
               (log \o txn)[i] = IF i <= Len(log) THEN log[i] ELSE txn[i - Len(log)]
      BY <1>1, ConcatProperties
    <2>2. Len(txn) \in Nat \ {0} /\ Len(log) \in Nat
      BY <1>1
    <2>3. \A i \in Len(log) + 1 .. Len(log) + Len(txn) : log'[i] = current
      <3> TAKE i \in Len(log) + 1 .. Len(log) + Len(txn)
      <3>1. i - Len(log) \in 1 .. Len(txn) /\ i \in 1 .. Len(log) + Len(txn) /\ ~(i <= Len(log))
        BY <2>2
      <3> QED
        BY <1>1, <2>1, <3>1
    <2>4. \A i \in 1 .. Len(log) : log'[i] = log[i]
      BY <1>1, <2>1, <2>2
    <2>5. log' # <<>>
      BY <1>1, <2>1, <2>2
    <2> QED
      BY <1>1, <2>1, <2>2, <2>3, <2>4, <2>5
  <1>3. LastCommitted' = current
    BY <1>2 DEF LastCommitted
  <1>4. CommitOrder'
    <2>1. log'[1] = 1
      <3>1. CASE log = <<>>
        <4>1. current = 1 /\ Len(log) = 0
          BY <1>1, <3>1 DEF LastCommitted
        <4>2. 1 \in Len(log) + 1 .. Len(log) + Len(txn)
          BY <1>2, <4>1
        <4> QED
          BY <1>2, <4>1, <4>2
      <3>2. CASE log # <<>>
        <4>1. 1 \in 1 .. Len(log)
          BY <1>1, <1>2, <3>2
        <4> QED
          BY <1>2, <3>2, <4>1 DEF IInv, CommitOrder
      <3> QED
        BY <3>1, <3>2
    <2>2. ASSUME NEW i \in 1 .. Len(log') - 1
          PROVE  log'[i + 1] \in {log'[i], log'[i] + 1}
      <3>1. CASE i + 1 <= Len(log)
        <4>1. i \in 1 .. Len(log) - 1 /\ i \in 1 .. Len(log) /\ i + 1 \in 1 .. Len(log)
          BY <1>2, <3>1
        <4> QED
          BY <1>2, <4>1 DEF IInv, CommitOrder
      <3>2. CASE i = Len(log)
        <4>1. log # <<>> /\ log[i] = current - 1
          BY <1>1, <1>2, <3>2 DEF LastCommitted
        <4>2. log'[i] = log[i] /\ log'[i + 1] = current
          BY <1>2, <3>2
        <4> QED
          BY <1>1, <4>1, <4>2
      <3>3. CASE i > Len(log)
        <4>1. /\ i \in Len(log) + 1 .. Len(log) + Len(txn)
              /\ i + 1 \in Len(log) + 1 .. Len(log) + Len(txn)
          BY <1>2, <3>3
        <4> QED
          BY <1>2, <4>1
      <3> QED
        BY <1>2, <3>1, <3>2, <3>3
    <2> QED
      BY <2>1, <2>2 DEF CommitOrder
  <1>5. QueueInv' /\ Taken' = Taken
    BY <1>1, QueueKeeps DEF IInv, QueueInv
  <1>6. WriterInv'
    BY <1>1, <1>3, <1>5 DEF WriterInv
  <1> QED
    BY <1>1, <1>2, <1>4, <1>5, <1>6 DEF IInv, TypeOK, hVars

(* A failed attempt, with the transaction left open or rolled back.        *)
LEMMA FailureKeeps ==
    ASSUME IInv, writer \in {"executing", "committing"},
           NEW left \in {<<>>, txn}, RetryOrDie(left), errors' = errors + 1,
           UNCHANGED <<accepted, queue, blocked, current, log, phase, hVars>>
    PROVE  IInv'
  <1>1. /\ writer' \in {"executing", "dead"} /\ txn' \in {<<>>, txn}
        /\ attempt' \in {attempt, attempt + 1}
    BY DEF RetryOrDie
  <1>2. \A i \in 1 .. Len(txn') : txn'[i] = current'
    BY <1>1 DEF IInv, WriterInv
  <1>3. QueueInv' /\ Taken' = Taken
    BY <1>1, QueueKeeps DEF IInv, QueueInv
  <1>4. WriterInv' /\ CommitOrder'
    BY <1>1, <1>2, <1>3, LogKeeps DEF IInv, WriterInv
  <1>5. txn' \in Seq(Nat)
    <2>1. txn \in Seq(Nat) /\ <<>> \in Seq(Nat)
      BY EmptySeq DEF IInv, TypeOK
    <2> QED
      BY <1>1, <2>1, Zenon
  <1>6. attempt' \in Nat /\ errors' \in Nat
    BY <1>1 DEF IInv, TypeOK
  <1> QED
    BY <1>1, <1>3, <1>4, <1>5, <1>6 DEF IInv, TypeOK, hVars

LEMMA OpenKeeps == ASSUME IInv, Open PROVE IInv'
  <1>1. /\ writer = "opening" /\ writer' = "idle"
        /\ UNCHANGED <<accepted, queue, blocked, current, attempt, txn, log, phase, hVars, errors>>
    BY DEF Open
  <1>2. QueueInv' /\ Taken' = Taken
    BY <1>1, QueueKeeps DEF IInv, QueueInv
  <1>3. WriterInv' /\ CommitOrder'
    BY <1>1, <1>2, LogKeeps DEF IInv, WriterInv
  <1> QED
    BY <1>1, <1>2, <1>3 DEF IInv, TypeOK, hVars

(* An exception that is not retried: the transaction is rolled back.       *)
LEMMA RaiseKeeps == ASSUME IInv, WriterRaises PROVE IInv'
  <1>1. /\ writer # "stopped" /\ writer' = "broken" /\ txn' = <<>>
        /\ UNCHANGED <<accepted, queue, blocked, current, attempt, log, phase, hVars, errors>>
    BY DEF WriterRaises
  <1>2. QueueInv' /\ Taken' = Taken
    BY <1>1, QueueKeeps DEF IInv, QueueInv
  <1>3. WriterInv' /\ CommitOrder'
    BY <1>1, <1>2, LogKeeps DEF IInv, WriterInv
  <1>4. txn' \in Seq(Nat)
    BY <1>1
  <1> QED
    BY <1>1, <1>2, <1>3, <1>4 DEF IInv, TypeOK, hVars

(* The shutdown.                                                           *)
LEMMA CancelKeeps == ASSUME IInv, CancelTasks PROVE IInv'
  <1>1. /\ phase = "serving" /\ phase' = "stopping" /\ blocked' = blocked \ Background
        /\ blocked \cap Clients = {} /\ blocked \subseteq Producers
        /\ UNCHANGED <<accepted, queue, hVars, wVars>>
    BY DEF CancelTasks, IInv, TypeOK
  <1>2. blocked' \subseteq Detached /\ blocked' \subseteq Producers
    BY <1>1 DEF Producers
  <1>3. QueueInv' /\ Taken' = Taken
    BY <1>1, <1>2, QueueKeeps DEF wVars
  <1>4. WriterInv' /\ CommitOrder'
    BY <1>1, <1>3, LogKeeps DEF IInv, WriterInv, wVars
  <1> QED
    BY <1>1, <1>2, <1>3, <1>4 DEF IInv, TypeOK, wVars, hVars

LEMMA StopKeeps == ASSUME IInv, StopWriter PROVE IInv'
  <1>1. /\ phase = "stopping" /\ phase' = "waiting" /\ queue' = Append(queue, Stop)
        /\ queue \in Seq(Nat) /\ Len(queue) \in Nat /\ accepted \in Nat /\ sealed' = accepted
        /\ UNCHANGED <<accepted, blocked, late, wVars>>
    BY DEF StopWriter, PutSentinel, IInv, TypeOK
  <1>2. ~Sealed /\ Sealed' /\ writer # "stopped" /\ writer' = writer
    BY <1>1 DEF Sealed, IInv, QueueInv, wVars
  <1>3. ~StopQueued /\ StopQueued'
    BY <1>2 DEF StopQueued
  <1>4. /\ queue' \in Seq(Nat) /\ Len(queue') = Len(queue) + 1
        /\ queue'[Len(queue) + 1] = Stop
        /\ \A i \in 1 .. Len(queue) : queue'[i] = queue[i]
    BY <1>1 DEF Stop
  <1>5. /\ Statements = Len(queue) /\ Statements' = Len(queue) /\ Taken' = Taken
        /\ Taken = accepted - Len(queue) /\ Taken \in Nat
    BY <1>1, <1>3, <1>4 DEF Statements, Taken, IInv, QueueInv
  <1>6. \A i \in 1 .. Len(queue') : queue'[i] = Slot(i)'
    <2> TAKE i \in 1 .. Len(queue')
    <2>1. CASE i = Len(queue) + 1
      <3>1. Slot(i)' = Stop
        BY <1>1, <1>3, <1>5, <2>1 DEF Slot
      <3> QED
        BY <1>4, <2>1, <3>1
    <2>2. CASE i # Len(queue) + 1
      <3>1. i \in 1 .. Len(queue) /\ i \in Nat
        BY <1>1, <1>4, <2>2
      <3>2. Slot(i) = Taken + i
        BY <1>3 DEF Slot
      <3>3. Slot(i)' = Taken + i
        BY <1>1, <1>5, <3>1 DEF Slot
      <3> QED
        BY <1>4, <3>1, <3>2, <3>3 DEF IInv, QueueInv
    <2> QED
      BY <2>1, <2>2
  <1>7. QueueInv'
    <2>1. Statements' \in Nat /\ Taken' \in Nat /\ Taken' <= sealed' /\ sealed' <= accepted'
      BY <1>1, <1>5
    <2>2. writer' # "stopped" /\ blocked' \subseteq Detached /\ late' \subseteq Detached
      BY <1>1, <1>2 DEF IInv, QueueInv
    <2> QED
      BY <1>6, <2>1, <2>2 DEF QueueInv
  <1>8. WriterInv' /\ CommitOrder'
    BY <1>1, <1>5, LogKeeps DEF IInv, WriterInv, wVars
  <1> QED
    BY <1>1, <1>4, <1>7, <1>8 DEF IInv, TypeOK, wVars

LEMMA StopReturnsKeeps == ASSUME IInv, StopWriterReturns PROVE IInv'
  <1>1. /\ phase = "waiting" /\ phase' = "stopped"
        /\ UNCHANGED <<accepted, queue, blocked, hVars, wVars>>
    BY DEF StopWriterReturns
  <1>2. QueueInv' /\ Taken' = Taken
    BY <1>1, QueueKeeps DEF IInv, QueueInv, wVars
  <1>3. WriterInv' /\ CommitOrder'
    BY <1>1, <1>2, LogKeeps DEF IInv, WriterInv, wVars
  <1> QED
    BY <1>1, <1>2, <1>3 DEF IInv, TypeOK, wVars, hVars

LEMMA StepInv == IInv /\ [Next]_vars => IInv'
  <1> SUFFICES ASSUME IInv, [Next]_vars PROVE IInv'
    OBVIOUS
  <1>1. ASSUME NEW p \in Producers, Put(p) PROVE IInv'
    BY <1>1, AcceptKeeps DEF Put, MayWrite
  <1>2. ASSUME NEW p \in Producers, PutBlocks(p) PROVE IInv'
    <2>1. /\ blocked' = blocked \cup {p} /\ (phase = "serving" \/ p \in Detached)
          /\ UNCHANGED <<accepted, queue, hVars, wVars, phase>>
      BY <1>2 DEF PutBlocks, MayWrite
    <2>2. blocked' \subseteq Producers /\ (phase' # "serving" => blocked' \subseteq Detached)
      BY <2>1 DEF IInv, TypeOK, QueueInv
    <2>3. QueueInv' /\ Taken' = Taken
      BY <2>1, <2>2, QueueKeeps DEF wVars
    <2>4. WriterInv' /\ CommitOrder'
      BY <2>1, <2>3, LogKeeps DEF IInv, WriterInv, wVars
    <2> QED
      BY <2>1, <2>2, <2>3, <2>4 DEF IInv, TypeOK, wVars, hVars
  <1>3. ASSUME NEW p \in Producers, PutResumes(p) PROVE IInv'
    <2>1. phase = "serving" \/ p \in Detached
      BY <1>3 DEF PutResumes, IInv, QueueInv
    <2> QED
      BY <1>3, <2>1, AcceptKeeps DEF PutResumes
  <1>4. CASE ExecuteFails
    BY <1>4, FailureKeeps DEF ExecuteFails
  <1>5. CASE CommitFails
    BY <1>5, FailureKeeps DEF CommitFails
  <1>6. CASE UNCHANGED vars
    <2>1. QueueInv' /\ Taken' = Taken
      BY <1>6, QueueKeeps DEF vars, hVars, IInv, QueueInv
    <2> QED
      BY <1>6, <2>1, LogKeeps DEF vars, IInv, TypeOK, WriterInv
  <1> QED
    BY <1>1, <1>2, <1>3, <1>4, <1>5, <1>6, OpenKeeps, GetKeeps, ExecuteKeeps, CommitKeeps,
       RaiseKeeps, CancelKeeps, StopKeeps, StopReturnsKeeps DEF Next

(* The queue, the writer and the log stay in their types.                  *)
THEOREM TypeCorrect == Spec => []TypeOK
  <1>1. IInv => TypeOK
    BY DEF IInv
  <1> QED
    BY <1>1, InitInv, StepInv, PTL DEF Spec

(* Statements take effect in the order in which the queue accepted them,   *)
(* none skipped before one that is there, through failed commits, retries  *)
(* and the death of the writer.                                            *)
THEOREM CommitsInOrder == Spec => []CommitOrder
  <1>1. IInv => CommitOrder
    BY DEF IInv
  <1> QED
    BY <1>1, InitInv, StepInv, PTL DEF Spec

(* A writer that was stopped by the sentinel has left nothing behind of    *)
(* what requests and background tasks wrote: only detached notification    *)
(* tasks can have put a statement after it.                                *)
THEOREM StopLosesNothing == Spec => []OrderlyStopIsComplete
  <1>1. IInv => OrderlyStopIsComplete
    BY DEF IInv, QueueInv, WriterInv, OrderlyStopIsComplete
  <1> QED
    BY <1>1, InitInv, StepInv, PTL DEF Spec
-----------------------------------------------------------------------------
(* The promise of WriteQueue.                                              *)

(* A commit makes the statement durable that follows the last durable one, *)
(* and one that stands before the line.                                    *)
LEMMA CommitIsOneStatement == ASSUME IInv, Commit PROVE Promise!Commit
  <1>1. /\ txn \in Seq(Nat) /\ log \in Seq(Nat) /\ txn # <<>> /\ log' = log \o txn
        /\ current \in Nat /\ current = Taken /\ LastCommitted = current - 1
        /\ \A i \in 1 .. Len(txn) : txn[i] = current
        /\ writer = "committing" /\ writer' = "idle"
        /\ UNCHANGED <<accepted, phase, sealed>>
    BY DEF Commit, IInv, TypeOK, WriterInv, hVars
  <1>2. PICK m \in Nat \ {0}, k \in Nat : m = Len(txn) /\ k = Len(log)
    BY <1>1
  <1>3. Len(log') = k + m /\ log'[k + m] = current /\ log' # <<>>
    <2>1. k + m \in 1 .. k + m /\ ~(k + m <= k) /\ (k + m) - k = m /\ m \in 1 .. m
      BY <1>2
    <2>2. Len(log \o txn) = k + m /\ (log \o txn)[k + m] = txn[m]
      BY <1>1, <1>2, <2>1, ConcatProperties
    <2> QED
      BY <1>1, <1>2, <2>1, <2>2
  <1>4. LastCommitted' = current
    BY <1>3 DEF LastCommitted
  <1>5. LastCommitted < accepted /\ (Sealed => LastCommitted < sealed)
    <2>1. /\ accepted \in Nat /\ sealed \in Nat /\ Statements \in Nat
          /\ current = accepted - Statements
      BY <1>1 DEF IInv, TypeOK, QueueInv, Taken
    <2>2. Sealed => current <= sealed
      BY <1>1 DEF IInv, QueueInv, StopQueued
    <2> QED
      BY <1>1, <2>1, <2>2
  <1>6. LastCommitted' = LastCommitted + 1
    BY <1>1, <1>4
  <1>7. (Sealed' <=> Sealed) /\ (~Sealed)' = ~Sealed
    BY <1>1 DEF Sealed
  <1>8. (writer = "stopped")' = (writer = "stopped")
    BY <1>1
  <1>9. LastCommitted < IF ~Sealed THEN accepted ELSE sealed
    BY <1>5
  <1> QED
    BY <1>1, <1>6, <1>7, <1>8, <1>9 DEF Promise!Commit

LEMMA StepOfQueue == IInv /\ [Next]_vars => [Promise!Next]_(Promise!vars)
  <1> SUFFICES ASSUME IInv, [Next]_vars PROVE Promise!Next \/ UNCHANGED Promise!vars
    OBVIOUS
  <1>1. ASSUME NEW p \in Producers, Put(p) \/ PutResumes(p) PROVE Promise!Accept
    <2>1. /\ phase' = phase /\ accepted' = accepted + 1 /\ log' = log /\ writer' = writer
          /\ sealed' = sealed
      BY <1>1 DEF Put, PutResumes, Accept, wVars
    <2> QED
      BY <2>1 DEF Promise!Accept, LastCommitted, Sealed
  <1>2. ASSUME \/ \E p \in Producers : PutBlocks(p)
               \/ Open \/ Execute \/ ExecuteFails \/ CommitFails \/ WriterRaises
               \/ CancelTasks \/ StopWriterReturns \/ (Get /\ writer' # "stopped")
        PROVE  UNCHANGED Promise!vars
    <2>1. UNCHANGED <<accepted, log, sealed>> /\ (Sealed' <=> Sealed)
      BY <1>2 DEF PutBlocks, Open, Get, Execute, ExecuteFails, CommitFails, WriterRaises,
                  CancelTasks, StopWriterReturns, wVars, hVars, Sealed
    <2>2. (writer' = "stopped") <=> (writer = "stopped")
      BY <1>2 DEF PutBlocks, Open, Get, Execute, ExecuteFails, CommitFails, WriterRaises,
                  RetryOrDie, CancelTasks, StopWriterReturns, wVars
    <2> QED
      BY <2>1, <2>2 DEF Promise!vars, LastCommitted
  <1>3. ASSUME Commit PROVE Promise!Commit
    BY <1>3, CommitIsOneStatement
  <1>4. ASSUME StopWriter PROVE Promise!Seal
    <2>1. /\ ~Sealed /\ Sealed' /\ sealed' = accepted
          /\ UNCHANGED <<accepted, log, writer>>
      BY <1>4 DEF StopWriter, Sealed, wVars
    <2> QED
      BY <2>1 DEF Promise!Seal, LastCommitted
  <1>5. ASSUME Get, writer' = "stopped" PROVE Promise!End
    <2>1. IInv'
      BY <1>5, StepInv DEF Next
    <2>2. UNCHANGED <<accepted, log, sealed, phase>>
      BY <1>5 DEF Get, hVars
    <2>3. Sealed /\ Taken' = sealed /\ LastCommitted = Taken'
      BY <1>5, <2>1, <2>2, LogKeeps DEF IInv, QueueInv, WriterInv, Sealed
    <2> QED
      BY <1>5, <2>2, <2>3 DEF Promise!End, LastCommitted, Sealed
  <1>6. CASE UNCHANGED vars
    BY <1>6 DEF vars, Promise!vars, LastCommitted, Sealed
  <1> QED
    BY <1>1, <1>2, <1>3, <1>4, <1>5, <1>6 DEF Next, Promise!Next

(* For every number of writers, errors and attempts the write path is the  *)
(* plain queue the rest of the server takes it for: enqueue_write accepts, *)
(* the writer commits the oldest, nothing accepted behind the sentinel is  *)
(* ever committed, and the writer ends in order only when everything       *)
(* before it is (server/db.py, server/main.py).                            *)
THEOREM WriterIsQueue == Spec => ImplementsWriteQueue
  <1>1. Init => Promise!Init
    BY DEF Init, Promise!Init, LastCommitted, Sealed
  <1> QED
    BY <1>1, InitInv, StepInv, StepOfQueue, PTL DEF Spec, ImplementsWriteQueue, Promise!Spec
=============================================================================
