------------------------ MODULE BufferedClientProofs -------------------------
(***************************************************************************)
(* RingBuffer implements KeepLast, for every capacity and set of messages. *)
(* The client with the ring in it keeps every message in one place, for    *)
(* any number of collectors, messages and connections.                     *)
(***************************************************************************)
EXTENDS BufferedClient, SequenceTheorems, FiniteSetTheorems, TLAPS

-----------------------------------------------------------------------------
(* The ring.                                                               *)

(* Index arithmetic without division: the place i behind the head, i at    *)
(* most cap, wraps at most once.                                           *)
LEMMA Wrap ==
    ASSUME NEW h \in Slots, NEW i \in 0 .. cap
    PROVE  /\ (h + i) % cap = IF h + i < cap THEN h + i ELSE h + i - cap
           /\ (h + i) % cap \in Slots
  <1>1. (h + i) % cap = IF h + i < cap THEN h + i ELSE h + i - cap
    BY RingBufferAssumption DEF Slots
  <1> QED
    BY <1>1, RingBufferAssumption DEF Slots

LEMMA SlotValue ==
    ASSUME head \in Slots, NEW i \in 0 .. cap
    PROVE  /\ Slot(i) = IF head + i < cap THEN head + i ELSE head + i - cap
           /\ Slot(i) \in Slots
  BY Wrap DEF Slot

LEMMA SlotValueNext ==
    ASSUME head' \in Slots, NEW i \in 0 .. cap
    PROVE  Slot(i)' = IF head' + i < cap THEN head' + i ELSE head' + i - cap
  BY Wrap DEF Slot

(* What Push leaves in the slots the head counts, place by place: the old  *)
(* contents, shifted by one when the buffer was full, and the new message. *)
LEMMA PushSlots ==
    ASSUME RingTypeOK, NEW data \in Item, Push(data)
    PROVE  /\ head' \in Slots /\ count' \in 1 .. cap
           /\ count' = IF count = cap THEN cap ELSE count + 1
           /\ items'[Slot(count - 1)'] = data
           /\ \A i \in 0 .. count' - 2 :
                items'[Slot(i)'] = items[Slot(IF count = cap THEN i + 1 ELSE i)]
  <1> USE RingBufferAssumption
  <1>1. Slot(count) \in Slots /\ items \in [Slots -> Item \cup {Empty}]
    BY SlotValue DEF RingTypeOK
  <1>2. items' = [items EXCEPT ![Slot(count)] = data]
    BY DEF Push
  <1>3. CASE count = cap
    <2>1. Slot(1) = (head + 1) % cap
      BY DEF Slot
    <2>2. head' = Slot(1) /\ count' = cap
      BY <1>3, <2>1 DEF Push, Advance
    <2>3. head' = IF head + 1 < cap THEN head + 1 ELSE head + 1 - cap
      BY <2>2, SlotValue DEF RingTypeOK
    <2>4. head' \in Slots
      BY <2>3 DEF RingTypeOK, Slots
    <2>5. Slot(count) = head
      BY <1>3, SlotValue DEF RingTypeOK, Slots
    <2>6. Slot(count - 1)' = head
      <3>1. Slot(cap - 1)' = IF head' + (cap - 1) < cap THEN head' + (cap - 1)
                                                       ELSE head' + (cap - 1) - cap
        BY <2>4, SlotValueNext
      <3> QED
        BY <3>1, <2>2, <2>3 DEF RingTypeOK, Slots
    <2>7. ASSUME NEW i \in 0 .. count' - 2
          PROVE  items'[Slot(i)'] = items[Slot(i + 1)]
      <3>1. i \in 0 .. cap /\ i + 1 \in 1 .. cap - 1
        BY <2>2
      <3>2. Slot(i)' = IF head' + i < cap THEN head' + i ELSE head' + i - cap
        BY <2>4, <3>1, SlotValueNext
      <3>3. /\ Slot(i + 1) = IF head + (i + 1) < cap THEN head + (i + 1)
                                                    ELSE head + (i + 1) - cap
            /\ Slot(i + 1) \in Slots
        BY <3>1, SlotValue DEF RingTypeOK
      <3>4. Slot(i)' = Slot(i + 1) /\ Slot(i + 1) # head
        BY <2>3, <3>1, <3>2, <3>3 DEF RingTypeOK, Slots
      <3> QED
        BY <1>1, <1>2, <2>5, <3>3, <3>4
    <2> QED
      BY <1>1, <1>2, <1>3, <2>2, <2>4, <2>5, <2>6, <2>7
  <1>4. CASE count # cap
    <2>1. head' = head /\ count' = count + 1
      BY <1>4 DEF Push, Advance
    <2>2. \A i \in 0 .. cap : Slot(i)' = Slot(i)
      BY <2>1 DEF Slot
    <2>3. count \in 0 .. cap - 1
      BY <1>4 DEF RingTypeOK
    <2>4. ASSUME NEW i \in 0 .. count' - 2
          PROVE  items'[Slot(i)'] = items[Slot(i)]
      <3>1. i \in 0 .. cap /\ i < count
        BY <2>1, <2>3
      <3>2. /\ Slot(i) = IF head + i < cap THEN head + i ELSE head + i - cap
            /\ Slot(i) \in Slots
        BY <3>1, SlotValue DEF RingTypeOK
      <3>3. Slot(count) = IF head + count < cap THEN head + count ELSE head + count - cap
        BY <2>3, SlotValue DEF RingTypeOK
      <3>4. Slot(i) # Slot(count)
        BY <2>3, <3>1, <3>2, <3>3 DEF RingTypeOK, Slots
      <3> QED
        BY <1>1, <1>2, <2>2, <3>1, <3>2, <3>4
    <2>5. items'[Slot(count - 1)'] = data
      <3>1. count' - 1 = count /\ count \in 0 .. cap
        BY <2>1, <2>3
      <3>2. Slot(count - 1)' = Slot(count)
        BY <2>1, <3>1 DEF Slot
      <3> QED
        BY <1>1, <1>2, <3>2
    <2> QED
      BY <1>4, <2>1, <2>3, <2>4, <2>5 DEF RingTypeOK
  <1> QED
    BY <1>3, <1>4

(* Type correctness, of the initial state and of a step.                   *)
LEMMA TypeInit == New => RingTypeOK
  BY RingBufferAssumption DEF New, RingTypeOK, Slots

LEMMA ContentsType ==
    RingTypeOK => /\ Contents \in Seq(Item) /\ Len(Contents) = count
              /\ \A i \in 1 .. count : Contents[i] = items[Slot(i - 1)]
  BY RingBufferAssumption DEF RingTypeOK, Contents

LEMMA TypeStep == RingTypeOK /\ [RingNext]_ringVars => RingTypeOK'
  <1> SUFFICES ASSUME RingTypeOK, [RingNext]_ringVars PROVE RingTypeOK'
    OBVIOUS
  <1> USE RingBufferAssumption
  <1>1. ASSUME NEW data \in Item, Push(data) PROVE RingTypeOK'
    <2>1. /\ head' \in Slots /\ count' \in 1 .. cap
          /\ count' = IF count = cap THEN cap ELSE count + 1
          /\ items'[Slot(count - 1)'] = data
          /\ \A i \in 0 .. count' - 2 :
                items'[Slot(i)'] = items[Slot(IF count = cap THEN i + 1 ELSE i)]
      BY <1>1, PushSlots
    <2>2. items' \in [Slots -> Item \cup {Empty}]
      BY <1>1 DEF Push, RingTypeOK
    <2>3. ASSUME NEW i \in 0 .. count' - 1 PROVE items'[Slot(i)'] \in Item
      <3>1. CASE i = count' - 1
        <4>1. Slot(i)' = Slot(count - 1)'
          BY <3>1 DEF Slot
        <4> QED
          BY <2>1, <4>1
      <3>2. CASE i # count' - 1
        <4>1. i \in 0 .. count' - 2
          BY <2>1, <3>2
        <4>2. (IF count = cap THEN i + 1 ELSE i) \in 0 .. count - 1
          BY <2>1, <4>1 DEF RingTypeOK
        <4> QED
          BY <2>1, <4>1, <4>2 DEF RingTypeOK
      <3> QED
        BY <3>1, <3>2
    <2> QED
      BY <1>1, <2>1, <2>2, <2>3 DEF RingTypeOK, Push
  <1>2. CASE DrainAll
    BY <1>2, ContentsType DEF DrainAll, RingTypeOK, Slots
  <1>3. CASE UNCHANGED ringVars
    BY <1>3 DEF ringVars, RingTypeOK, Slot
  <1> QED
    BY <1>1, <1>2, <1>3 DEF RingNext

(* The indices never leave the array and every counted slot was written,   *)
(* for every capacity.                                                     *)
THEOREM TypeCorrect == RingSpec => []RingTypeOK
  BY TypeInit, TypeStep, PTL DEF RingSpec

(* A Push of the ring is a Push of the queue.                              *)
LEMMA PushImplements ==
    ASSUME RingTypeOK, NEW data \in Item, Push(data)
    PROVE  Queue!Push(data)
  <1> USE RingBufferAssumption
  <1>1. /\ count' \in 1 .. cap
        /\ count' = IF count = cap THEN cap ELSE count + 1
        /\ items'[Slot(count - 1)'] = data
        /\ \A i \in 0 .. count' - 2 :
              items'[Slot(i)'] = items[Slot(IF count = cap THEN i + 1 ELSE i)]
    BY PushSlots
  <1>2. /\ Contents \in Seq(Item) /\ Len(Contents) = count
        /\ \A i \in 1 .. count : Contents[i] = items[Slot(i - 1)]
    BY ContentsType
  <1>3. RingTypeOK'
    BY TypeStep DEF RingNext
  <1>4. (RingTypeOK => /\ Contents \in Seq(Item) /\ Len(Contents) = count
                   /\ \A i \in 1 .. count : Contents[i] = items[Slot(i - 1)])'
    BY ContentsType, PTL
  <1>5. /\ Contents' \in Seq(Item) /\ Len(Contents') = count'
        /\ \A i \in 1 .. count' : Contents'[i] = items'[Slot(i - 1)']
    BY <1>3, <1>4
  <1>6. Contents'[count'] = data
    BY <1>1, <1>5
  <1>7. ASSUME NEW i \in 1 .. count' - 1
        PROVE  Contents'[i] = Contents[IF count = cap THEN i + 1 ELSE i]
    <2>1. Contents'[i] = items'[Slot(i - 1)']
      BY <1>1, <1>5
    <2>2. items'[Slot(i - 1)'] = items[Slot(IF count = cap THEN i - 1 + 1 ELSE i - 1)]
      <3>1. i - 1 \in 0 .. count' - 2
        BY <1>1
      <3> QED
        BY <1>1, <3>1
    <2>3. CASE count = cap
      <3>1. i + 1 \in 1 .. count /\ (i + 1) - 1 = i - 1 + 1
        BY <1>1, <2>3
      <3> QED
        BY <1>2, <2>1, <2>2, <2>3, <3>1
    <2>4. CASE count # cap
      <3>1. i \in 1 .. count
        BY <1>1, <2>4 DEF RingTypeOK
      <3> QED
        BY <1>2, <2>1, <2>2, <2>4, <3>1
    <2> QED
      BY <2>3, <2>4
  <1>8. Contents' = Queue!Kept(Contents, data)
    <2>1. CASE count = cap
      <3>1. /\ Tail(Contents) \in Seq(Item) /\ Len(Tail(Contents)) = cap - 1
            /\ \A i \in 1 .. cap - 1 : Tail(Contents)[i] = Contents[i + 1]
        BY <1>2, <2>1
      <3>2. /\ Append(Tail(Contents), data) \in Seq(Item)
            /\ Len(Append(Tail(Contents), data)) = cap
            /\ Append(Tail(Contents), data)[cap] = data
            /\ \A i \in 1 .. cap - 1 : Append(Tail(Contents), data)[i] = Contents[i + 1]
        BY <3>1
      <3>3. \A i \in 1 .. cap : Contents'[i] = Append(Tail(Contents), data)[i]
        BY <1>1, <1>6, <1>7, <2>1, <3>2
      <3>4. Contents' = Append(Tail(Contents), data)
        BY <1>1, <1>5, <2>1, <3>2, <3>3, SeqEqual
      <3> QED
        BY <1>2, <2>1, <3>4 DEF Queue!Kept
    <2>2. CASE count # cap
      <3>1. /\ Append(Contents, data) \in Seq(Item)
            /\ Len(Append(Contents, data)) = count + 1
            /\ Append(Contents, data)[count + 1] = data
            /\ \A i \in 1 .. count : Append(Contents, data)[i] = Contents[i]
        BY <1>2 DEF RingTypeOK
      <3>2. \A i \in 1 .. count + 1 : Contents'[i] = Append(Contents, data)[i]
        BY <1>1, <1>6, <1>7, <2>2, <3>1 DEF RingTypeOK
      <3>3. Contents' = Append(Contents, data)
        BY <1>1, <1>5, <2>2, <3>1, <3>2, SeqEqual
      <3> QED
        BY <1>2, <2>2, <3>3 DEF Queue!Kept, RingTypeOK
    <2> QED
      BY <2>1, <2>2
  <1> QED
    BY <1>8 DEF Queue!Push, Push

(* Every behaviour of the ring is one of the queue that keeps the last cap *)
(* messages, for every capacity.                                           *)
THEOREM RingBufferImplementsKeepLast == RingSpec => ImplementsKeepLast
  <1>1. New => Queue!Init
    BY DEF New, Queue!Init, Contents
  <1>2. RingTypeOK /\ [RingNext]_ringVars => [Queue!Next]_<<Contents, result>>
    <2> SUFFICES ASSUME RingTypeOK, [RingNext]_ringVars
                 PROVE  [Queue!Next]_<<Contents, result>>
      OBVIOUS
    <2>1. ASSUME NEW data \in Item, Push(data) PROVE Queue!Next
      BY <2>1, PushImplements DEF Queue!Next
    <2>2. CASE DrainAll
      BY <2>2 DEF DrainAll, Queue!DrainAll, Queue!Next, Contents
    <2>3. CASE UNCHANGED ringVars
      BY <2>3 DEF ringVars, Contents, Slot
    <2> QED
      BY <2>1, <2>2, <2>3 DEF RingNext
  <1> QED
    BY <1>1, <1>2, TypeCorrect, PTL DEF RingSpec, ImplementsKeepLast, Queue!Spec

-----------------------------------------------------------------------------
(* The client: types, and where a session is when nothing else may be.     *)

SendRecord == [pc : {"send"}, msg : Message, to : 0 .. MaxConns]

ClientTypes ==
    /\ TypeOK
    /\ dialled \in 0 .. MaxConns
    /\ sender \in [Sender -> {Resting} \cup SendRecord]

(* The runner sends only while it replies, what connect drained is held    *)
(* only while it is sent or put back, the shutdown drains once, and the    *)
(* connection of an authentication is c.conn.                              *)
PlacesOfRun ==
    /\ sender[Runner] # Resting => run = "replying"
    /\ run \notin {"sending", "returning"} => buffered = <<>>
    /\ main \in {"serving", "draining"} => flush.msgs = <<>>
    /\ run = "auth" /\ ~done => conn = own

SessionInv == ClientTypes /\ PlacesOfRun /\ FlagFollowsSession

LEMMA HangupTypes ==
    ASSUME TypeOK, Hangup
    PROVE  /\ up' = None /\ wire' = <<>> /\ received' \in Seq(Message) /\ gone' \subseteq Message
  <1>1. PICK k \in 0 .. Len(wire) :
          /\ up' = None /\ wire' = <<>>
          /\ received' = received \o SubSeq(wire, 1, k)
          /\ gone' = gone \cup ToSet(SubSeq(wire, k + 1, Len(wire)))
    BY DEF Hangup
  <1>2. wire \in Seq(Message) /\ received \in Seq(Message) /\ gone \subseteq Message
    BY DEF TypeOK
  <1>3. /\ SubSeq(wire, 1, k) \in Seq(Message)
        /\ SubSeq(wire, k + 1, Len(wire)) \in Seq(Message)
    BY <1>2
  <1>4. ToSet(SubSeq(wire, k + 1, Len(wire))) \subseteq Message
    BY <1>3 DEF ToSet
  <1> QED
    BY <1>1, <1>2, <1>3, <1>4

LEMMA CloseConnTypes ==
    ASSUME TypeOK, NEW c \in 0 .. MaxConns, CloseConn(c)
    PROVE  /\ up' \in {None, up} /\ wire' \in Seq(Message)
           /\ received' \in Seq(Message) /\ gone' \subseteq Message
  <1>1. CASE c # None /\ c = up
    <2>1. Hangup
      BY <1>1 DEF CloseConn
    <2> QED
      BY <2>1, HangupTypes
  <1>2. CASE ~(c # None /\ c = up)
    BY <1>2 DEF CloseConn, netVars, TypeOK
  <1> QED
    BY <1>1, <1>2

LEMMA PushBufferTypes ==
    ASSUME TypeOK, NEW m \in Message, PushBuffer(m)
    PROVE  /\ buffer' \in Seq(Message) /\ Len(buffer') <= Capacity /\ gone' \subseteq Message
  <1> USE AgentClientAssumption
  <1>1. buffer \in Seq(Message) /\ Len(buffer) <= Capacity /\ gone \subseteq Message
    BY DEF TypeOK
  <1>2. CASE Len(buffer) < Capacity
    BY <1>1, <1>2 DEF PushBuffer, Ring!Kept
  <1>3. CASE ~(Len(buffer) < Capacity)
    <2>1. buffer # <<>> /\ Len(buffer) = Capacity
      BY <1>1, <1>3
    <2>2. /\ Head(buffer) \in Message /\ Tail(buffer) \in Seq(Message)
          /\ Len(Tail(buffer)) = Len(buffer) - 1
      BY <1>1, <2>1
    <2> QED
      BY <1>1, <1>3, <2>1, <2>2 DEF PushBuffer, Ring!Kept
  <1> QED
    BY <1>2, <1>3

LEMMA SessionInitially == Init => SessionInv
  <1> SUFFICES ASSUME Init PROVE SessionInv
    OBVIOUS
  <1> USE AgentClientAssumption
  <1>1. Runner \in Sender /\ sender \in [Sender -> {Resting} \cup SendRecord]
    BY DEF Init, Sender
  <1>2. /\ conn = 0 /\ connected = FALSE /\ done = FALSE /\ buffer = <<>> /\ run = "start"
        /\ own = 0 /\ buffered = <<>> /\ main = "serving" /\ dialled = 0 /\ up = 0
        /\ wire = <<>> /\ received = <<>> /\ gone = {} /\ made = 0
    BY DEF Init, None
  <1>3. flush = [msgs |-> <<>>, to |-> 0]
    BY DEF Init, None
  <1>4. flush \in [msgs : Seq(Message), to : 0 .. MaxConns] /\ flush.msgs = <<>>
    BY <1>3
  <1>5. \A s \in Sender : sender[s] = Resting
    BY DEF Init
  <1>6. TypeOK
    <2>1. connected \in BOOLEAN /\ done \in BOOLEAN
      BY <1>2
    <2>2. /\ conn \in 0 .. MaxConns /\ own \in 0 .. MaxConns /\ up \in {None, own}
          /\ made \in 0 .. MaxMessages /\ gone \subseteq Message
          /\ <<>> \in Seq(Message) /\ Len(<<>>) <= Capacity
      BY ONLY <1>2, AgentClientAssumption DEF None
    <2> QED
      BY <1>2, <1>4, <1>5, <2>1, <2>2 DEF TypeOK
  <1>7. PlacesOfRun /\ FlagFollowsSession
    BY <1>1, <1>2, <1>4, <1>5 DEF PlacesOfRun, FlagFollowsSession, InSession
  <1> QED
    BY <1>1, <1>2, <1>6, <1>7 DEF SessionInv, ClientTypes

(* What a step of Send does to its record.                                 *)
LEMMA SenderTypes ==
    ASSUME ClientTypes, NEW s \in Sender
    PROVE  /\ Snapshot(s) => /\ made' \in 1 .. MaxMessages
                            /\ sender' \in [Sender -> {Resting} \cup SendRecord]
           /\ sender' = [sender EXCEPT ![s] = Resting] =>
                sender' \in [Sender -> {Resting} \cup SendRecord]
           /\ SendFails(s) => sender' \in [Sender -> {Resting} \cup SendRecord]
  <1>1. /\ sender \in [Sender -> {Resting} \cup SendRecord]
        /\ made \in 0 .. MaxMessages /\ conn \in 0 .. MaxConns /\ None \in 0 .. MaxConns
    BY AgentClientAssumption DEF ClientTypes, TypeOK, None
  <1>2. ASSUME Snapshot(s)
        PROVE  /\ made' \in 1 .. MaxMessages
               /\ sender' \in [Sender -> {Resting} \cup SendRecord]
    <2>1. made' = made + 1 /\ made + 1 \in 1 .. MaxMessages
      BY <1>1, <1>2, AgentClientAssumption DEF Snapshot
    <2>2. [pc |-> "send", msg |-> made + 1, to |-> IF connected THEN conn ELSE None] \in SendRecord
      BY <1>1, <2>1 DEF SendRecord, Message
    <2>3. sender' = [sender EXCEPT ![s] = [pc |-> "send", msg |-> made + 1,
                                           to |-> IF connected THEN conn ELSE None]]
      BY <1>2 DEF Snapshot
    <2> QED
      BY <1>1, <2>1, <2>2, <2>3
  <1>3. ASSUME SendFails(s) PROVE sender' \in [Sender -> {Resting} \cup SendRecord]
    <2>1. sender[s] \in SendRecord
      BY <1>1, <1>3 DEF SendFails, Resting
    <2>2. [sender[s] EXCEPT !.to = None] \in SendRecord
      BY <1>1, <2>1 DEF SendRecord
    <2> QED
      BY <1>1, <1>3, <2>2 DEF SendFails
  <1> QED
    BY <1>1, <1>2, <1>3

LEMMA TypesStep == SessionInv /\ [Next]_vars => ClientTypes'
  <1> SUFFICES ASSUME SessionInv, [Next]_vars PROVE ClientTypes'
    OBVIOUS
  <1> USE AgentClientAssumption
  <1>0. /\ conn \in 0 .. MaxConns /\ buffer \in Seq(Message) /\ Len(buffer) <= Capacity
        /\ run \in InSession \cup {"start", "dialing", "auth", "stopped"}
        /\ own \in 0 .. MaxConns /\ buffered \in Seq(Message) /\ up \in {None, own}
        /\ flush \in [msgs : Seq(Message), to : 0 .. MaxConns]
        /\ main \in {"serving", "draining", "flushing", "closing", "closed"}
        /\ wire \in Seq(Message) /\ received \in Seq(Message)
        /\ gone \subseteq Message /\ made \in 0 .. MaxMessages
        /\ dialled \in 0 .. MaxConns /\ None \in 0 .. MaxConns
        /\ sender \in [Sender -> {Resting} \cup SendRecord]
    BY DEF SessionInv, ClientTypes, TypeOK, None
  <1>1. connected \in BOOLEAN /\ done \in BOOLEAN /\ TypeOK /\ ClientTypes
    BY DEF SessionInv, ClientTypes, TypeOK
  <1>2. ASSUME connected' \in BOOLEAN, done' \in BOOLEAN,
               conn' \in 0 .. MaxConns, run' \in InSession \cup {"start", "dialing", "auth", "stopped"},
               own' \in 0 .. MaxConns, up' \in {None, own'}, dialled' \in 0 .. MaxConns,
               main' \in {"serving", "draining", "flushing", "closing", "closed"},
               made' \in 0 .. MaxMessages, gone' \subseteq Message,
               buffer' \in Seq(Message), Len(buffer') <= Capacity, buffered' \in Seq(Message),
               wire' \in Seq(Message), received' \in Seq(Message),
               flush' \in [msgs : Seq(Message), to : 0 .. MaxConns],
               sender' \in [Sender -> {Resting} \cup SendRecord]
        PROVE  ClientTypes'
    BY <1>2 DEF ClientTypes, TypeOK, SendRecord
  <1>3. CASE Start \/ DialFails \/ AuthOk \/ SendBufferedFails \/ EnterLoop
    <2>1. /\ connected' \in BOOLEAN /\ done' \in BOOLEAN
          /\ run' \in InSession \cup {"start", "dialing", "auth", "stopped"}
      BY <1>1, <1>3
         DEF Start, DialFails, AuthOk, SendBufferedFails, EnterLoop, InSession, clientVars
    <2> QED
      BY <1>0, <1>2, <1>3, <2>1
         DEF Start, DialFails, AuthOk, SendBufferedFails, EnterLoop, clientVars, runVars, netVars
  <1>4. CASE Dial
    <2>1. /\ dialled' \in 0 .. MaxConns /\ own' \in 0 .. MaxConns /\ conn' \in 0 .. MaxConns
          /\ up' \in {None, own'}
      BY <1>0, <1>4 DEF Dial
    <2> QED
      BY <1>0, <1>1, <1>2, <1>4, <2>1 DEF Dial
  <1>5. CASE LoopHead \/ ReadFails \/ Signal
    <2>1. flush' \in [msgs : Seq(Message), to : 0 .. MaxConns]
      BY <1>0, <1>5 DEF LoopHead, ReadFails, Signal
    <2> QED
      BY <1>0, <1>1, <1>2, <1>5, <2>1
         DEF LoopHead, ReadFails, SessionEnds, Signal, InSession, clientVars, runVars, netVars
  <1>6. CASE AuthFails \/ Disconnect \/ Close \/ Break
    <2>1. /\ up' \in {None, up} /\ wire' \in Seq(Message)
          /\ received' \in Seq(Message) /\ gone' \subseteq Message
      <3>1. CASE Break
        BY <1>1, <3>1, HangupTypes DEF Break
      <3>2. CASE AuthFails
        BY <1>0, <1>1, <3>2, CloseConnTypes DEF AuthFails
      <3>3. CASE Disconnect
        BY <1>0, <1>1, <3>3, CloseConnTypes DEF Disconnect
      <3>4. CASE Close
        BY <1>0, <1>1, <3>4, CloseConnTypes DEF Close, CloseClient
      <3> QED
        BY <1>6, <3>1, <3>2, <3>3, <3>4
    <2>2. own' = own /\ up' \in {None, own'} /\ connected' \in BOOLEAN /\ done' \in BOOLEAN
      BY <1>0, <1>1, <1>6, <2>1
         DEF AuthFails, Disconnect, Close, CloseClient, Break, clientVars, runVars
    <2> QED
      BY <1>0, <1>2, <1>6, <2>1, <2>2
         DEF AuthFails, Disconnect, Close, CloseClient, Break, clientVars, runVars
  <1>7. CASE SendBuffered \/ Receive \/ FlushWrite
    <2>1. ASSUME NEW q \in Seq(Message), q # <<>>
          PROVE  /\ Tail(q) \in Seq(Message) /\ Append(wire, Head(q)) \in Seq(Message)
                 /\ Append(received, Head(q)) \in Seq(Message)
      BY <1>0, <2>1
    <2>2. /\ wire' \in Seq(Message) /\ received' \in Seq(Message) /\ buffered' \in Seq(Message)
      BY <1>0, <1>7, <2>1 DEF SendBuffered, Receive, FlushWrite, Write, runVars
    <2>3. flush' \in [msgs : Seq(Message), to : 0 .. MaxConns]
      BY <1>0, <1>7, <2>1 DEF SendBuffered, Receive, FlushWrite
    <2> QED
      BY <1>0, <1>1, <1>2, <1>7, <2>2, <2>3
         DEF SendBuffered, Receive, FlushWrite, clientVars, runVars, netVars
  <1>8. CASE Drain \/ FlushDrain \/ FlushFails
    <2>1. /\ buffer' \in {buffer, <<>>} /\ buffered' \in {buffered, buffer}
          /\ flush' \in {flush, [flush EXCEPT !.msgs = buffer], [flush EXCEPT !.msgs = <<>>]}
      BY <1>8, Zenon DEF Drain, FlushDrain, FlushFails, DrainBuffer, runVars
    <2>4. /\ buffer' \in Seq(Message) /\ Len(buffer') <= Capacity /\ buffered' \in Seq(Message)
      <3>1. <<>> \in Seq(Message) /\ Len(<<>>) <= Capacity
        OBVIOUS
      <3> QED
        BY ONLY <1>0, <2>1, <3>1
    <2>2. flush' \in [msgs : Seq(Message), to : 0 .. MaxConns]
      <3>1. \A q \in Seq(Message) :
              [flush EXCEPT !.msgs = q] \in [msgs : Seq(Message), to : 0 .. MaxConns]
        BY <1>0
      <3>2. <<>> \in Seq(Message) /\ buffer \in Seq(Message)
        BY <1>0
      <3> QED
        BY <1>0, <2>1, <3>1, <3>2, Zenon
    <2>3. gone' \subseteq Message
      BY <1>0, <1>8 DEF Drain, FlushDrain, FlushFails, ToSet
    <2> QED
      BY <1>0, <1>1, <1>2, <1>8, <2>2, <2>3, <2>4
         DEF Drain, FlushDrain, FlushFails, InSession, clientVars, runVars, netVars
  <1>9. CASE PushBack
    <2>1. Head(buffered) \in Message /\ Tail(buffered) \in Seq(Message)
      BY <1>0, <1>9 DEF PushBack
    <2>2. buffer' \in Seq(Message) /\ Len(buffer') <= Capacity /\ gone' \subseteq Message
      BY <1>1, <1>9, <2>1, PushBufferTypes DEF PushBack
    <2> QED
      BY <1>0, <1>1, <1>2, <1>9, <2>1, <2>2 DEF PushBack, clientVars, netVars
  <1>10. CASE Command
    BY <1>0, <1>1, <1>2, <1>10, SenderTypes DEF Command, Sender, InSession, clientVars, netVars
  <1>11. ASSUME NEW s \in Sender, Send(s) \/ SendFails(s) PROVE ClientTypes'
    <2>1. CASE Send(s)
      BY <1>0, <1>1, <1>2, <2>1, SenderTypes DEF Send, clientVars, runVars, netVars
    <2>2. CASE SendFails(s)
      BY <1>0, <1>1, <1>2, <2>2, SenderTypes DEF SendFails, clientVars, runVars, netVars
    <2> QED
      BY <1>11, <2>1, <2>2
  <1>12. ASSUME NEW s \in Sender, SendWrites(s) PROVE ClientTypes'
    <2>1. sender[s] \in SendRecord /\ sender[s].msg \in Message
      BY <1>0, <1>12 DEF SendWrites, Resting, SendRecord
    <2>2. wire' \in Seq(Message)
      BY <1>0, <1>12, <2>1 DEF SendWrites, Write
    <2> QED
      BY <1>0, <1>1, <1>2, <1>12, <2>2, SenderTypes
         DEF SendWrites, Returns, InSession, clientVars
  <1>13. ASSUME NEW s \in Sender, SendPushes(s) PROVE ClientTypes'
    <2>1. sender[s] \in SendRecord /\ sender[s].msg \in Message
      BY <1>0, <1>13 DEF SendPushes, Resting, SendRecord
    <2>2. buffer' \in Seq(Message) /\ Len(buffer') <= Capacity /\ gone' \subseteq Message
      BY <1>1, <1>13, <2>1, PushBufferTypes DEF SendPushes
    <2> QED
      BY <1>0, <1>1, <1>2, <1>13, <2>2, SenderTypes
         DEF SendPushes, Returns, InSession, clientVars, netVars
  <1>14. CASE UNCHANGED vars
    BY <1>0, <1>1, <1>2, <1>14 DEF vars, clientVars, runVars, netVars
  <1> QED
    BY <1>3, <1>4, <1>5, <1>6, <1>7, <1>8, <1>9, <1>10, <1>11, <1>12, <1>13, <1>14
       DEF Next, Unbuffered

LEMMA SessionStep == SessionInv /\ [Next]_vars => SessionInv'
  <1> SUFFICES ASSUME SessionInv, [Next]_vars PROVE SessionInv'
    OBVIOUS
  <1> USE AgentClientAssumption
  <1>1. ClientTypes'
    BY TypesStep
  <1>2. sender \in [Sender -> {Resting} \cup SendRecord] /\ Runner \in Sender
    BY DEF SessionInv, ClientTypes, Sender
  <1>3. CASE \/ Start \/ DialFails \/ Dial \/ AuthFails \/ AuthOk \/ Drain \/ SendBuffered
             \/ SendBufferedFails \/ PushBack \/ EnterLoop \/ LoopHead \/ ReadFails
    <2>1. PlacesOfRun'
      BY <1>3 DEF Start, DialFails, Dial, AuthFails, AuthOk, Drain, SendBuffered,
                  SendBufferedFails, PushBack, EnterLoop, LoopHead, ReadFails, SessionEnds,
                  SessionInv, PlacesOfRun, clientVars
    <2>2. FlagFollowsSession'
      BY <1>3 DEF Start, DialFails, Dial, AuthFails, AuthOk, Drain, SendBuffered,
                  SendBufferedFails, PushBack, EnterLoop, LoopHead, ReadFails, SessionEnds,
                  SessionInv, PlacesOfRun, FlagFollowsSession, InSession, clientVars
    <2> QED
      BY <1>1, <2>1, <2>2 DEF SessionInv
  <1>4. CASE \/ Signal \/ FlushDrain \/ FlushWrite \/ FlushFails \/ Disconnect \/ Close
             \/ Receive \/ Break \/ UNCHANGED vars
    <2>1. main' \in {"serving", "draining"} => flush'.msgs = <<>>
      <3>1. CASE Signal
        <4>1. flush \in [msgs : Seq(Message), to : 0 .. MaxConns]
          BY DEF SessionInv, ClientTypes, TypeOK
        <4> QED
          BY <3>1, <4>1 DEF Signal, SessionInv, PlacesOfRun
      <3>2. CASE ~Signal
        BY <1>4, <3>2 DEF FlushDrain, FlushWrite, FlushFails, Disconnect, Close,
                          Receive, Break, SessionInv, PlacesOfRun, vars
      <3> QED
        BY <3>1, <3>2
    <2>2. /\ run' = run /\ buffered' = buffered /\ sender' = sender /\ own' = own
          /\ \/ conn' = conn /\ connected' = connected /\ done' = done
             \/ ~connected' /\ done'
      BY <1>4 DEF Signal, FlushDrain, FlushWrite, FlushFails, Disconnect, Close, CloseClient,
                  Receive, Break, vars, clientVars, runVars
    <2> QED
      BY <1>1, <2>1, <2>2 DEF SessionInv, PlacesOfRun, FlagFollowsSession
  <1>5. CASE Command
    <2>1. sender[Runner]' # Resting /\ run = "reading" /\ run' = "replying"
      BY <1>2, <1>5 DEF Command, Snapshot, Resting
    <2> QED
      BY <1>1, <1>5, <2>1
         DEF Command, SessionInv, PlacesOfRun, FlagFollowsSession, InSession, clientVars
  <1>6. ASSUME NEW s \in Sender, Send(s) \/ SendFails(s) PROVE SessionInv'
    <2>1. sender'[Runner] # Resting => sender[Runner] # Resting
      BY <1>2, <1>6 DEF Send, Snapshot, SendFails, Resting
    <2> QED
      BY <1>1, <1>6, <2>1
         DEF Send, SendFails, SessionInv, PlacesOfRun, FlagFollowsSession, clientVars, runVars
  <1>7. ASSUME NEW s \in Sender, SendWrites(s) \/ SendPushes(s) PROVE SessionInv'
    <2>1. /\ sender' = [sender EXCEPT ![s] = Resting] /\ sender[s] # Resting
          /\ run' = IF s = Runner THEN "looping" ELSE run
      BY <1>7 DEF SendWrites, SendPushes, Returns, Resting
    <2>2. /\ sender'[Runner] # Resting => sender[Runner] # Resting /\ s # Runner
          /\ s = Runner => run = "replying"
      BY <1>2, <2>1 DEF SessionInv, PlacesOfRun
    <2> QED
      BY <1>1, <1>7, <2>1, <2>2
         DEF SendWrites, SendPushes, SessionInv, PlacesOfRun, FlagFollowsSession, InSession,
             clientVars
  <1> QED
    BY <1>3, <1>4, <1>5, <1>6, <1>7 DEF Next, Unbuffered

-----------------------------------------------------------------------------
(* Counting: how often a message is in a sequence.                         *)

Sites(m, s) == {i \in 1 .. Len(s) : s[i] = m}

LEMMA TimesType ==
    ASSUME NEW s \in Seq(Message), NEW m
    PROVE  IsFiniteSet(Sites(m, s)) /\ Times(m, s) = Cardinality(Sites(m, s)) /\ Times(m, s) \in Nat
  <1>1. IsFiniteSet(1 .. Len(s)) /\ Sites(m, s) \in SUBSET (1 .. Len(s))
    BY FS_Interval DEF Sites
  <1>2. IsFiniteSet(Sites(m, s))
    BY <1>1, FS_Subset
  <1> QED
    BY <1>2, FS_CardinalityType DEF Times, Sites

LEMMA TimesConcat ==
    ASSUME NEW s \in Seq(Message), NEW t \in Seq(Message), NEW m
    PROVE  Times(m, s \o t) = Times(m, s) + Times(m, t)
  <1> DEFINE Moved == {i \in Len(s) + 1 .. Len(s) + Len(t) : t[i - Len(s)] = m}
             f == [i \in Sites(m, t) |-> i + Len(s)]
  <1>1. /\ s \o t \in Seq(Message) /\ Len(s \o t) = Len(s) + Len(t)
        /\ Len(s) \in Nat /\ Len(t) \in Nat
        /\ \A i \in 1 .. Len(s) + Len(t) :
             (s \o t)[i] = IF i <= Len(s) THEN s[i] ELSE t[i - Len(s)]
    BY ConcatProperties
  <1>2. Sites(m, s \o t) = Sites(m, s) \cup Moved /\ Sites(m, s) \cap Moved = {}
    BY <1>1 DEF Sites
  <1>3. f \in Bijection(Sites(m, t), Moved)
    <2>1. \A i \in Sites(m, t) : f[i] \in Moved
      BY <1>1 DEF Sites
    <2>2. \A i, j \in Sites(m, t) : f[i] = f[j] => i = j
      BY <1>1 DEF Sites
    <2>3. ASSUME NEW j \in Moved PROVE \E i \in Sites(m, t) : f[i] = j
      <3>1. j - Len(s) \in Sites(m, t) /\ (j - Len(s)) + Len(s) = j
        BY <1>1 DEF Sites
      <3> QED
        BY <3>1
    <2> QED
      BY <2>1, <2>2, <2>3 DEF Bijection, Injection, Surjection, IsInjective
  <1>4. ExistsBijection(Sites(m, t), Moved)
    BY <1>3 DEF ExistsBijection
  <1>5. IsFiniteSet(Moved) /\ Cardinality(Moved) = Times(m, t)
    BY <1>4, TimesType, FS_Bijection
  <1>6. Cardinality(Sites(m, s) \cup Moved) = Times(m, s) + Times(m, t)
    <2>1. /\ IsFiniteSet(Sites(m, s)) /\ Times(m, s) = Cardinality(Sites(m, s))
          /\ Times(m, s) \in Nat /\ Times(m, t) \in Nat
      BY TimesType
    <2>2. Cardinality(Sites(m, s) \cup Moved)
            = Cardinality(Sites(m, s)) + Cardinality(Moved) - Cardinality(Sites(m, s) \cap Moved)
      BY <1>5, <2>1, FS_Union
    <2>3. Cardinality(Sites(m, s) \cap Moved) = 0
      BY <1>2, FS_EmptySet
    <2> QED
      BY <1>5, <2>1, <2>2, <2>3
  <1> QED
    BY <1>1, <1>2, <1>6, TimesType

LEMMA TimesSmall ==
    ASSUME NEW m, NEW x \in Message
    PROVE  Times(m, <<>>) = 0 /\ Times(m, <<x>>) = IF x = m THEN 1 ELSE 0
  <1>1. Sites(m, <<>>) = {}
    BY DEF Sites
  <1>2. Sites(m, <<x>>) = IF x = m THEN {1} ELSE {}
    BY DEF Sites
  <1>3. <<>> \in Seq(Message) /\ <<x>> \in Seq(Message)
    OBVIOUS
  <1> QED
    BY <1>1, <1>2, <1>3, TimesType, FS_EmptySet, FS_Singleton

LEMMA TimesAppend ==
    ASSUME NEW s \in Seq(Message), NEW x \in Message, NEW m
    PROVE  Times(m, Append(s, x)) = Times(m, s) + (IF x = m THEN 1 ELSE 0)
  <1>1. Append(s, x) = s \o <<x>> /\ <<x>> \in Seq(Message)
    BY AppendIsConcat
  <1>2. Times(m, s \o <<x>>) = Times(m, s) + Times(m, <<x>>)
    BY <1>1, TimesConcat
  <1>3. Times(m, <<x>>) = IF x = m THEN 1 ELSE 0
    BY TimesSmall
  <1> QED
    BY <1>1, <1>2, <1>3

LEMMA TimesHeadTail ==
    ASSUME NEW s \in Seq(Message), s # <<>>, NEW m
    PROVE  Times(m, s) = (IF Head(s) = m THEN 1 ELSE 0) + Times(m, Tail(s))
  <1>1. /\ Head(s) \in Message /\ Tail(s) \in Seq(Message) /\ <<Head(s)>> \in Seq(Message)
        /\ s = <<Head(s)>> \o Tail(s)
    OBVIOUS
  <1>2. Times(m, <<Head(s)>> \o Tail(s)) = Times(m, <<Head(s)>>) + Times(m, Tail(s))
    BY <1>1, TimesConcat
  <1>3. Times(m, <<Head(s)>>) = IF Head(s) = m THEN 1 ELSE 0
    BY <1>1, TimesSmall
  <1> QED
    BY <1>1, <1>2, <1>3

LEMMA TimesSplit ==
    ASSUME NEW s \in Seq(Message), NEW k \in 0 .. Len(s), NEW m
    PROVE  Times(m, s) = Times(m, SubSeq(s, 1, k)) + Times(m, SubSeq(s, k + 1, Len(s)))
  <1>1. SubSeq(s, 1, k) \in Seq(Message) /\ SubSeq(s, k + 1, Len(s)) \in Seq(Message)
    OBVIOUS
  <1>2. SubSeq(s, 1, k) \o SubSeq(s, k + 1, Len(s)) = s
    <2>1. /\ Len(s) \in Nat /\ 1 \in 1 .. Len(s) + 1 /\ k \in 1 - 1 .. Len(s)
          /\ Len(s) \in k .. Len(s)
      OBVIOUS
    <2>2. SubSeq(s, 1, k) \o SubSeq(s, k + 1, Len(s)) = SubSeq(s, 1, Len(s))
      BY <2>1, ConcatAdjacentSubSeq
    <2> QED
      BY <2>2, SubSeqFull
  <1>3. Times(m, SubSeq(s, 1, k) \o SubSeq(s, k + 1, Len(s)))
          = Times(m, SubSeq(s, 1, k)) + Times(m, SubSeq(s, k + 1, Len(s)))
    BY <1>1, TimesConcat
  <1> QED
    BY <1>2, <1>3

LEMMA TimesMembers ==
    ASSUME NEW s \in Seq(Message), NEW m
    PROVE  m \in ToSet(s) <=> Times(m, s) # 0
  <1>1. m \in ToSet(s) <=> Sites(m, s) # {}
    BY DEF ToSet, Sites
  <1> QED
    BY <1>1, TimesType, FS_EmptySet

-----------------------------------------------------------------------------
(* Every message in one place.                                             *)

Holding(m) == {s \in Sender : sender[s].pc = "send" /\ sender[s].msg = m}
Gone(m) == IF m \in gone THEN 1 ELSE 0
Elsewhere(m) == Times(m, buffer) + Times(m, buffered) + Times(m, flush.msgs)
                + Times(m, wire) + Times(m, received) + Gone(m)

(* A message that was made is in one place, one that was not is in none.   *)
CountInv ==
    \A m \in Message :
        /\ IsFiniteSet(Holding(m))
        /\ Cardinality(Holding(m)) + Elsewhere(m) = IF m <= made THEN 1 ELSE 0

LEMMA CountsAreNumbers ==
    ASSUME TypeOK, NEW m \in Message
    PROVE  /\ Times(m, buffer) \in Nat /\ Times(m, buffered) \in Nat
           /\ Times(m, flush.msgs) \in Nat /\ Times(m, wire) \in Nat
           /\ Times(m, received) \in Nat /\ Gone(m) \in {0, 1}
  <1>1. /\ buffer \in Seq(Message) /\ buffered \in Seq(Message) /\ flush.msgs \in Seq(Message)
        /\ wire \in Seq(Message) /\ received \in Seq(Message)
    BY DEF TypeOK
  <1> QED
    BY <1>1, TimesType DEF Gone

LEMMA CountsStayNumbers ==
    ASSUME TypeOK', NEW m \in Message
    PROVE  /\ Times(m, buffer)' \in Nat /\ Times(m, buffered)' \in Nat
           /\ Times(m, flush.msgs)' \in Nat /\ Times(m, wire)' \in Nat
           /\ Times(m, received)' \in Nat /\ Gone(m)' \in {0, 1}
  <1>1. /\ buffer' \in Seq(Message) /\ buffered' \in Seq(Message) /\ flush'.msgs \in Seq(Message)
        /\ wire' \in Seq(Message) /\ received' \in Seq(Message)
    BY DEF TypeOK
  <1>2. /\ Times(m, buffer') \in Nat /\ Times(m, buffered') \in Nat
        /\ Times(m, flush'.msgs) \in Nat /\ Times(m, wire') \in Nat
        /\ Times(m, received') \in Nat
    BY <1>1, TimesType
  <1> QED
    BY <1>2 DEF Times, Gone

(* A head that is written or received goes from one sequence to the other. *)
LEMMA HeadMoves ==
    ASSUME NEW q \in Seq(Message), q # <<>>, NEW t \in Seq(Message), NEW m \in Message
    PROVE  Times(m, Tail(q)) + Times(m, Append(t, Head(q))) = Times(m, q) + Times(m, t)
  <1>1. Head(q) \in Message /\ Tail(q) \in Seq(Message)
    OBVIOUS
  <1>2. PICK x \in Nat, y \in Nat : x = Times(m, Tail(q)) /\ y = Times(m, t)
    BY <1>1, TimesType
  <1>3. Times(m, q) = (IF Head(q) = m THEN 1 ELSE 0) + x
    BY <1>2, TimesHeadTail
  <1>4. Times(m, Append(t, Head(q))) = y + (IF Head(q) = m THEN 1 ELSE 0)
    BY <1>1, <1>2, TimesAppend
  <1>5. x + (y + (IF Head(q) = m THEN 1 ELSE 0)) = ((IF Head(q) = m THEN 1 ELSE 0) + x) + y
    BY ONLY TRUE
  <1> QED
    BY ONLY <1>2, <1>3, <1>4, <1>5

LEMMA HangupCounts ==
    ASSUME TypeOK, Hangup, NEW m \in Message, Times(m, wire) + Gone(m) <= 1
    PROVE  Times(m, wire)' + Times(m, received)' + Gone(m)'
             = Times(m, wire) + Times(m, received) + Gone(m)
  <1>1. PICK k \in 0 .. Len(wire) :
          /\ wire' = <<>> /\ received' = received \o SubSeq(wire, 1, k)
          /\ gone' = gone \cup ToSet(SubSeq(wire, k + 1, Len(wire)))
    BY DEF Hangup
  <1> DEFINE a == SubSeq(wire, 1, k)
             b == SubSeq(wire, k + 1, Len(wire))
  <1>2. wire \in Seq(Message) /\ received \in Seq(Message)
    BY DEF TypeOK
  <1>3. a \in Seq(Message) /\ b \in Seq(Message)
    BY <1>2
  <1>4. Times(m, wire) = Times(m, a) + Times(m, b)
    BY <1>2, TimesSplit
  <1>5. Times(m, received \o a) = Times(m, received) + Times(m, a)
    BY <1>2, <1>3, TimesConcat
  <1>6. Times(m, a) \in Nat /\ Times(m, b) \in Nat /\ Times(m, received) \in Nat
    BY <1>2, <1>3, TimesType
  <1>7. m \in ToSet(b) <=> Times(m, b) # 0
    BY <1>3, TimesMembers
  <1>8. Times(m, wire)' = 0 /\ Times(m, received)' = Times(m, received \o a)
    <2>1. Times(m, wire') = 0 /\ Times(m, received') = Times(m, received \o a)
      BY <1>1, TimesSmall
    <2> QED
      BY <2>1 DEF Times
  <1>9. Gone(m)' = IF Times(m, b) # 0 THEN 1 ELSE Gone(m)
    BY <1>1, <1>7 DEF Gone
  <1> HIDE DEF a, b
  <1>10. Gone(m) \in {0, 1}
    BY DEF Gone
  <1> QED
    BY <1>4, <1>5, <1>6, <1>8, <1>9, <1>10

LEMMA CloseConnCounts ==
    ASSUME TypeOK, NEW c, CloseConn(c), NEW m \in Message, Times(m, wire) + Gone(m) <= 1
    PROVE  Times(m, wire)' + Times(m, received)' + Gone(m)'
             = Times(m, wire) + Times(m, received) + Gone(m)
  <1>1. CASE c # None /\ c = up
    BY <1>1, HangupCounts DEF CloseConn
  <1>2. CASE ~(c # None /\ c = up)
    BY <1>2 DEF CloseConn, netVars, Times, Gone
  <1> QED
    BY <1>1, <1>2

LEMMA PushCounts ==
    ASSUME TypeOK, NEW x \in Message, PushBuffer(x), NEW m \in Message,
           Times(m, buffer) + Gone(m) <= 1
    PROVE  Times(m, buffer)' + Gone(m)'
             = Times(m, buffer) + Gone(m) + (IF x = m THEN 1 ELSE 0)
  <1> USE AgentClientAssumption
  <1>1. buffer \in Seq(Message) /\ Times(m, buffer) \in Nat /\ Gone(m) \in {0, 1}
    BY CountsAreNumbers DEF TypeOK
  <1>2. CASE Len(buffer) < Capacity
    <2>1. buffer' = Append(buffer, x) /\ gone' = gone
      BY <1>2 DEF PushBuffer, Ring!Kept
    <2>2. Times(m, buffer') = Times(m, buffer) + (IF x = m THEN 1 ELSE 0)
      BY <1>1, <2>1, TimesAppend
    <2> QED
      <3>1. Times(m, buffer)' = Times(m, buffer')
        BY DEF Times
      <3>2. Gone(m)' = Gone(m)
        BY <2>1 DEF Gone
      <3> QED
        BY <1>1, <2>2, <3>1, <3>2
  <1>3. CASE ~(Len(buffer) < Capacity)
    <2>1. buffer # <<>>
      BY <1>1, <1>3
    <2>2. buffer' = Append(Tail(buffer), x) /\ gone' = gone \cup {Head(buffer)}
      BY <1>3 DEF PushBuffer, Ring!Kept
    <2>8. Tail(buffer) \in Seq(Message)
      BY <1>1, <2>1
    <2>3. Tail(buffer) \in Seq(Message) /\ Times(m, Tail(buffer)) \in Nat
      BY <2>8, TimesType
    <2>4. Times(m, buffer') = Times(m, Tail(buffer)) + (IF x = m THEN 1 ELSE 0)
      BY <2>2, <2>3, TimesAppend
    <2>5. Times(m, buffer) = (IF Head(buffer) = m THEN 1 ELSE 0) + Times(m, Tail(buffer))
      BY <1>1, <2>1, TimesHeadTail
    <2>6. Gone(m)' = IF Head(buffer) = m THEN 1 ELSE Gone(m)
      BY <2>2 DEF Gone
    <2>7. Times(m, buffer)' = Times(m, buffer')
      BY DEF Times
    <2> QED
      BY <1>1, <2>3, <2>4, <2>5, <2>6, <2>7
  <1> QED
    BY <1>2, <1>3

(* What the records of the senders count.                                  *)
LEMMA HoldingSteps ==
    ASSUME ClientTypes, NEW m \in Message, IsFiniteSet(Holding(m)), NEW s \in Sender
    PROVE  /\ Cardinality(Holding(m)) \in Nat
           /\ Snapshot(s) =>
                /\ IsFiniteSet(Holding(m)')
                /\ Cardinality(Holding(m))'
                     = Cardinality(Holding(m)) + (IF m = made + 1 THEN 1 ELSE 0)
           /\ sender[s].pc = "send" /\ sender' = [sender EXCEPT ![s] = Resting] =>
                /\ IsFiniteSet(Holding(m)')
                /\ Cardinality(Holding(m))'
                     = Cardinality(Holding(m)) - (IF sender[s].msg = m THEN 1 ELSE 0)
           /\ SendFails(s) => Holding(m)' = Holding(m)
  <1>1. sender \in [Sender -> {Resting} \cup SendRecord]
    BY DEF ClientTypes
  <1>2. Cardinality(Holding(m)) \in Nat
    BY FS_CardinalityType
  <1>3. ASSUME Snapshot(s)
        PROVE  /\ IsFiniteSet(Holding(m)')
               /\ Cardinality(Holding(m)')
                    = Cardinality(Holding(m)) + (IF m = made + 1 THEN 1 ELSE 0)
    <2>1. s \notin Holding(m)
      BY <1>3 DEF Snapshot, Holding, Resting
    <2>2. Holding(m)' = IF m = made + 1 THEN Holding(m) \cup {s} ELSE Holding(m)
      BY <1>1, <1>3 DEF Snapshot, Holding, Resting
    <2> QED
      <3>1. CASE m = made + 1
        <4>1. Holding(m)' = Holding(m) \cup {s}
          BY <2>2, <3>1
        <4>2. /\ IsFiniteSet(Holding(m) \cup {s})
              /\ Cardinality(Holding(m) \cup {s}) = Cardinality(Holding(m)) + 1
          BY <2>1, FS_AddElement
        <4> QED
          BY <3>1, <4>1, <4>2
      <3>2. CASE m # made + 1
        BY <1>2, <2>2, <3>2
      <3> QED
        BY <3>1, <3>2
  <1>4. ASSUME sender[s].pc = "send", sender' = [sender EXCEPT ![s] = Resting]
        PROVE  /\ IsFiniteSet(Holding(m)')
               /\ Cardinality(Holding(m)')
                    = Cardinality(Holding(m)) - (IF sender[s].msg = m THEN 1 ELSE 0)
    <2>1. sender[s].msg = m <=> s \in Holding(m)
      BY <1>4 DEF Holding
    <2>2. Holding(m)' = Holding(m) \ {s}
      BY <1>1, <1>4 DEF Holding, Resting
    <2> QED
      BY <1>2, <2>1, <2>2, FS_RemoveElement
  <1>5. ASSUME SendFails(s) PROVE Holding(m)' = Holding(m)
    <2>1. sender' = [sender EXCEPT ![s] = [sender[s] EXCEPT !.to = None]]
      BY <1>5 DEF SendFails
    <2>2. sender[s] \in SendRecord
      BY <1>1, <1>5 DEF SendFails, Resting
    <2>3. /\ [sender[s] EXCEPT !.to = None].pc = sender[s].pc
          /\ [sender[s] EXCEPT !.to = None].msg = sender[s].msg
      BY <2>2 DEF SendRecord
    <2>4. \A t \in Sender : sender'[t].pc = sender[t].pc /\ sender'[t].msg = sender[t].msg
      BY <1>1, <2>1, <2>3
    <2> QED
      BY <2>4 DEF Holding
  <1> QED
    BY <1>2, <1>3, <1>4, <1>5

LEMMA CountInitially == Init => CountInv
  <1> SUFFICES ASSUME Init, NEW m \in Message
               PROVE  /\ IsFiniteSet(Holding(m))
                      /\ Cardinality(Holding(m)) + Elsewhere(m) = IF m <= made THEN 1 ELSE 0
    BY DEF CountInv
  <1>1. Holding(m) = {}
    BY DEF Init, Holding, Resting
  <1>2. Elsewhere(m) = 0
    <2>1. /\ buffer = <<>> /\ buffered = <<>> /\ flush.msgs = <<>> /\ wire = <<>>
          /\ received = <<>> /\ gone = {}
      BY DEF Init
    <2>2. Times(m, <<>>) = 0
      BY TimesSmall
    <2> QED
      BY <2>1, <2>2 DEF Elsewhere, Gone
  <1>3. ~(m <= made)
    BY AgentClientAssumption DEF Init, Message
  <1> QED
    BY <1>1, <1>2, <1>3, FS_EmptySet

(* No step makes an infinite number of goroutines hold a message.           *)
LEMMA HoldingStaysFinite ==
    ASSUME SessionInv, [Next]_vars, NEW m \in Message, IsFiniteSet(Holding(m))
    PROVE  IsFiniteSet(Holding(m)')
  <1>1. ClientTypes /\ Runner \in Sender
    BY DEF SessionInv, Sender
  <1>2. sender' = sender => Holding(m)' = Holding(m)
    BY DEF Holding
  <1>3. CASE sender' = sender
    BY <1>2, <1>3
  <1>4. CASE Command
    BY <1>1, <1>4, HoldingSteps DEF Command
  <1>5. ASSUME NEW s \in Sender, Send(s) \/ SendFails(s) \/ SendWrites(s) \/ SendPushes(s)
        PROVE  IsFiniteSet(Holding(m)')
    BY <1>1, <1>5, HoldingSteps DEF Send, SendWrites, SendPushes, Returns
  <1> QED
    BY <1>3, <1>4, <1>5
       DEF Next, Unbuffered, Start, DialFails, Dial, AuthFails, AuthOk, Drain, SendBuffered,
           SendBufferedFails, PushBack, EnterLoop, LoopHead, ReadFails, Signal, FlushDrain,
           FlushWrite, FlushFails, Disconnect, Close, Receive, Break, vars

LEMMA CountStep == SessionInv /\ CountInv /\ [Next]_vars => CountInv'
  <1> SUFFICES ASSUME SessionInv, CountInv, [Next]_vars, NEW m \in Message
               PROVE  /\ IsFiniteSet(Holding(m)')
                      /\ Cardinality(Holding(m)') + Elsewhere(m)' = IF m <= made' THEN 1 ELSE 0
    BY DEF CountInv
  <1>1. /\ ClientTypes /\ TypeOK /\ PlacesOfRun /\ IsFiniteSet(Holding(m))
        /\ m \in Nat /\ made \in Nat /\ Runner \in Sender
        /\ Cardinality(Holding(m)) + Elsewhere(m) = IF m <= made THEN 1 ELSE 0
    BY AgentClientAssumption
       DEF SessionInv, ClientTypes, TypeOK, CountInv, Message, Sender
  <1>2. ClientTypes' /\ TypeOK' /\ made' \in Nat
    BY TypesStep, AgentClientAssumption DEF ClientTypes, TypeOK
  <1>3. IsFiniteSet(Holding(m)')
    BY <1>1, HoldingStaysFinite
  <1>4. PICK h \in Nat, b \in Nat, d \in Nat, f \in Nat, w \in Nat, r \in Nat, g \in {0, 1} :
          /\ h = Cardinality(Holding(m)) /\ b = Times(m, buffer) /\ d = Times(m, buffered)
          /\ f = Times(m, flush.msgs) /\ w = Times(m, wire) /\ r = Times(m, received)
          /\ g = Gone(m)
    BY <1>1, CountsAreNumbers, FS_CardinalityType
  <1>5. PICK hh \in Nat, bb \in Nat, dd \in Nat, ff \in Nat, ww \in Nat, rr \in Nat,
             gg \in {0, 1} :
          /\ hh = Cardinality(Holding(m)') /\ bb = Times(m, buffer)' /\ dd = Times(m, buffered)'
          /\ ff = Times(m, flush.msgs)' /\ ww = Times(m, wire)' /\ rr = Times(m, received)'
          /\ gg = Gone(m)'
    BY <1>2, <1>3, CountsStayNumbers, FS_CardinalityType
  <1>6. /\ Times(m, buffer)' = Times(m, buffer') /\ Times(m, buffered)' = Times(m, buffered')
        /\ Times(m, flush.msgs)' = Times(m, flush'.msgs) /\ Times(m, wire)' = Times(m, wire')
        /\ Times(m, received)' = Times(m, received') /\ Times(m, <<>>) = 0
    BY TimesSmall DEF Times
  <1>7. h + b + d + f + w + r + g = IF m <= made THEN 1 ELSE 0
    <2>1. h + (b + d + f + w + r + g) = IF m <= made THEN 1 ELSE 0
      BY <1>1, <1>4 DEF Elsewhere
    <2> QED
      BY ONLY <2>1
  <1>8. b + g <= 1 /\ w + g <= 1
    BY ONLY <1>7
  <1>9. ASSUME hh + bb + dd + ff + ww + rr + gg = IF m <= made' THEN 1 ELSE 0
        PROVE  Cardinality(Holding(m)') + Elsewhere(m)' = IF m <= made' THEN 1 ELSE 0
    <2>1. hh + (bb + dd + ff + ww + rr + gg) = IF m <= made' THEN 1 ELSE 0
      BY ONLY <1>9
    <2> QED
      BY <1>5, <2>1 DEF Elsewhere
  <1>10. /\ sender' = sender => hh = h
         /\ buffer' = buffer => bb = b
         /\ buffered' = buffered => dd = d
         /\ flush'.msgs = flush.msgs => ff = f
         /\ wire' = wire => ww = w
         /\ received' = received => rr = r
         /\ gone' = gone => gg = g
    BY <1>4, <1>5 DEF Holding, Times, Gone
  <1>11. CASE \/ Start \/ DialFails \/ Dial \/ AuthOk \/ SendBufferedFails \/ EnterLoop
              \/ LoopHead \/ ReadFails \/ Signal \/ UNCHANGED vars
    <2>1. flush'.msgs = flush.msgs
      <3>1. flush \in [msgs : Seq(Message), to : 0 .. MaxConns]
        BY <1>1 DEF TypeOK
      <3> QED
        BY <1>11, <3>1 DEF Start, DialFails, Dial, AuthOk, SendBufferedFails, EnterLoop,
                           LoopHead, ReadFails, Signal, vars
    <2>2. /\ sender' = sender /\ buffer' = buffer /\ buffered' = buffered /\ wire' = wire
          /\ received' = received /\ gone' = gone /\ made' = made
      BY <1>11 DEF Start, DialFails, Dial, AuthOk, SendBufferedFails, EnterLoop,
                   LoopHead, ReadFails, Signal, vars, runVars, netVars
    <2> QED
      BY <1>3, <1>7, <1>9, <1>10, <2>1, <2>2
  <1>12. CASE AuthFails \/ Disconnect \/ Close \/ Break
    <2>1. ww + rr + gg = w + r + g
      <3>1. Times(m, wire) + Gone(m) <= 1
        BY ONLY <1>4, <1>8
      <3>2. Times(m, wire)' + Times(m, received)' + Gone(m)'
              = Times(m, wire) + Times(m, received) + Gone(m)
        BY <1>1, <1>12, <3>1, HangupCounts, CloseConnCounts
           DEF AuthFails, Disconnect, Close, CloseClient, Break
      <3> QED
        BY ONLY <1>4, <1>5, <3>2
    <2>2. /\ sender' = sender /\ buffer' = buffer /\ buffered' = buffered /\ flush' = flush
          /\ made' = made
      BY <1>12 DEF AuthFails, Disconnect, Close, Break, runVars
    <2>3. hh = h /\ bb = b /\ dd = d /\ ff = f
      BY ONLY <1>10, <2>2
    <2>4. hh + bb + dd + ff + ww + rr + gg = h + b + d + f + w + r + g
      BY ONLY <2>1, <2>3
    <2> QED
      BY <1>3, <1>7, <1>9, <2>2, <2>4
  <1>13. CASE Drain \/ FlushDrain
    <2>1. bb = 0
      BY <1>5, <1>13, <1>6 DEF Drain, FlushDrain, DrainBuffer
    <2>2. CASE Drain
      <3>1. buffered = <<>> /\ buffered' = buffer
        BY <1>1, <2>2 DEF Drain, PlacesOfRun
      <3>2. d = 0 /\ dd = b
        BY <1>4, <1>5, <3>1, <1>6
      <3>3. /\ sender' = sender /\ flush' = flush /\ wire' = wire /\ received' = received
            /\ gone' = gone /\ made' = made
        BY <2>2 DEF Drain, netVars
      <3>4. hh = h /\ ff = f /\ ww = w /\ rr = r /\ gg = g
        BY ONLY <1>10, <3>3
      <3> QED
        BY <1>3, <1>7, <1>9, <2>1, <3>2, <3>3, <3>4
    <2>3. CASE FlushDrain
      <3>1. flush.msgs = <<>> /\ flush'.msgs = buffer
        BY <1>1, <2>3 DEF FlushDrain, PlacesOfRun, TypeOK
      <3>2. f = 0 /\ ff = b
        BY <1>4, <1>5, <3>1, <1>6
      <3>3. /\ sender' = sender /\ buffered' = buffered /\ wire' = wire /\ received' = received
            /\ gone' = gone /\ made' = made
        BY <2>3 DEF FlushDrain, runVars, netVars
      <3>4. hh = h /\ dd = d /\ ww = w /\ rr = r /\ gg = g
        BY ONLY <1>10, <3>3
      <3> QED
        BY <1>3, <1>7, <1>9, <2>1, <3>2, <3>3, <3>4
    <2> QED
      BY <1>13, <2>2, <2>3
  <1>14. CASE SendBuffered
    <2>1. /\ buffered \in Seq(Message) /\ buffered # <<>> /\ wire \in Seq(Message)
          /\ buffered' = Tail(buffered) /\ wire' = Append(wire, Head(buffered))
      BY <1>1, <1>14 DEF SendBuffered, Write, TypeOK
    <2>2. dd + ww = d + w
      BY <1>4, <1>5, <2>1, <1>6, HeadMoves
    <2>3. /\ sender' = sender /\ buffer' = buffer /\ flush' = flush /\ received' = received
          /\ gone' = gone /\ made' = made
      BY <1>14 DEF SendBuffered
    <2>4. hh = h /\ bb = b /\ ff = f /\ rr = r /\ gg = g
      BY ONLY <1>10, <2>3
    <2>5. hh + bb + dd + ff + ww + rr + gg = h + b + d + f + w + r + g
      BY ONLY <2>2, <2>4
    <2> QED
      BY <1>3, <1>7, <1>9, <2>3, <2>5
  <1>15. CASE FlushWrite
    <2>1. /\ flush.msgs \in Seq(Message) /\ flush.msgs # <<>> /\ wire \in Seq(Message)
          /\ flush'.msgs = Tail(flush.msgs) /\ wire' = Append(wire, Head(flush.msgs))
      BY <1>1, <1>15 DEF FlushWrite, Write, TypeOK
    <2>2. ff + ww = f + w
      BY <1>4, <1>5, <2>1, <1>6, HeadMoves
    <2>3. /\ sender' = sender /\ buffer' = buffer /\ buffered' = buffered /\ received' = received
          /\ gone' = gone /\ made' = made
      BY <1>15 DEF FlushWrite, runVars
    <2>4. hh = h /\ bb = b /\ dd = d /\ rr = r /\ gg = g
      BY ONLY <1>10, <2>3
    <2>5. hh + bb + dd + ff + ww + rr + gg = h + b + d + f + w + r + g
      BY ONLY <2>2, <2>4
    <2> QED
      BY <1>3, <1>7, <1>9, <2>3, <2>5
  <1>16. CASE Receive
    <2>1. /\ wire \in Seq(Message) /\ wire # <<>> /\ received \in Seq(Message)
          /\ wire' = Tail(wire) /\ received' = Append(received, Head(wire))
      BY <1>1, <1>16 DEF Receive, TypeOK
    <2>2. ww + rr = w + r
      BY <1>4, <1>5, <2>1, <1>6, HeadMoves
    <2>3. /\ sender' = sender /\ buffer' = buffer /\ buffered' = buffered /\ flush' = flush
          /\ gone' = gone /\ made' = made
      BY <1>16 DEF Receive, runVars
    <2>4. hh = h /\ bb = b /\ dd = d /\ ff = f /\ gg = g
      BY ONLY <1>10, <2>3
    <2>5. hh + bb + dd + ff + ww + rr + gg = h + b + d + f + w + r + g
      BY ONLY <2>2, <2>4
    <2> QED
      BY <1>3, <1>7, <1>9, <2>3, <2>5
  <1>17. CASE FlushFails
    <2>1. /\ flush.msgs \in Seq(Message) /\ flush'.msgs = <<>>
          /\ gone' = gone \cup ToSet(flush.msgs)
      BY <1>1, <1>17 DEF FlushFails, TypeOK
    <2>2. ff = 0
      BY <1>5, <2>1, <1>6
    <2>3. gg = IF f # 0 THEN 1 ELSE g
      BY <1>4, <1>5, <2>1, TimesMembers DEF Gone
    <2>4. /\ sender' = sender /\ buffer' = buffer /\ buffered' = buffered /\ wire' = wire
          /\ received' = received /\ made' = made
      BY <1>17 DEF FlushFails, runVars, netVars
    <2>5. hh = h /\ bb = b /\ dd = d /\ ww = w /\ rr = r
      BY ONLY <1>10, <2>4
    <2>6. hh + bb + dd + ff + ww + rr + gg = h + b + d + f + w + r + g
      BY ONLY <1>7, <2>2, <2>3, <2>5
    <2> QED
      BY <1>3, <1>7, <1>9, <2>4, <2>6
  <1>18. CASE PushBack
    <2>1. /\ buffered \in Seq(Message) /\ buffered # <<>> /\ Head(buffered) \in Message
          /\ buffered' = Tail(buffered) /\ PushBuffer(Head(buffered))
      BY <1>1, <1>18 DEF PushBack, TypeOK
    <2>2. d = (IF Head(buffered) = m THEN 1 ELSE 0) + dd
      BY <1>4, <1>5, <2>1, <1>6, TimesHeadTail
    <2>3. bb + gg = b + g + (IF Head(buffered) = m THEN 1 ELSE 0)
      <3>1. Times(m, buffer) + Gone(m) <= 1
        BY ONLY <1>4, <1>8
      <3>2. Times(m, buffer)' + Gone(m)'
              = Times(m, buffer) + Gone(m) + (IF Head(buffered) = m THEN 1 ELSE 0)
        BY <1>1, <2>1, <3>1, PushCounts
      <3> QED
        BY ONLY <1>4, <1>5, <3>2
    <2>4. /\ sender' = sender /\ flush' = flush /\ wire' = wire /\ received' = received
          /\ made' = made
      BY <1>18 DEF PushBack, netVars
    <2>5. hh = h /\ ff = f /\ ww = w /\ rr = r
      BY ONLY <1>10, <2>4
    <2>6. hh + bb + dd + ff + ww + rr + gg = h + b + d + f + w + r + g
      BY ONLY <2>2, <2>3, <2>5
    <2> QED
      BY <1>3, <1>7, <1>9, <2>4, <2>6
  <1>19. ASSUME NEW s \in Sender, Snapshot(s), UNCHANGED <<buffer, buffered, flush, netVars, gone>>
         PROVE  /\ IsFiniteSet(Holding(m)')
                /\ Cardinality(Holding(m)') + Elsewhere(m)' = IF m <= made' THEN 1 ELSE 0
    <2>1. hh = h + (IF m = made + 1 THEN 1 ELSE 0)
      BY <1>1, <1>4, <1>5, <1>19, HoldingSteps
    <2>2. bb = b /\ dd = d /\ ff = f /\ ww = w /\ rr = r /\ gg = g
      BY ONLY <1>10, <1>19 DEF netVars
    <2>3. made' = made + 1
      BY <1>19 DEF Snapshot
    <2>4. hh + bb + dd + ff + ww + rr + gg = IF m <= made + 1 THEN 1 ELSE 0
      BY ONLY <1>1, <1>7, <2>1, <2>2
    <2> QED
      BY <1>3, <1>9, <2>3, <2>4
  <1>20. ASSUME NEW s \in Sender, SendFails(s)
         PROVE  /\ IsFiniteSet(Holding(m)')
                /\ Cardinality(Holding(m)') + Elsewhere(m)' = IF m <= made' THEN 1 ELSE 0
    <2>1. hh = h
      BY <1>1, <1>4, <1>5, <1>20, HoldingSteps
    <2>2. bb = b /\ dd = d /\ ff = f /\ ww = w /\ rr = r /\ gg = g /\ made' = made
      BY <1>10, <1>20 DEF SendFails, runVars, netVars
    <2> QED
      BY <1>3, <1>7, <1>9, <2>1, <2>2
  <1>21. ASSUME NEW s \in Sender, SendWrites(s) \/ SendPushes(s)
         PROVE  /\ IsFiniteSet(Holding(m)')
                /\ Cardinality(Holding(m)') + Elsewhere(m)' = IF m <= made' THEN 1 ELSE 0
    <2>1. /\ sender[s].pc = "send" /\ sender' = [sender EXCEPT ![s] = Resting]
          /\ sender[s].msg \in Message
      BY <1>1, <1>21 DEF SendWrites, SendPushes, Returns, ClientTypes, Resting, SendRecord
    <2>2. hh = h - (IF sender[s].msg = m THEN 1 ELSE 0)
      BY <1>1, <1>4, <1>5, <2>1, HoldingSteps
    <2>3. CASE SendWrites(s)
      <3>1. wire \in Seq(Message) /\ wire' = Append(wire, sender[s].msg)
        BY <1>1, <2>3 DEF SendWrites, Write, TypeOK
      <3>2. ww = w + (IF sender[s].msg = m THEN 1 ELSE 0)
        BY <1>4, <1>5, <2>1, <3>1, <1>6, TimesAppend
      <3>3. bb = b /\ dd = d /\ ff = f /\ rr = r /\ gg = g /\ made' = made
        BY <1>10, <2>3 DEF SendWrites
      <3>4. hh + bb + dd + ff + ww + rr + gg = h + b + d + f + w + r + g
        BY ONLY <2>2, <3>2, <3>3
      <3> QED
        BY <1>3, <1>7, <1>9, <3>3, <3>4
    <2>4. CASE SendPushes(s)
      <3>1. bb + gg = b + g + (IF sender[s].msg = m THEN 1 ELSE 0)
        <4>1. Times(m, buffer) + Gone(m) <= 1
          BY ONLY <1>4, <1>8
        <4>2. Times(m, buffer)' + Gone(m)'
                = Times(m, buffer) + Gone(m) + (IF sender[s].msg = m THEN 1 ELSE 0)
          BY <1>1, <2>1, <2>4, <4>1, PushCounts DEF SendPushes
        <4> QED
          BY ONLY <1>4, <1>5, <4>2
      <3>2. dd = d /\ ff = f /\ ww = w /\ rr = r /\ made' = made
        BY <1>10, <2>4 DEF SendPushes, netVars
      <3>3. hh + bb + dd + ff + ww + rr + gg = h + b + d + f + w + r + g
        BY ONLY <2>2, <3>1, <3>2
      <3> QED
        BY <1>3, <1>7, <1>9, <3>2, <3>3
    <2> QED
      BY <1>21, <2>3, <2>4
  <1>22. CASE Command
    BY <1>1, <1>19, <1>22 DEF Command
  <1>23. ASSUME NEW s \in Sender, Send(s)
         PROVE  /\ IsFiniteSet(Holding(m)')
                /\ Cardinality(Holding(m)') + Elsewhere(m)' = IF m <= made' THEN 1 ELSE 0
    BY <1>19, <1>23 DEF Send, runVars
  <1> QED
    BY <1>11, <1>12, <1>13, <1>14, <1>15, <1>16, <1>17, <1>18, <1>20, <1>21, <1>22, <1>23
       DEF Next, Unbuffered

LEMMA CountedIsOnePlace == SessionInv /\ CountInv => OnePlace
  <1> SUFFICES ASSUME SessionInv, CountInv, NEW m \in 1 .. made
               PROVE  Cardinality(Holding(m)) + Times(m, buffer) + Times(m, buffered)
                      + Times(m, flush.msgs) + Times(m, wire) + Times(m, received) + Gone(m) = 1
    BY DEF OnePlace, Holding, Gone
  <1>1. TypeOK /\ m \in Message /\ m <= made
    BY AgentClientAssumption DEF SessionInv, ClientTypes, TypeOK, Message
  <1>2. PICK h \in Nat, b \in Nat, d \in Nat, f \in Nat, w \in Nat, r \in Nat, g \in {0, 1} :
          /\ h = Cardinality(Holding(m)) /\ b = Times(m, buffer) /\ d = Times(m, buffered)
          /\ f = Times(m, flush.msgs) /\ w = Times(m, wire) /\ r = Times(m, received)
          /\ g = Gone(m)
    BY <1>1, CountsAreNumbers, FS_CardinalityType DEF CountInv
  <1>3. h + (b + d + f + w + r + g) = 1
    BY <1>1, <1>2 DEF CountInv, Elsewhere
  <1>4. h + b + d + f + w + r + g = 1
    BY ONLY <1>3
  <1> QED
    BY ONLY <1>2, <1>4

-----------------------------------------------------------------------------
(* The client with the ring in it.                                         *)

RingInv == RingTypeOK /\ buffer = Contents

(* A step of the two is a step, or a stutter, of each.                     *)
LEMMA StepsOfBoth ==
    SessionInv /\ [ClientNext]_<<vars, ringVars>> => [Next]_vars /\ [RingNext]_ringVars
  <1> SUFFICES ASSUME SessionInv, [ClientNext]_<<vars, ringVars>>
               PROVE  [Next]_vars /\ [RingNext]_ringVars
    OBVIOUS
  <1>1. CASE Unbuffered /\ UNCHANGED ringVars
    BY <1>1 DEF Next
  <1>2. CASE (Drain \/ FlushDrain) /\ DrainAll
    BY <1>2 DEF Next, RingNext
  <1>3. CASE PushBack /\ Push(Head(buffered))
    <2>1. Head(buffered) \in Item
      BY <1>3, BufferedClientAssumption DEF PushBack, SessionInv, ClientTypes, TypeOK
    <2> QED
      BY <1>3, <2>1 DEF Next, RingNext
  <1>4. ASSUME NEW s \in Sender, SendPushes(s), Push(sender[s].msg)
        PROVE  [Next]_vars /\ [RingNext]_ringVars
    <2>1. sender[s].msg \in Item
      BY <1>4, BufferedClientAssumption
         DEF SendPushes, SessionInv, ClientTypes, Resting, SendRecord
    <2> QED
      BY <1>4, <2>1 DEF Next, RingNext
  <1>5. CASE UNCHANGED <<vars, ringVars>>
    BY <1>5
  <1> QED
    BY <1>1, <1>2, <1>3, <1>4, <1>5 DEF ClientNext

LEMMA RingFollowsBuffer ==
    SessionInv /\ RingInv /\ [ClientNext]_<<vars, ringVars>> => RingInv'
  <1> SUFFICES ASSUME SessionInv, RingInv, [ClientNext]_<<vars, ringVars>> PROVE RingInv'
    OBVIOUS
  <1>1. RingTypeOK'
    BY StepsOfBoth, TypeStep DEF RingInv
  <1>2. ASSUME NEW data \in Item, Push(data), buffer' = Ring!Kept(buffer, data)
        PROVE  buffer' = Contents'
    <2>1. Contents' = Queue!Kept(Contents, data)
      BY <1>2, PushImplements DEF RingInv, Queue!Push
    <2> QED
      BY <1>2, <2>1, BufferedClientAssumption DEF RingInv, Queue!Kept, Ring!Kept
  <1>3. CASE Unbuffered /\ UNCHANGED ringVars
    <2>1. buffer' = buffer
      BY <1>3 DEF Unbuffered, Start, DialFails, Dial, AuthFails, AuthOk, SendBuffered,
                  SendBufferedFails, EnterLoop, LoopHead, ReadFails, Command, Send, SendWrites,
                  SendFails, Signal, FlushWrite, FlushFails, Disconnect, Close, Receive, Break
    <2>2. Contents' = Contents
      BY <1>3 DEF ringVars, Contents, Slot
    <2> QED
      BY <1>1, <2>1, <2>2 DEF RingInv
  <1>4. CASE (Drain \/ FlushDrain) /\ DrainAll
    <2>1. buffer' = <<>>
      BY <1>4 DEF Drain, FlushDrain, DrainBuffer
    <2>2. Contents' = <<>>
      BY <1>4 DEF DrainAll, Contents
    <2> QED
      BY <1>1, <2>1, <2>2 DEF RingInv
  <1>5. CASE PushBack /\ Push(Head(buffered))
    <2>1. Head(buffered) \in Item
      BY <1>5, BufferedClientAssumption DEF PushBack, SessionInv, ClientTypes, TypeOK
    <2> QED
      BY <1>1, <1>2, <1>5, <2>1 DEF PushBack, PushBuffer, RingInv
  <1>6. ASSUME NEW s \in Sender, SendPushes(s), Push(sender[s].msg) PROVE RingInv'
    <2>1. sender[s].msg \in Item
      BY <1>6, BufferedClientAssumption
         DEF SendPushes, SessionInv, ClientTypes, Resting, SendRecord
    <2> QED
      BY <1>1, <1>2, <1>6, <2>1 DEF SendPushes, PushBuffer, RingInv
  <1>7. CASE UNCHANGED <<vars, ringVars>>
    BY <1>1, <1>7 DEF vars, ringVars, Contents, Slot, RingInv
  <1> QED
    BY <1>3, <1>4, <1>5, <1>6, <1>7 DEF ClientNext

LEMMA ClientInvariant == ClientSpec => [](SessionInv /\ CountInv /\ RingInv)
  <1>1. ClientInit => SessionInv /\ CountInv /\ RingInv
    <2>1. Init /\ New => RingInv
      BY TypeInit DEF Init, New, RingInv, Contents
    <2> QED
      BY <2>1, SessionInitially, CountInitially DEF ClientInit
  <1>2. SessionInv /\ CountInv /\ RingInv /\ [ClientNext]_<<vars, ringVars>>
          => SessionInv' /\ CountInv' /\ RingInv'
    BY StepsOfBoth, SessionStep, CountStep, RingFollowsBuffer
  <1> QED
    BY <1>1, <1>2, PTL DEF ClientSpec

(* Between sessions nothing says that the client is connected, and in a    *)
(* session that Close has not ended c.conn is its connection               *)
(* (client.go:108-225, 256-278, 322-333).                                  *)
THEOREM FlagIsOfItsSession == ClientSpec => []FlagFollowsSession
  <1>1. SessionInv /\ CountInv /\ RingInv => FlagFollowsSession
    BY DEF SessionInv
  <1> QED
    BY <1>1, ClientInvariant, PTL

(* Every message is in one place, and the buffer is what the slots of the  *)
(* ring hold, for any number of collectors and messages, any capacity and  *)
(* every order of sends, failures, drains and overflows (client.go,        *)
(* ring.go).                                                               *)
THEOREM EveryMessageInOnePlace == ClientSpec => []OnePlaceInTheRing
  <1>1. SessionInv /\ CountInv /\ RingInv => OnePlaceInTheRing
    BY CountedIsOnePlace DEF RingInv, OnePlaceInTheRing
  <1> QED
    BY <1>1, ClientInvariant, PTL

(* Every variable of the client keeps its type.                            *)
THEOREM ClientTypesCorrect == ClientSpec => []TypeOK
  <1>1. SessionInv /\ CountInv /\ RingInv => TypeOK
    BY DEF SessionInv, ClientTypes
  <1> QED
    BY <1>1, ClientInvariant, PTL

(* In the client, too, the ring is a queue that keeps the last messages    *)
(* (ring.go, client.go:155-184).                                           *)
THEOREM ClientKeepsLast == ClientSpec => ImplementsKeepLast
  <1>1. ClientSpec => RingSpec
    <2>1. ClientInit => New
      BY DEF ClientInit
    <2>2. SessionInv /\ CountInv /\ RingInv /\ [ClientNext]_<<vars, ringVars>> => [RingNext]_ringVars
      BY StepsOfBoth
    <2> QED
      BY <2>1, <2>2, ClientInvariant, PTL DEF ClientSpec, RingSpec
  <1> QED
    BY <1>1, RingBufferImplementsKeepLast
=============================================================================
