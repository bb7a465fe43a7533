--------------------------- MODULE DetectorProofs ---------------------------
(***************************************************************************)
(* The windows of the detector, for all lines, windows and thresholds, and *)
(* whatever the clock does.  The detector prunes its dictionaries as it    *)
(* goes; the invariant compares them with the full history of the counted  *)
(* hits, and adds that the history is finite and that every window is      *)
(* below its threshold between two lines.                                  *)
(***************************************************************************)
EXTENDS Detection, FiniteSetTheorems, TLAPS

LEMMA InitType == DInit => TypeOK
  BY DetectorAssumption DEF DInit, Init, TypeOK

(* Every step of Detection is one of the detector.                         *)
LEMMA DetectorStep ==
    ASSUME [DNext]_vars
    PROVE  \/ \E line \in Line : check_log(line)
           \/ \E t \in 0 .. MaxTime : SetClock(t)
           \/ UNCHANGED detectorVars
  BY DEF DNext, HandleLine, ClockStep, vars

(* What a line leaves of the window of each address.                       *)
LEMMA AfterLineOwn ==
    ASSUME TypeOK, NEW line \in Line, check_log(line),
           NEW r \in Counter, CountsIn(r, line)
    PROVE  Remembered(r, line.ip)' = Kept(r, line)
  BY DEF check_log, AfterLine, Remembered

LEMMA AfterLineOther ==
    ASSUME TypeOK, NEW line \in Line, check_log(line),
           NEW r \in Counter, CountsIn(r, line), NEW ip \in Ip, ip # line.ip
    PROVE  Remembered(r, ip)' = Fresh(r, Remembered(r, ip))
  <1>1. DOMAIN attempts'[r] = {line.ip} \cup OthersFresh(r, line)
    BY DEF check_log, AfterLine
  <1>2. CASE ip \in OthersFresh(r, line)
    BY <1>1, <1>2 DEF check_log, AfterLine, Remembered, OthersFresh
  <1>3. CASE ip \in DOMAIN attempts[r] /\ ip \notin OthersFresh(r, line)
    BY <1>1, <1>3 DEF Remembered, OthersFresh
  <1>4. CASE ip \notin DOMAIN attempts[r]
    BY <1>1, <1>4 DEF Remembered, OthersFresh, Fresh
  <1> QED
    BY <1>2, <1>3, <1>4

LEMMA NotCounted ==
    ASSUME TypeOK, NEW line \in Line, check_log(line),
           NEW r \in Counter, ~CountsIn(r, line), NEW ip \in Ip
    PROVE  Remembered(r, ip)' = Remembered(r, ip) /\ seen'[r][ip] = seen[r][ip]
  BY DEF check_log, Remembered

LEMMA HitType ==
    ASSUME TypeOK, NEW line \in Line
    PROVE  /\ IsHit(Hit(line)) /\ Hit(line).id <= lines + 1
           /\ Hit(line).ts = now /\ Hit(line).port = line.port
  BY DEF TypeOK, Hit, IsHit

LEMMA StepType == TypeOK /\ [DNext]_vars => TypeOK'
  <1> SUFFICES ASSUME TypeOK, [DNext]_vars PROVE TypeOK'
    OBVIOUS
  <1>1. ASSUME NEW line \in Line, check_log(line) PROVE TypeOK'
    <2>1. now' \in Nat /\ latest' \in Nat /\ lines' \in Nat /\ lines' = lines + 1
      BY <1>1 DEF check_log, TypeOK
    <2>2. ASSUME NEW r \in Counter
          PROVE  /\ DOMAIN attempts'[r] \subseteq Ip
                 /\ \A ip \in DOMAIN attempts'[r] : \A h \in attempts'[r][ip] : IsHit(h)
      <3>1. CASE CountsIn(r, line)
        <4>1. attempts'[r] = AfterLine(r, line)
          BY <1>1, <3>1 DEF check_log
        <4>2. \A h \in Kept(r, line) : IsHit(h)
          BY HitType DEF Kept, WithLine, Fresh, Remembered, TypeOK
        <4>3. line.ip \in Ip
          BY <3>1 DEF CountsIn, HasAddress
        <4> QED
          BY <4>1, <4>2, <4>3 DEF AfterLine, OthersFresh, Fresh, TypeOK
      <3>2. CASE ~CountsIn(r, line)
        BY <1>1, <3>2 DEF check_log, TypeOK
      <3> QED
        BY <3>1, <3>2
    <2>3. ASSUME NEW r \in Counter, NEW ip \in Ip, NEW h \in seen'[r][ip]
          PROVE  IsHit(h) /\ h.id <= lines'
      <3>1. h \in seen[r][ip] \/ h = Hit(line)
        BY <1>1, <2>3 DEF check_log
      <3>2. IsHit(h) /\ (h.id <= lines \/ h.id <= lines + 1)
        BY <3>1, HitType DEF TypeOK
      <3> QED
        BY <2>1, <3>2 DEF IsHit, TypeOK
    <2> QED
      BY <2>1, <2>2, <2>3 DEF TypeOK, IsHit
  <1>2. ASSUME NEW t \in 0 .. MaxTime, SetClock(t) PROVE TypeOK'
    BY <1>2, DetectorAssumption DEF SetClock, TypeOK, IsHit
  <1>3. CASE UNCHANGED detectorVars
    BY <1>3 DEF detectorVars, TypeOK, IsHit
  <1> QED
    BY <1>1, <1>2, <1>3, DetectorStep

LEMMA InitSince == DInit => SinceLastAlert
  BY DEF DInit, Init, SinceLastAlert, Remembered

LEMMA StepSince == TypeOK /\ SinceLastAlert /\ [DNext]_vars => SinceLastAlert'
  <1> SUFFICES ASSUME TypeOK, SinceLastAlert, [DNext]_vars PROVE SinceLastAlert'
    OBVIOUS
  <1> USE DetectorAssumption
  <1>1. ASSUME NEW line \in Line, check_log(line) PROVE SinceLastAlert'
    <2>1. latest' \in Nat /\ latest' >= latest /\ latest' >= now
      BY <1>1 DEF check_log, TypeOK
    <2>2. ASSUME NEW r \in Counter, NEW ip \in Ip
          PROVE  /\ Remembered(r, ip)' \subseteq seen'[r][ip]
                 /\ \A h \in seen'[r][ip] \ Remembered(r, ip)' : latest' - h.ts > Window[r]
      <3>1. CASE ~CountsIn(r, line)
        BY <1>1, <2>1, <3>1, NotCounted DEF SinceLastAlert, TypeOK, IsHit
      <3>2. CASE CountsIn(r, line) /\ ip # line.ip
        <4>1. Remembered(r, ip)' = Fresh(r, Remembered(r, ip))
          BY <1>1, <3>2, AfterLineOther
        <4>2. seen'[r][ip] = seen[r][ip]
          BY <1>1, <3>2 DEF check_log
        <4> QED
          BY <2>1, <4>1, <4>2 DEF SinceLastAlert, Fresh, TypeOK, IsHit
      <3>3. CASE CountsIn(r, line) /\ ip = line.ip /\ Fires(r, line)
        BY <1>1, <3>3, AfterLineOwn DEF check_log, Kept
      <3>4. CASE CountsIn(r, line) /\ ip = line.ip /\ ~Fires(r, line)
        <4>1. Remembered(r, ip)' = Fresh(r, Remembered(r, ip) \cup {Hit(line)})
          BY <1>1, <3>4, AfterLineOwn DEF Kept, WithLine
        <4>2. seen'[r][ip] = seen[r][ip] \cup {Hit(line)}
          BY <1>1, <3>4 DEF check_log
        <4>3. Hit(line) \in Fresh(r, Remembered(r, ip) \cup {Hit(line)})
          BY HitType DEF Fresh, TypeOK
        <4> QED
          BY <2>1, <4>1, <4>2, <4>3 DEF SinceLastAlert, Fresh, TypeOK, IsHit
      <3> QED
        BY <3>1, <3>2, <3>3, <3>4
    <2> QED
      BY <2>2 DEF SinceLastAlert
  <1>2. ASSUME NEW t \in 0 .. MaxTime, SetClock(t) PROVE SinceLastAlert'
    BY <1>2 DEF SetClock, SinceLastAlert, Remembered
  <1>3. CASE UNCHANGED detectorVars
    BY <1>3 DEF detectorVars, SinceLastAlert, Remembered
  <1> QED
    BY <1>1, <1>2, <1>3, DetectorStep

(* The state of the detector keeps its types: whatever is counted has an   *)
(* address, and no hit is from a line that has not been checked.           *)
THEOREM TypeCorrect == DSpec => []TypeOK
  <1> QED
    BY InitType, StepType, PTL DEF DSpec

(* Pruning never forgets a hit that still counts, and an alert forgets     *)
(* them all (_filter_timestamps_in_window, _prune_stale_attempts).         *)
THEOREM PruningIsSafe == DSpec => []SinceLastAlert
  <1>1. DInit => TypeOK /\ SinceLastAlert
    BY InitType, InitSince
  <1>2. TypeOK /\ SinceLastAlert /\ [DNext]_vars => (TypeOK /\ SinceLastAlert)'
    BY StepType, StepSince
  <1> QED
    BY <1>1, <1>2, PTL DEF DSpec

-----------------------------------------------------------------------------
(* Alerts.                                                                 *)

(* The history is finite, so that numbers of hits can be compared.         *)
FiniteSeen == \A r \in Counter, ip \in Ip : IsFiniteSet(seen[r][ip])

LEMMA InitFinite == DInit => FiniteSeen
  BY FS_EmptySet DEF DInit, Init, FiniteSeen

LEMMA StepFinite == FiniteSeen /\ [DNext]_vars => FiniteSeen'
  <1> SUFFICES ASSUME FiniteSeen, [DNext]_vars PROVE FiniteSeen'
    OBVIOUS
  <1>1. ASSUME NEW line \in Line, check_log(line) PROVE FiniteSeen'
    <2>1. ASSUME NEW r \in Counter, NEW ip \in Ip PROVE IsFiniteSet(seen'[r][ip])
      <3>1. seen'[r][ip] \in {seen[r][ip], {}, seen[r][ip] \cup {Hit(line)}}
        BY <1>1 DEF check_log
      <3>2. IsFiniteSet(seen[r][ip])
        BY DEF FiniteSeen
      <3>3. IsFiniteSet(seen[r][ip] \cup {Hit(line)})
        BY <3>2, FS_AddElement
      <3> QED
        BY <3>1, <3>2, <3>3, FS_EmptySet
    <2> QED
      BY <2>1 DEF FiniteSeen
  <1>2. ASSUME NEW t \in 0 .. MaxTime, SetClock(t) PROVE FiniteSeen'
    BY <1>2 DEF SetClock, FiniteSeen
  <1>3. CASE UNCHANGED detectorVars
    BY <1>3 DEF detectorVars, FiniteSeen
  <1> QED
    BY <1>1, <1>2, <1>3, DetectorStep

(* More hits never weigh less.                                             *)
LEMMA WeightMonotone ==
    ASSUME NEW r \in Counter, NEW S, NEW T, S \subseteq T, IsFiniteSet(T)
    PROVE  Weight(r, S) \in Nat /\ Weight(r, T) \in Nat /\ Weight(r, S) <= Weight(r, T)
  <1>1. CASE r # "port_scan"
    BY <1>1, FS_Subset, FS_CardinalityType DEF Weight
  <1>2. CASE r = "port_scan"
    <2> DEFINE ports(H) == {h.port : h \in H}
    <2>1. IsFiniteSet(ports(T))
      <3>1. [h \in T |-> h.port] \in Surjection(T, ports(T))
        BY DEF Surjection
      <3> QED
        BY <3>1, FS_Surjection
    <2>2. ports(S) \subseteq ports(T)
      OBVIOUS
    <2> HIDE DEF ports
    <2>3. /\ Cardinality(ports(S)) \in Nat /\ Cardinality(ports(T)) \in Nat
          /\ Cardinality(ports(S)) <= Cardinality(ports(T))
      BY <2>1, <2>2, FS_Subset, FS_CardinalityType
    <2> QED
      BY <1>2, <2>3 DEF Weight, ports
  <1> QED
    BY <1>1, <1>2

(* What a counter decides on is, with a clock that was not set back, the   *)
(* fresh part of the whole history.                                        *)
LEMMA FiresWhenDue ==
    ASSUME TypeOK, SinceLastAlert, FiniteSeen,
           NEW line \in Line, NEW r \in Counter, line.ip \in Ip
    PROVE  /\ Fires(r, line) => Due(r, line)
           /\ now >= latest /\ Due(r, line) => Fires(r, line)
  <1> DEFINE all == Fresh(r, seen[r][line.ip] \cup {Hit(line)})
  <1>1. WithLine(r, line) \subseteq all
    BY DEF SinceLastAlert, WithLine, Fresh
  <1>2. IsFiniteSet(all)
    <2>1. IsFiniteSet(seen[r][line.ip] \cup {Hit(line)})
      BY FS_AddElement DEF FiniteSeen
    <2> QED
      BY <2>1, FS_Subset DEF Fresh
  <1>3. Weight(r, WithLine(r, line)) <= Weight(r, all)
        /\ Weight(r, WithLine(r, line)) \in Nat /\ Weight(r, all) \in Nat
    BY <1>1, <1>2, WeightMonotone
  <1>4. now >= latest => all = WithLine(r, line)
    <2> SUFFICES ASSUME now >= latest, NEW h \in all PROVE h \in WithLine(r, line)
      BY <1>1
    <2>1. CASE h = Hit(line)
      BY <2>1 DEF WithLine, Fresh
    <2>2. CASE h \in seen[r][line.ip]
      <3>1. IsHit(h) /\ now - h.ts <= Window[r]
        BY <2>2 DEF TypeOK, Fresh
      <3>2. ~(latest - h.ts > Window[r])
        BY <3>1, DetectorAssumption DEF TypeOK, IsHit
      <3>3. h \in Remembered(r, line.ip)
        BY <2>2, <3>2 DEF SinceLastAlert
      <3> QED
        BY <3>1, <3>3 DEF WithLine, Fresh
    <2> QED
      BY <2>1, <2>2 DEF Fresh
  <1> QED
    BY <1>3, <1>4, DetectorAssumption DEF Fires, Due

(* The events of the pattern rules are not those of a counter.             *)
LEMMA PatternEvents ==
    ASSUME NEW line
    PROVE  WebAttack(line) \notin Counter /\ Probe(line) \notin Counter
  BY DEF WebAttack, Probe, FirstOf, WebAttackOrder, ProbeOrder, Counter

(* At most one counter fires at a line, and its event is the one raised.   *)
LEMMA EventOfAlert ==
    ASSUME NEW line \in Line, NEW r \in Counter, CountsIn(r, line)
    PROVE  Detected(line).type = r <=> Fires(r, line)
  <1>1. WebAttack(line) = "none"
    BY DEF CountsIn, WebAttack, FirstOf, FromWeb, Counter
  <1>2. ASSUME Fires(r, line), NEW s \in Alerts(line) PROVE s = r
    <2>1. s \in Counter /\ CountsIn(s, line) /\ Fires(s, line)
      BY DEF Alerts
    <2>2. CASE line.source = "auth"
      <3>1. {r, s} \subseteq {"ssh_brute_force", "ssh_user_enum"}
        BY <2>1, <2>2 DEF CountsIn, FromWeb, Counter
      <3> QED
        BY <1>2, <2>1, <2>2, <3>1 DEF CountsIn
    <2>3. CASE line.source # "auth"
      BY <2>1, <2>3 DEF CountsIn, FromWeb, Counter
    <2> QED
      BY <2>2, <2>3
  <1>3. CASE Fires(r, line)
    <2>1. Alerts(line) = {r}
      BY <1>2, <1>3 DEF Alerts
    <2> QED
      BY <1>1, <1>3, <2>1 DEF Detected, EventOf
  <1>4. CASE ~Fires(r, line)
    <2>1. CASE Alerts(line) # {}
      <3>1. PICK a \in Alerts(line) : Detected(line).type = a
        BY <1>1, <2>1 DEF Detected, EventOf
      <3> QED
        BY <1>4, <3>1 DEF Alerts
    <2>2. CASE Alerts(line) = {}
      BY <1>1, <1>4, <2>2, PatternEvents DEF Detected, EventOf, NoEvent, Counter
    <2> QED
      BY <2>1, <2>2
  <1> QED
    BY <1>3, <1>4

(* The alerts of the four windows come exactly when the history since the  *)
(* last one makes them due (detect_ssh_bruteforce, detect_ssh_invalid_     *)
(* user, detect_web_login_abuse, detect_port_scan).                        *)
THEOREM AlertsExactly == DSpec => AlertsWhenDue
  <1> DEFINE IInv == TypeOK /\ SinceLastAlert /\ FiniteSeen
  <1>1. DInit => IInv
    BY InitType, InitSince, InitFinite
  <1>2. IInv /\ [DNext]_vars => IInv'
    BY StepType, StepSince, StepFinite
  <1> DEFINE Right == \A line \in Line : check_log(line) =>
                        \A r \in Counter : CountsIn(r, line) =>
                            /\ event'.type = r => Due(r, line)
                            /\ Due(r, line) /\ now >= latest => event'.type = r
  <1>3. IInv => Right
    <2> SUFFICES ASSUME IInv, NEW line \in Line, check_log(line),
                        NEW r \in Counter, CountsIn(r, line)
                 PROVE  /\ event'.type = r => Due(r, line)
                        /\ Due(r, line) /\ now >= latest => event'.type = r
      OBVIOUS
    <2>1. event'.type = r <=> Fires(r, line)
      BY EventOfAlert DEF check_log
    <2>2. line.ip \in Ip
      BY DEF CountsIn, HasAddress
    <2> QED
      BY <2>1, <2>2, FiresWhenDue
  <1>4. IInv => [Right]_detectorVars
    BY <1>3
  <1> QED
    BY <1>1, <1>2, <1>4, PTL DEF DSpec, AlertsWhenDue

-----------------------------------------------------------------------------
(* The severity of a port scan.                                            *)

(* Between two lines no window has reached its threshold.                  *)
BelowThreshold ==
    \A r \in Counter, ip \in Ip :
        /\ IsFiniteSet(Remembered(r, ip))
        /\ Weight(r, Remembered(r, ip)) < Threshold[r]

LEMMA EmptyWeight == \A r \in Counter : Weight(r, {}) = 0
  BY FS_EmptySet DEF Weight

LEMMA WithLineFinite ==
    ASSUME BelowThreshold, NEW line \in Line, NEW r \in Counter, line.ip \in Ip
    PROVE  IsFiniteSet(Remembered(r, line.ip) \cup {Hit(line)}) /\ IsFiniteSet(WithLine(r, line))
  <1>1. IsFiniteSet(Remembered(r, line.ip) \cup {Hit(line)})
    BY FS_AddElement DEF BelowThreshold
  <1> QED
    BY <1>1, FS_Subset DEF WithLine, Fresh

LEMMA InitBelow == DInit => BelowThreshold
  <1> SUFFICES ASSUME DInit, NEW r \in Counter, NEW ip \in Ip
               PROVE  /\ IsFiniteSet(Remembered(r, ip))
                      /\ Weight(r, Remembered(r, ip)) < Threshold[r]
    BY DEF BelowThreshold
  <1>1. Remembered(r, ip) = {}
    BY DEF DInit, Init, Remembered
  <1> QED
    BY <1>1, EmptyWeight, FS_EmptySet, DetectorAssumption

LEMMA StepBelow == TypeOK /\ BelowThreshold /\ [DNext]_vars => BelowThreshold'
  <1> SUFFICES ASSUME TypeOK, BelowThreshold, [DNext]_vars PROVE BelowThreshold'
    OBVIOUS
  <1>1. ASSUME NEW line \in Line, check_log(line) PROVE BelowThreshold'
    <2>1. ASSUME NEW r \in Counter, NEW ip \in Ip
          PROVE  /\ IsFiniteSet(Remembered(r, ip)')
                 /\ Weight(r, Remembered(r, ip)') < Threshold[r]
      <3>0. Threshold[r] \in Nat /\ Threshold[r] > 0
        BY DetectorAssumption
      <3>1. CASE ~CountsIn(r, line)
        BY <1>1, <3>1, NotCounted DEF BelowThreshold
      <3>2. CASE CountsIn(r, line) /\ ip # line.ip
        <4>1. Remembered(r, ip)' = Fresh(r, Remembered(r, ip))
          BY <1>1, <3>2, AfterLineOther
        <4>2. Fresh(r, Remembered(r, ip)) \subseteq Remembered(r, ip)
          BY DEF Fresh
        <4>3. IsFiniteSet(Remembered(r, ip)) /\ Weight(r, Remembered(r, ip)) < Threshold[r]
          BY DEF BelowThreshold
        <4>4. IsFiniteSet(Fresh(r, Remembered(r, ip)))
          BY <4>2, <4>3, FS_Subset
        <4>5. /\ Weight(r, Fresh(r, Remembered(r, ip))) <= Weight(r, Remembered(r, ip))
              /\ Weight(r, Fresh(r, Remembered(r, ip))) \in Nat
              /\ Weight(r, Remembered(r, ip)) \in Nat
          BY <4>2, <4>3, WeightMonotone
        <4> QED
          BY <3>0, <4>1, <4>3, <4>4, <4>5
      <3>3. CASE CountsIn(r, line) /\ ip = line.ip
        <4>1. Remembered(r, ip)' = Kept(r, line)
          BY <1>1, <3>3, AfterLineOwn
        <4>2. IsFiniteSet(WithLine(r, line))
          BY <3>3, WithLineFinite
        <4>3. Weight(r, WithLine(r, line)) \in Nat
          BY <4>2, WeightMonotone
        <4> QED
          BY <3>0, <4>1, <4>2, <4>3, EmptyWeight, FS_EmptySet DEF Kept, Fires
      <3> QED
        BY <3>1, <3>2, <3>3
    <2> QED
      BY <2>1 DEF BelowThreshold, Weight
  <1>2. ASSUME NEW t \in 0 .. MaxTime, SetClock(t) PROVE BelowThreshold'
    BY <1>2 DEF SetClock, BelowThreshold, Remembered, Weight
  <1>3. CASE UNCHANGED detectorVars
    BY <1>3 DEF detectorVars, BelowThreshold, Remembered, Weight
  <1> QED
    BY <1>1, <1>2, <1>3, DetectorStep

(* A line adds one port, so a scan fires at its threshold and not later.   *)
LEMMA ScanWeight ==
    ASSUME BelowThreshold, NEW line \in Line, line.ip \in Ip
    PROVE  ~(Weight("port_scan", WithLine("port_scan", line)) >= 2 * Threshold["port_scan"])
  <1> DEFINE r == "port_scan"
             old == Remembered(r, line.ip)
             ports(H) == {h.port : h \in H}
  <1>1. r \in Counter /\ Threshold[r] \in Nat /\ Threshold[r] > 0
    BY DetectorAssumption DEF Counter
  <1>2. IsFiniteSet(old) /\ Weight(r, old) < Threshold[r] /\ Weight(r, old) \in Nat
    BY <1>1, WeightMonotone DEF BelowThreshold
  <1>3. IsFiniteSet(ports(old))
    <2>1. [h \in old |-> h.port] \in Surjection(old, ports(old))
      BY DEF Surjection
    <2> QED
      BY <1>2, <2>1, FS_Surjection
  <1>4. ports(old \cup {Hit(line)}) = ports(old) \cup {Hit(line).port}
    OBVIOUS
  <1>5. Weight(r, old \cup {Hit(line)}) <= Weight(r, old) + 1
    <2> HIDE DEF ports
    <2>1. Cardinality(ports(old) \cup {Hit(line).port}) <= Cardinality(ports(old)) + 1
      <3>1. Cardinality(ports(old)) \in Nat
        BY <1>3, FS_CardinalityType
      <3>2. Cardinality(ports(old) \cup {Hit(line).port})
              = IF Hit(line).port \in ports(old) THEN Cardinality(ports(old))
                ELSE Cardinality(ports(old)) + 1
        BY <1>3, FS_AddElement
      <3> QED
        BY <3>1, <3>2
    <2> QED
      BY <1>4, <2>1 DEF Weight, ports
  <1>6. WithLine(r, line) \subseteq old \cup {Hit(line)} /\ IsFiniteSet(old \cup {Hit(line)})
    BY <1>1, WithLineFinite DEF WithLine, Fresh
  <1>7. /\ Weight(r, WithLine(r, line)) <= Weight(r, old \cup {Hit(line)})
        /\ Weight(r, WithLine(r, line)) \in Nat /\ Weight(r, old \cup {Hit(line)}) \in Nat
    BY <1>1, <1>6, WeightMonotone
  <1> QED
    BY <1>1, <1>2, <1>5, <1>7

LEMMA StepScan == BelowThreshold /\ ScanIsMedium /\ [DNext]_vars => ScanIsMedium'
  <1> SUFFICES ASSUME BelowThreshold, ScanIsMedium, [DNext]_vars PROVE ScanIsMedium'
    OBVIOUS
  <1>1. ASSUME NEW line \in Line, check_log(line), event'.type = "port_scan"
        PROVE  event'.severity = "medium"
    <2>1. event' = Detected(line)
      BY <1>1 DEF check_log
    <2>2. WebAttack(line) \notin Counter /\ Probe(line) \notin Counter
      BY PatternEvents
    <2>3. "port_scan" \in Counter
      BY DEF Counter
    <2>4. WebAttack(line) = "none"
      <3>1. WebAttack(line) # "none" => Detected(line).type = WebAttack(line)
        BY DEF Detected, EventOf
      <3> QED
        BY <1>1, <2>1, <2>2, <2>3, <3>1
    <2>5. Alerts(line) # {}
      BY <1>1, <2>1, <2>2, <2>3, <2>4 DEF Detected, EventOf, NoEvent
    <2>6. PICK a \in Alerts(line) : Detected(line) = EventOf(a, Severity(a, line), line.ip)
      BY <2>4, <2>5 DEF Detected
    <2>7. a = "port_scan" /\ event'.severity = Severity("port_scan", line)
      BY <1>1, <2>1, <2>6 DEF EventOf
    <2>8. line.ip \in Ip
      BY <2>6 DEF Alerts, CountsIn, HasAddress
    <2> QED
      BY <2>7, <2>8, ScanWeight DEF Severity
  <1>2. ASSUME NEW t \in 0 .. MaxTime, SetClock(t) PROVE ScanIsMedium'
    BY <1>2 DEF SetClock, ScanIsMedium
  <1>3. CASE UNCHANGED detectorVars
    BY <1>3 DEF detectorVars, ScanIsMedium
  <1> QED
    BY <1>1, <1>2, <1>3, DetectorStep DEF ScanIsMedium

(* The rules alone never call a port scan "high" (detector.py:286).        *)
THEOREM ScanNeverHigh == DSpec => []ScanIsMedium
  <1> DEFINE IInv == TypeOK /\ BelowThreshold /\ ScanIsMedium
  <1>1. DInit => IInv
    BY InitType, InitBelow DEF DInit, Init, NoEvent, ScanIsMedium
  <1>2. IInv /\ [DNext]_vars => IInv'
    BY StepType, StepBelow, StepScan
  <1> QED
    BY <1>1, <1>2, PTL DEF DSpec

-----------------------------------------------------------------------------
(* The answer of the policy.  The signal is the rule's event, the same     *)
(* with its severity raised by one, or the classifier's alone (MergedInv), *)
(* and the policy is monotone in severity and repetitions (AnswerGrows).   *)

LEMMA BoostIs ==
    /\ Boost("low") = "medium" /\ Boost("medium") = "high"
    /\ Boost("high") = "critical" /\ Boost("critical") = "critical"
  <1>1. Rank("low") = 1 /\ Rank("medium") = 2 /\ Rank("high") = 3 /\ Rank("critical") = 4
    <2>1. ASSUME NEW s, NEW k \in 1 .. 4, Order[k] = s, \A i \in 1 .. 4 : Order[i] = s => i = k
          PROVE Rank(s) = k
      BY <2>1 DEF Rank
    <2>2. Order[1] = "low" /\ Order[2] = "medium" /\ Order[3] = "high" /\ Order[4] = "critical"
      BY DEF Order
    <2> QED
      BY <2>1, <2>2
  <1> QED
    BY <1>1 DEF Boost, Order

LEMMA DueStays ==
    ASSUME NEW type \in EventTypes, NEW s \in Severities, NEW t \in {s, Boost(s)},
           NEW n \in Nat, NEW m \in Nat, n <= m, NEW k \in Nat,
           BlockReason(type, s, n, k) # ""
    PROVE  BlockReason(type, t, m, k) # ""
  BY BoostIs DEF BlockReason, Severities, EventTypes, IMMEDIATE_BLOCK_TYPES,
     CREDENTIAL_ABUSE_TYPES, RECONNAISSANCE_TYPES, ESCALATABLE_MEDIUM_TYPES

LEMMA SeriousStays ==
    ASSUME NEW s \in Severities, NEW t \in {s, Boost(s)}, Serious(s) PROVE Serious(t)
  BY BoostIs DEF Serious, Severities

(* The answer to a signal is never weaker than the answer to one that is   *)
(* no more severe and was repeated no more often.                          *)
LEMMA AnswerGrows ==
    ASSUME NEW type \in EventTypes, NEW s \in Severities, NEW t \in {s, Boost(s)},
           NEW hasIp, NEW mode \in Modes, NEW auto, NEW n \in Nat, NEW m \in Nat, n <= m,
           NEW k \in Nat, NEW cooldown
    PROVE  Strength(decide_response(type, t, hasIp, mode, auto, m, k, cooldown))
             >= Strength(decide_response(type, s, hasIp, mode, auto, n, k, cooldown))
  <1> DEFINE weak == decide_response(type, s, hasIp, mode, auto, n, k, cooldown)
             strong == decide_response(type, t, hasIp, mode, auto, m, k, cooldown)
             can == CanBlock(auto, hasIp, cooldown)
  <1>1. mode = "observe" => weak.action = "log" /\ strong.action = "log"
    BY DEF decide_response, Respond
  <1>2. mode = "assist" => /\ weak.action = IF Serious(s) THEN "review" ELSE "log"
                           /\ strong.action = IF Serious(t) THEN "review" ELSE "log"
    BY DEF decide_response, Respond
  <1>3. mode = "auto_defend" =>
          /\ weak.action = IF BlockReason(type, s, n, k) # "" /\ can THEN "block"
                           ELSE IF Serious(s) THEN "review" ELSE "log"
          /\ strong.action = IF BlockReason(type, t, m, k) # "" /\ can THEN "block"
                             ELSE IF Serious(t) THEN "review" ELSE "log"
    BY DEF decide_response, Respond
  <1> HIDE DEF weak, strong, can
  <1>4. BlockReason(type, s, n, k) # "" => BlockReason(type, t, m, k) # ""
    BY DueStays
  <1>5. Serious(s) => Serious(t)
    BY SeriousStays
  <1>6. Strength(strong) >= Strength(weak)
    <2>1. CASE mode = "observe"
      BY <1>1, <2>1 DEF Strength
    <2>2. CASE mode = "assist"
      BY <1>2, <1>5, <2>2 DEF Strength
    <2>3. CASE mode = "auto_defend"
      <3>1. \/ strong.action = "block" /\ weak.action \in {"block", "review", "log"}
            \/ strong.action = "review" /\ weak.action \in {"review", "log"}
            \/ strong.action = "log" /\ weak.action = "log"
        BY <1>3, <1>4, <1>5, <2>3, Zenon
      <3> QED
        BY <3>1 DEF Strength
    <2> QED
      BY <2>1, <2>2, <2>3 DEF Modes
  <1> QED
    BY <1>6 DEF weak, strong

MergedInv ==
    /\ event # NoEvent => event.type \in EventTypes /\ event.severity \in Severities
    /\ signal # NoEvent => /\ signal.type \in EventTypes /\ signal.severity \in Severities
                           /\ event # NoEvent => /\ signal.type = event.type
                                                 /\ signal.ip = event.ip
                                                 /\ signal.severity \in {event.severity, Boost(event.severity)}

LEMMA DetectedType ==
    ASSUME NEW line, Detected(line) # NoEvent
    PROVE  /\ Detected(line).type \in EventTypes /\ Detected(line).severity \in Severities
           /\ Detected(line) = EventOf(Detected(line).type, Detected(line).severity,
                                       Detected(line).ip)
  <1>1. WebAttack(line) \in EventTypes \cup {"none"} /\ Probe(line) \in EventTypes \cup {"none"}
    BY DEF WebAttack, Probe, FirstOf, WebAttackOrder, ProbeOrder, EventTypes
  <1>2. \A r \in Alerts(line) : r \in EventTypes
    BY DEF Alerts, Counter, EventTypes
  <1>3. \A r : Severity(r, line) \in Severities
    BY DEF Severity, Severities
  <1>4. PICK type \in EventTypes, severity \in Severities :
           Detected(line) = EventOf(type, severity, line.ip)
    <2>1. CASE WebAttack(line) # "none"
      BY <1>1, <2>1 DEF Detected, Severities
    <2>2. CASE WebAttack(line) = "none" /\ Alerts(line) # {}
      BY <1>2, <1>3, <2>2 DEF Detected
    <2>3. CASE WebAttack(line) = "none" /\ Alerts(line) = {}
      BY <1>1, <2>3 DEF Detected, Severities
    <2> QED
      BY <2>1, <2>2, <2>3
  <1> QED
    BY <1>4 DEF EventOf

LEMMA MergedStep == ASSUME MergedInv, NEW line \in Line, NEW ml \in Classification,
                           HandleLine(line, ml) PROVE MergedInv'
  <1>1. event' # NoEvent => event'.type \in EventTypes /\ event'.severity \in Severities
    <2>1. event' = Detected(line)
      BY DEF HandleLine, check_log
    <2> QED
      BY <2>1, DetectedType
  <1>2. signal' = Merge(event', line, ml)
    BY DEF HandleLine
  <1>3. ml # NoLabel => ml.label \in EventTypes
    BY DetectionAssumption DEF Classification
  <1>4. CASE event' # NoEvent /\ Strong(ml) /\ event'.type = ml.label
    <2>1. signal' = [event' EXCEPT !.severity = Boost(event'.severity)]
      BY <1>2, <1>4 DEF Merge
    <2>2. event' = EventOf(event'.type, event'.severity, event'.ip)
      BY <1>4, DetectedType DEF HandleLine, check_log
    <2>3. /\ signal'.type = event'.type /\ signal'.ip = event'.ip
          /\ signal'.severity = Boost(event'.severity)
      BY <2>1, <2>2 DEF EventOf
    <2>4. Boost(event'.severity) \in Severities
      BY <1>1, <1>4, BoostIs DEF Severities
    <2> QED
      BY <1>1, <1>4, <2>3, <2>4 DEF MergedInv
  <1>5. CASE event' # NoEvent /\ ~(Strong(ml) /\ event'.type = ml.label)
    <2>1. signal' = event'
      BY <1>2, <1>5 DEF Merge
    <2> QED
      BY <1>1, <1>5, <2>1 DEF MergedInv
  <1>6. CASE event' = NoEvent /\ Strong(ml)
    <2>1. signal' = FromClassifier(line, ml) /\ ml.label \in EventTypes
      BY <1>2, <1>6, DetectionAssumption DEF Merge, Strong
    <2>2. signal'.type \in EventTypes /\ signal'.severity \in Severities
      BY <2>1 DEF FromClassifier, EventOf, Severities
    <2> QED
      BY <1>6, <2>2 DEF MergedInv
  <1>7. CASE event' = NoEvent /\ ~Strong(ml)
    <2>1. signal' = NoEvent
      BY <1>2, <1>7 DEF Merge
    <2> QED
      BY <1>7, <2>1 DEF MergedInv
  <1> QED
    BY <1>4, <1>5, <1>6, <1>7

LEMMA MergedIsNotWeaker == MergedInv => NeverWeaker
  <1> SUFFICES ASSUME MergedInv, signal # NoEvent, NEW c \in Context
               PROVE  /\ event # NoEvent => Strength(Answer(signal, c)) >= Strength(Answer(event, c))
                      /\ \A more \in c.count .. MaxCount :
                            Strength(Answer(signal, [c EXCEPT !.count = more]))
                              >= Strength(Answer(signal, c))
    BY DEF NeverWeaker
  <1>1. c.mode \in Modes /\ c.count \in Nat
    BY DEF Context
  <1>2. signal.type \in EventTypes /\ signal.severity \in Severities
    BY DEF MergedInv
  <1>3. ASSUME event # NoEvent PROVE Strength(Answer(signal, c)) >= Strength(Answer(event, c))
    <2>1. /\ event.severity \in Severities /\ signal.type = event.type /\ signal.ip = event.ip
          /\ signal.severity \in {event.severity, Boost(event.severity)}
      BY <1>3 DEF MergedInv
    <2> QED
      BY <1>1, <1>2, <2>1, AnswerGrows DEF Answer
  <1>4. ASSUME NEW more \in c.count .. MaxCount
        PROVE  Strength(Answer(signal, [c EXCEPT !.count = more])) >= Strength(Answer(signal, c))
    <2> DEFINE d == [c EXCEPT !.count = more]
    <2>1. /\ d.mode = c.mode /\ d.autoBlock = c.autoBlock /\ d.cooldown = c.cooldown
          /\ d.count = more /\ more \in Nat /\ c.count <= more
      BY <1>1, DetectionAssumption DEF Context
    <2> HIDE DEF d
    <2>2. Strength(Answer(signal, d)) >= Strength(Answer(signal, c))
      BY <1>1, <1>2, <2>1, AnswerGrows DEF Answer
    <2> QED
      BY <2>2 DEF d
  <1> QED
    BY <1>3, <1>4

(* More evidence is never answered more weakly: neither the classifier's   *)
(* word on top of a rule's nor a repetition, for every type, severity and  *)
(* context (decide_response, merge_log_detection).                         *)
THEOREM MoreIsNeverWeaker == DSpec => []NeverWeaker
  <1>1. DInit => MergedInv
    BY DEF DInit, Init, NoEvent, MergedInv
  <1>2. MergedInv /\ [DNext]_vars => MergedInv'
    <2> SUFFICES ASSUME MergedInv, [DNext]_vars PROVE MergedInv'
      OBVIOUS
    <2>1. ASSUME NEW line \in Line, NEW ml \in Classification, HandleLine(line, ml)
          PROVE  MergedInv'
      BY <2>1, MergedStep
    <2>2. ASSUME NEW t \in 0 .. MaxTime, ClockStep(t) PROVE MergedInv'
      BY <2>2 DEF ClockStep, SetClock, MergedInv
    <2>3. CASE UNCHANGED vars
      BY <2>3 DEF vars, detectorVars, MergedInv
    <2> QED
      BY <2>1, <2>2, <2>3 DEF DNext
  <1> QED
    BY <1>1, <1>2, MergedIsNotWeaker, PTL DEF DSpec
=============================================================================
