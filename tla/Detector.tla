------------------------------ MODULE Detector ------------------------------
(***************************************************************************)
(* The log detector of server/security/detector.py: which log lines are    *)
(* counted, in which sliding window, and when a window raises an event.    *)
(*                                                                         *)
(* A line is what the patterns of rules.py find in it: an address (or      *)
(* none), a port, and the set of patterns that match.  A window is kept as *)
(* the set of its hits; the code only asks for their number, or for their  *)
(* distinct ports.                                                         *)
(*                                                                         *)
(* time.time() is the wall clock: it may be set back.                      *)
(***************************************************************************)
EXTENDS Integers, FiniteSets

CONSTANTS
    Ip,         \* addresses in log lines
    NoIp,       \* a line in which no address is found
    Line,       \* lines: records [source, ip, port, matches]
    Window,     \* seconds of each counter
    Threshold,  \* hits (ports) of each counter
    Enabled,    \* the counters and pattern rules switched on in the config
    MaxLines,   \* bound: lines
    MaxTime     \* bound: the clock

Counter == {"ssh_brute_force", "ssh_user_enum", "web_login_bruteforce", "port_scan"}

ASSUME DetectorAssumption ==
    /\ NoIp \notin Ip
    /\ \A line \in Line : line.ip \in Ip \cup {NoIp}
    /\ Window \in [Counter -> Nat] /\ Threshold \in [Counter -> Nat \ {0}]
    /\ MaxLines \in Nat /\ MaxTime \in Nat

VARIABLES
    now,       \* the clock
    attempts,  \* the four dictionaries of the detector
    lines,     \* number of lines checked
    event,     \* what the last line raised
    latest,    \* history: the latest time at which a line was checked
    seen       \* history: every hit counted since the last alert

detectorVars == <<now, attempts, lines, event, latest, seen>>

NoEvent == [type |-> "none"]
EventOf(type, severity, ip) == [type |-> type, severity |-> severity, ip |-> ip]

Init == /\ now \in 0 .. MaxTime
        /\ attempts = [r \in Counter |-> [ip \in {} |-> {}]]
        /\ lines = 0
        /\ event = NoEvent
        /\ latest = 0
        /\ seen = [r \in Counter |-> [ip \in Ip |-> {}]]

-----------------------------------------------------------------------------
(* The windows.                                                            *)

FreshStrictly(r, hits) == {h \in hits : now - h.ts < Window[r]}
Fresh(r, hits) == {h \in hits : now - h.ts <= Window[r]}

(* The port scan counts distinct ports, the others count lines.            *)
Weight(r, hits) == IF r = "port_scan" THEN Cardinality({h.port : h \in hits})
                                      ELSE Cardinality(hits)

Hit(line) == [id |-> lines + 1, ts |-> now, port |-> line.port]

Remembered(r, ip) == IF ip \in DOMAIN attempts[r] THEN attempts[r][ip] ELSE {}
WithLine(r, line) == Fresh(r, Remembered(r, line.ip) \cup {Hit(line)})
Fires(r, line) == Weight(r, WithLine(r, line)) >= Threshold[r]

KeptAfterAlert(r, line) == WithLine(r, line)
(* The window is emptied when it fires.                                    *)
Kept(r, line) == IF Fires(r, line) THEN {} ELSE WithLine(r, line)

OthersFresh(r, line) ==
    {ip \in DOMAIN attempts[r] \ {line.ip} : Fresh(r, attempts[r][ip]) # {}}
(* A counted line moves the window of its address, and prunes all others.  *)
AfterLine(r, line) ==
    [ip \in {line.ip} \cup OthersFresh(r, line) |->
        IF ip = line.ip THEN Kept(r, line) ELSE Fresh(r, attempts[r][ip])]

-----------------------------------------------------------------------------
(* run_detection_rules: the source picks the rule, a rule is a chain in    *)
(* which the first event wins and later windows do not count the line.     *)

FromWeb(line) == line.source \in {"nginx", "apache"}
Matches(line, pattern) == pattern \in line.matches

WebAttackOrder == <<"sqli", "xss", "path_traversal", "command_injection">>
ProbeOrder == <<"sensitive_path_probe", "scanner_probe">>

FirstOf(line, rule, order) ==
    LET hits == {i \in DOMAIN order : order[i] \in line.matches}
    IN IF ~FromWeb(line) \/ rule \notin Enabled \/ hits = {} THEN "none"
       ELSE order[CHOOSE i \in hits : \A j \in hits : i <= j]

WebAttack(line) == FirstOf(line, "web_attacks", WebAttackOrder)
Probe(line) == FirstOf(line, "recon_probes", ProbeOrder)

AnyAddress(line) == TRUE
HasAddress(line) == line.ip \in Ip

(* What a window counts.  A line of sshd may be a failed password and an   *)
(* invalid user at once; a login page may be a sensitive path.             *)
CountsIn(r, line) ==
    /\ HasAddress(line)
    /\ CASE r = "ssh_brute_force" -> line.source = "auth" /\ Matches(line, "ssh_failed")
         [] r = "ssh_user_enum" ->
               /\ line.source = "auth" /\ Matches(line, "ssh_invalid_user")
               /\ r \in Enabled
               /\ ~(Matches(line, "ssh_failed") /\ Fires("ssh_brute_force", line))
         [] r = "web_login_bruteforce" ->
               FromWeb(line) /\ Matches(line, "web_login") /\ r \in Enabled
               /\ WebAttack(line) = "none"
         [] r = "port_scan" ->
               /\ line.source \in {"firewall", "syslog"} /\ Matches(line, "firewall")
               /\ r \in Enabled

Severity(r, line) ==
    CASE r = "ssh_user_enum" -> "medium"
      [] r = "port_scan" ->
            IF Weight(r, WithLine(r, line)) >= 2 * Threshold[r] THEN "high" ELSE "medium"
      [] OTHER -> "high"

Alerts(line) == {r \in Counter : CountsIn(r, line) /\ Fires(r, line)}

(* A web attack comes before the login window, a probe after it.           *)
Detected(line) ==
    IF WebAttack(line) # "none"
    THEN EventOf(WebAttack(line), IF WebAttack(line) = "sqli" THEN "high" ELSE "medium", line.ip)
    ELSE IF Alerts(line) # {}
    THEN LET r == CHOOSE a \in Alerts(line) : TRUE
         IN EventOf(r, Severity(r, line), line.ip)
    ELSE IF Probe(line) # "none" THEN EventOf(Probe(line), "medium", line.ip)
    ELSE NoEvent

check_log(line) ==
    /\ lines < MaxLines /\ lines' = lines + 1
    /\ attempts' = [r \in Counter |-> IF CountsIn(r, line) THEN AfterLine(r, line)
                                                           ELSE attempts[r]]
    /\ event' = Detected(line)
    /\ latest' = IF now > latest THEN now ELSE latest
    /\ seen' = [r \in Counter |-> [ip \in Ip |->
                   IF ~(CountsIn(r, line) /\ ip = line.ip) THEN seen[r][ip]
                   ELSE IF Fires(r, line) THEN {}
                   ELSE seen[r][ip] \cup {Hit(line)}]]
    /\ UNCHANGED now

(* Time passes, or the clock is set.                                       *)
SetClock(t) == /\ t \in 0 .. MaxTime
               /\ now' = t
               /\ UNCHANGED <<attempts, lines, event, latest, seen>>

Next == (\E line \in Line : check_log(line)) \/ (\E t \in 0 .. MaxTime : SetClock(t))

Spec == Init /\ [][Next]_detectorVars

-----------------------------------------------------------------------------
(* Properties.                                                             *)

IsHit(h) == h.id \in Nat /\ h.ts \in Int

TypeOK ==
    /\ now \in Nat /\ latest \in Nat /\ lines \in Nat
    /\ \A r \in Counter : /\ DOMAIN attempts[r] \subseteq Ip
                          /\ \A ip \in DOMAIN attempts[r] : \A h \in attempts[r][ip] : IsHit(h)
    /\ \A r \in Counter, ip \in Ip : \A h \in seen[r][ip] : IsHit(h) /\ h.id <= lines

(* Pruning forgets nothing that still counts, and an alert forgets         *)
(* everything: what is remembered of an address was counted after its last *)
(* alert, and whatever else was counted since then had already left the    *)
(* window at the latest time the detector has looked at the clock, however *)
(* the lines of other addresses prune the dictionary in between.           *)
SinceLastAlert ==
    \A r \in Counter, ip \in Ip :
        /\ Remembered(r, ip) \subseteq seen[r][ip]
        /\ \A h \in seen[r][ip] \ Remembered(r, ip) : latest - h.ts > Window[r]

(* A counter never raises an alert before the hits since its last alert    *)
(* that are inside the window reach the threshold, and while the clock is  *)
(* not set back it does so at the very line that makes it due.             *)
Due(r, line) == Weight(r, Fresh(r, seen[r][line.ip] \cup {Hit(line)})) >= Threshold[r]
AlertsWhenDue ==
    [][\A line \in Line : check_log(line) =>
        \A r \in Counter : CountsIn(r, line) =>
            /\ event'.type = r => Due(r, line)
            /\ Due(r, line) /\ now >= latest => event'.type = r]_detectorVars

(* One line adds one port to a window that is below its threshold, so the  *)
(* rules by themselves never give a port scan more than "medium": the      *)
(* branch of server/security/detector.py:286 that doubles the threshold is *)
(* dead, whatever the clock does.                                          *)
ScanIsMedium == event.type = "port_scan" => event.severity = "medium"
=============================================================================
