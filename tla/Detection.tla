----------------------------- MODULE Detection -----------------------------
(***************************************************************************)
(* From a log line to a response: the detector's event and the label of    *)
(* the log classifier are merged into one signal                           *)
(* (server/security/integration.py), and the response policy answers it.   *)
(* The context of the answer (repetitions, cooldown, mode) comes from the  *)
(* database; module Containment is about it.                               *)
(*                                                                         *)
(* The classifier is a label and a confidence of which the merge only asks *)
(* whether it reaches the minimum, and whether it reaches 0.9.             *)
(***************************************************************************)
EXTENDS Detector, ResponsePolicy

CONSTANTS Label,     \* the classes of the training set that are attacks
          MaxCount   \* bound: repetitions asked for in the properties

ASSUME DetectionAssumption == Label \subseteq EventTypes /\ MaxCount \in Nat \ {0}

VARIABLE signal   \* the merged event of the last line

vars == <<detectorVars, signal>>

-----------------------------------------------------------------------------
(* merge_log_detection.                                                    *)

NoLabel == [label |-> "normal", confidence |-> "weak"]
Classification == {NoLabel} \cup [label : Label, confidence : {"weak", "fair", "strong"}]

Strong(ml) == ml.label \in Label /\ ml.confidence # "weak"

Order == <<"low", "medium", "high", "critical">>
Rank(severity) == CHOOSE i \in 1 .. 4 : Order[i] = severity
Boost(severity) == Order[IF Rank(severity) < 4 THEN Rank(severity) + 1 ELSE 4]

FromClassifier(line, ml) ==
    EventOf(ml.label, IF ml.confidence = "strong" THEN "medium" ELSE "low", line.ip)

MergeClassifierFirst(rule, line, ml) ==
    CASE Strong(ml) -> FromClassifier(line, ml)
      [] OTHER -> rule
(* A rule's event wins; the same label raises its severity by one.         *)
Merge(rule, line, ml) ==
    CASE rule # NoEvent /\ Strong(ml) /\ rule.type = ml.label ->
            [rule EXCEPT !.severity = Boost(rule.severity)]
      [] rule # NoEvent /\ ~(Strong(ml) /\ rule.type = ml.label) -> rule
      [] rule = NoEvent /\ Strong(ml) -> FromClassifier(line, ml)
      [] OTHER -> NoEvent

HandleLine(line, ml) == /\ check_log(line)
                        /\ signal' = Merge(event', line, ml)

ClockStep(t) == SetClock(t) /\ UNCHANGED signal

DInit == Init /\ signal = NoEvent
DNext == \/ \E line \in Line, ml \in Classification : HandleLine(line, ml)
         \/ \E t \in 0 .. MaxTime : ClockStep(t)
DSpec == DInit /\ [][DNext]_vars

-----------------------------------------------------------------------------
(* Properties.                                                             *)

(* What the policy may be asked about a signal.                            *)
Context == [mode : Modes, autoBlock : BOOLEAN, count : 1 .. MaxCount, cooldown : BOOLEAN]
Answer(e, c) == decide_response(e.type, e.severity, e.ip # NoIp, c.mode, c.autoBlock,
                                c.count, 2, c.cooldown)

Strength(r) == CASE r.action = "log" -> 0 [] r.action = "review" -> 1 [] r.action = "block" -> 2

(* More evidence is never answered more weakly, in any context: not the    *)
(* classifier's word in addition to the rule's, not one more repetition    *)
(* (responder.py:83-168, a chain of early returns).                        *)
NeverWeaker ==
    signal # NoEvent => \A c \in Context :
        /\ event # NoEvent => Strength(Answer(signal, c)) >= Strength(Answer(event, c))
        /\ \A more \in c.count .. MaxCount :
              Strength(Answer(signal, [c EXCEPT !.count = more])) >= Strength(Answer(signal, c))

=============================================================================
