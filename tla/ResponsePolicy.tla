--------------------------- MODULE ResponsePolicy ---------------------------
(***************************************************************************)
(* The response policy of server/security/responder.py: a pure function    *)
(* from an event and its context to an action and the reason that goes to  *)
(* the audit trail.  The stage, the operator priority and the highlight    *)
(* flag, which only decorate the trail, are left out.                      *)
(***************************************************************************)
EXTENDS Integers

(* The event types the detectors and the log classifier can produce.       *)
EventTypes == {"ssh_brute_force", "ssh_user_enum", "web_login_bruteforce",
               "sqli", "xss", "path_traversal", "command_injection",
               "port_scan", "sensitive_path_probe", "scanner_probe"}

Severities == {"low", "medium", "high", "critical"}

Modes == {"observe", "assist", "auto_defend"}

IMMEDIATE_BLOCK_TYPES == {"ssh_brute_force", "sqli", "command_injection"}

ESCALATABLE_MEDIUM_TYPES ==
    {"path_traversal", "xss", "port_scan", "ssh_user_enum",
     "sensitive_path_probe", "scanner_probe"}

CREDENTIAL_ABUSE_TYPES == {"ssh_brute_force", "ssh_user_enum", "web_login_bruteforce"}
RECONNAISSANCE_TYPES == {"port_scan", "sensitive_path_probe", "scanner_probe"}
ACTIVE_ATTACK_TYPES == {"sqli", "xss", "path_traversal", "command_injection"}

Serious(severity) == severity \in {"medium", "high", "critical"}

Respond(action, reason) == [action |-> action, reason |-> reason]

(* Why a block is due, or "" when it is not: severity first, then the      *)
(* types blocked at first sight, then the repeated medium signals.         *)
BlockReason(type, severity, count, threshold) ==
    CASE severity = "critical" -> "critical_severity"
      [] severity = "high" -> IF type \in ACTIVE_ATTACK_TYPES
                              THEN "active_attack_high_confidence"
                              ELSE "high_severity_containment"
      [] OTHER ->
         IF type \in IMMEDIATE_BLOCK_TYPES
         THEN IF type \in CREDENTIAL_ABUSE_TYPES
              THEN "credential_attack_first_seen" ELSE "policy_block_on_first_seen"
         ELSE IF /\ severity = "medium"
                 /\ type \in ESCALATABLE_MEDIUM_TYPES
                 /\ count >= threshold
              THEN CASE type \in CREDENTIAL_ABUSE_TYPES -> "credential_attack_escalation"
                     [] type \in RECONNAISSANCE_TYPES -> "reconnaissance_escalation"
                     [] OTHER -> "medium_repetition_escalation"
              ELSE ""

CanBlock(autoBlock, hasIp, cooldown) == autoBlock /\ hasIp /\ ~cooldown

(* The review a signal gets that is not blocked.                           *)
ReviewReason(type, severity, canBlock, cooldown) ==
    IF cooldown THEN "cooldown_active"
    ELSE IF severity \in {"high", "critical"} /\ ~canBlock THEN "manual_containment_required"
    ELSE IF type \in RECONNAISSANCE_TYPES THEN "reconnaissance_review"
    ELSE "operator_review"

decide_response(type, severity, hasIp, mode, autoBlock, count, threshold, cooldown) ==
    LET canBlock == CanBlock(autoBlock, hasIp, cooldown)
        due == BlockReason(type, severity, count, threshold)
    IN CASE mode = "observe" -> Respond("log", "observe_mode")
         [] mode = "assist" -> IF Serious(severity) THEN Respond("review", "assist_mode")
                                                    ELSE Respond("log", "log_only")
         [] OTHER ->
            IF due # "" /\ canBlock THEN Respond("block", due)
            ELSE IF Serious(severity)
                 THEN Respond("review", ReviewReason(type, severity, canBlock, cooldown))
                 ELSE Respond("log", "log_only")
=============================================================================
