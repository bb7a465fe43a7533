---------------------------- MODULE MCDetection ----------------------------
(* Small sets of log lines and settings for the runs of Detection.         *)
EXTENDS Detection

CONSTANTS a, b

LineOf(source, ip, port, matches) == [source |-> source, ip |-> ip, port |-> port, matches |-> matches]
NoPort == 0

Lines == {LineOf("auth", a, NoPort, {"ssh_failed", "ssh_invalid_user"}),
          LineOf("auth", b, NoPort, {"ssh_failed"}),
          LineOf("firewall", a, 22, {"firewall"}), LineOf("syslog", a, 80, {"firewall"}),
          LineOf("firewall", NoIp, 22, {"firewall"}),
          LineOf("nginx", a, NoPort, {"web_login", "sensitive_path_probe"}),
          LineOf("apache", NoIp, NoPort, {"web_login", "sqli"})}
FewLines == {LineOf("auth", a, NoPort, {"ssh_failed"})}

Windows == [r \in Counter |-> 1]
Thresholds == [r \in Counter |-> 2]
AllEnabled == Counter \cup {"web_attacks", "recon_probes"}
=============================================================================
