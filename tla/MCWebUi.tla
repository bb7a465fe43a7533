------------------------------- MODULE MCWebUi -------------------------------
(* Three processes, two of them with the same number one after the other,  *)
(* of which one is protected; two events of two types; two traces, one of  *)
(* them without an entry; three filters of the logs.                       *)
EXTENDS WebUi, TLC

MCRow == {"nginx", "sshd", "miner"}
MCPidOf == [p \in MCRow |-> IF p = "miner" THEN 2 ELSE 1]
MCRankBy == [k \in {"cpu_percent"} |-> ("nginx" :> 1) @@ ("sshd" :> 2) @@ ("miner" :> 3)]
MCMatching == [t \in {"", "n"} |-> IF t = "" THEN MCRow ELSE {"nginx", "miner"}]

MCTypeOf == (1 :> "sqli") @@ (2 :> "xss")
MCAgeOf == [e \in {1, 2} |-> 0 - e]

MCTraceOf == [e \in Entry |-> CHOOSE t \in Trace : TRUE]

MCLinesOf == ("" :> 1 .. 4) @@ ("auth" :> {1, 3}) @@ ("nginx" :> {2, 4})
=============================================================================
