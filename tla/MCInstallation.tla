---------------------------- MODULE MCInstallation ----------------------------
(* One user handler, variable and server beside those of Keydris.            *)
EXTENDS Installation

CONSTANTS hu, hk, dk, du, ca, mine, s1, su, u1, p1

MCOpt == [port |-> p1, domains |-> {dk}, ca |-> ca, strict |-> TRUE,
          start |-> hk, end |-> hk, pre |-> hk]

MCUser ==
  [sandbox |-> [NoSandbox EXCEPT !.enabled = "false", !.allowedDomains = {du}],
   hooks |-> [e \in Event |-> IF e = "PreToolUse" THEN {{hu}} ELSE {}],
   env |-> [k \in EnvKey |-> IF k \in CAEnvKeys THEN None ELSE mine]]

MCUserSettings == {MCUser}

MCLegacy == [e \in Event |-> IF e = "PreToolUse" THEN {{hu}, {hk}} ELSE {}]

MCUserServer == [n \in {s1, su} |-> IF n = su THEN u1 ELSE None]
MCPolicies == {[n \in {s1, su} |-> IF n = s1 THEN u1 ELSE None]}
=============================================================================
