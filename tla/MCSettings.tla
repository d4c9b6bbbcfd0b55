----------------------------- MODULE MCSettings ------------------------------
(* Instances of SettingsStore for TLC. *)
EXTENDS SettingsStore

CONSTANTS std, on, none, t1, t2

TaskSymmetry == Permutations({t1, t2})

R(o, f, v) == [op |-> o, field |-> f, value |-> v]

AllRequests ==
  {R("put", "lan", on), R("put", "api_port", on), R("put", "auto", on),
   R("auth", "auth", on), R("rules", "rules", on), R("provider", "rules", on),
   R("dns", "dns", on), R("ports", "ports", on), R("tun", "tun", on), R("tun", "tun", std),
   R("mode", "mode", on), R("activate", "none", none), R("start", "none", none),
   R("cli_mode", "mode", on), R("cli_select", "selected", on)}

\* The profile sets its mode, its ports and a tun section.
AProfile == [k \in ConfigKeys |-> IF k \in {"dns", "lan"} THEN none ELSE std]

FirstConfigs == {NoFile, AProfile}


\* Nothing but the type of the variables is claimed once a writer was overtaken.
Calm == calm
=============================================================================
