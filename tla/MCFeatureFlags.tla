--------------------------- MODULE MCFeatureFlags ---------------------------
(* Two plugins with one flag each; one request runs in the process of the    *)
(* control panel, one and the worker in the other process.                   *)
EXTENDS FeatureFlags

CONSTANTS web, node, w1, a, b, m, s

MCProcOf == [x \in Actors |-> IF x \in Web THEN web ELSE node]
MCFlagsOf == [x \in Plugins |-> IF x = m THEN {a} ELSE {b}]
MCSettings == {[x \in Guilds |-> Flags]}
=============================================================================
