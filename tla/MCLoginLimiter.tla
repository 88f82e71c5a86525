--------------------------- MODULE MCLoginLimiter ---------------------------
(* Two requests in progress, one address that connects directly or through *)
(* a proxy, quota 2 in windows of 2, until the clock reaches 3 or 4: long  *)
(* enough for a second window and for stretches across its boundary.       *)
EXTENDS LoginLimiter
CONSTANTS r1, r2, ip1, port1
MCRequests == {r1, r2}
MCIps == {ip1}
MCPorts == {port1}
=============================================================================
