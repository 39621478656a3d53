--------------------------- MODULE MCPlatformGuard ---------------------------
(* Small instances of PlatformGuard. *)
EXTENDS PlatformGuard

CONSTANTS r1, r2, r3
=============================================================================
