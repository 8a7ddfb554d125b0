----------------------------- MODULE MCUnixLock -----------------------------
(* Four handles for TLC, two in each of two processes. *)
EXTENDS UnixLock

CONSTANTS h1, h2, h3, h4, p1, p2

MCProcOf == [h \in Handle |-> IF h \in {h1, h2} THEN p1 ELSE p2]

=============================================================================
