--------------------------- MODULE MCSessionGuard ---------------------------
(* Two session names, two bindings, a TTL of one tick: a name is bound     *)
(* again before and after its binding expires.                             *)
EXTENDS SessionGuard
CONSTANTS sa, sb, c1, c2

MCSessionId == {sa, sb}
MCUnwrapCall == {c1, c2}
=============================================================================
