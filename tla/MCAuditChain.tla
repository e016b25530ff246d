----------------------------- MODULE MCAuditChain ----------------------------
(* Bounded instance of AuditChain: two replicas on one table. *)
EXTENDS AuditChain
CONSTANTS p1, p2, b1, b2

MCTwoProcs == {p1, p2}
MCBody == {b1, b2}
MCAllFaults == {"open", "load", "persist"}

=============================================================================
