---------------------------- MODULE MCAuditChain ----------------------------
(* AuditChain for TLC: calls are model values, the failures are bounded. *)
EXTENDS AuditChain, TLC

Symmetry == Permutations(Requests)
=============================================================================
