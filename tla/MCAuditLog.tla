----------------------------- MODULE MCAuditLog -----------------------------
(* One AuditLog object, used by every thread of the orchestrator. *)
EXTENDS AuditLog, TLC

CONSTANTS i1, t1, t2

MCInstanceOf == [t \in Threads |-> i1]

Symmetry == Permutations(Threads)
=============================================================================
