---------------------------- MODULE AcceptOnce ----------------------------
(***************************************************************************)
(* What ReplayCache.accept decides about one value, as pure operators on   *)
(* the set of retained values.  The servers keep several such caches       *)
(* (DELEGATION_NONCES, BOOTSTRAP_NONCES, accepted_session_ids); the module *)
(* ReplayCache shows that the locked code decides this atomically, which   *)
(* is what lets every other module use these operators in a single step.   *)
(***************************************************************************)
EXTENDS Integers, FiniteSets

\* No value is evicted: a full cache refuses everything, old or new.
HasRoom(entries, max) == Cardinality(entries) < max

Accepts(entries, max, v) == v \notin entries /\ HasRoom(entries, max)
=============================================================================
