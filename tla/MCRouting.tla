----------------------------- MODULE MCRouting -----------------------------
(* Small instances of Routing for TLC. *)
EXTENDS Routing, TLC

\* Which of its leases a radio has makes no difference, only that it changes.
LeaseSymmetry == Permutations(Leases)
=============================================================================
