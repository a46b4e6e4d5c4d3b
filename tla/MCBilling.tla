----------------------------- MODULE MCBilling -----------------------------
(* Instances of Billing for TLC.                                             *)
EXTENDS Billing, TLC

\* Deliveries, readers and event identifiers are each alike.
Symmetry == Permutations(Deliveries) \cup Permutations(Readers) \cup Permutations(Events)
=============================================================================
