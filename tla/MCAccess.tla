------------------------------ MODULE MCAccess ------------------------------
(* Instances of Access for TLC.                                              *)
EXTENDS Access, TLC

Symmetry == Permutations(Requests)

OneEach == [t \in Tiers |-> 1]

\* A plan, a trial and a cancellation.
AnyStatus == {[status |-> "active", tier |-> "paid", ends |-> 2],
              [status |-> "trial", tier |-> "trial", ends |-> 2],
              [status |-> "canceled", tier |-> "paid", ends |-> 2]}
=============================================================================
