----------------------------- MODULE MCBilling -----------------------------
(***************************************************************************)
(* Instances of Billing for TLC.  The five sets are interchangeable ids;   *)
(* runs with a liveness property do not use the symmetry.                  *)
(***************************************************************************)
EXTENDS Billing, TLC

Symmetry ==
  Permutations(Accounts) \cup Permutations(Customers) \cup Permutations(Subscriptions)
    \cup Permutations(Deliveries) \cup Permutations(Checkouts)

=============================================================================
