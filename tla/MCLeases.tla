------------------------------ MODULE MCLeases ------------------------------
(***************************************************************************)
(* Leases with interchangeable browsers and accounts.                      *)
(***************************************************************************)
EXTENDS Leases, TLC

Symmetry == Permutations(Browsers) \cup Permutations(Accounts)
=============================================================================
