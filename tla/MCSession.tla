----------------------------- MODULE MCSession ------------------------------
(***************************************************************************)
(* Session with two calls that ask for a token, interchangeable.           *)
(***************************************************************************)
EXTENDS Session, TLC

CallSymmetry == Permutations(Calls)
=============================================================================
