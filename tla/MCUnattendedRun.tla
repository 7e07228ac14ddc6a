--------------------------- MODULE MCUnattendedRun ---------------------------
(***************************************************************************)
(* UnattendedRun on a small run: two of three cases with a pause.          *)
(***************************************************************************)
EXTENDS UnattendedRun
=============================================================================
