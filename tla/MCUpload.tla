------------------------------ MODULE MCUpload ------------------------------
(***************************************************************************)
(* Upload on small instances: two or three rows, titles as interchangeable *)
(* model values.                                                           *)
(***************************************************************************)
EXTENDS Upload, TLC

TwoRows == {1, 2}
ThreeRows == {1, 2, 3}
TitleSymmetry == Permutations(Titles)
=============================================================================
