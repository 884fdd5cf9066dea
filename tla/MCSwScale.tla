----------------------------- MODULE MCSwScale -----------------------------
(* Small instances of the software scaler for TLC. *)
EXTENDS SwScale

MCRegions == [x : {2}, y : {1}, width : 1 .. 5, height : 1 .. 5]
MCScales  == {-4, -3, -2, -1, 1, 2, 3, 4}
=============================================================================
