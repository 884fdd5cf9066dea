---------------------------- MODULE MCAccScale ----------------------------
(* Small instances of the accelerator for TLC. *)
EXTENDS AccScale

MCWidths  == 1 .. 4
MCHeights == 1 .. 5
=============================================================================
