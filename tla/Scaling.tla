------------------------------ MODULE Scaling ------------------------------
(***************************************************************************)
(* Geometry of image scaling by an integer factor, one axis at a time.     *)
(*                                                                         *)
(* An axis is a record [up, scale]: with up = TRUE every source position   *)
(* is repeated scale times, with up = FALSE every scale-th position is     *)
(* kept.  This is the function the software scaler (sw_impl.c) computes,   *)
(* and the one the accelerator is compared with (verify in                 *)
(* benchmark_utils.c).                                                     *)
(***************************************************************************)
EXTENDS Integers

Axis == [up : BOOLEAN, scale : 1 .. 4]

\* The axis of a stream that is not scaled.
Unscaled == [up |-> FALSE, scale |-> 1]

\* The axis that a scale factor as it is typed in stands for.
AxisOf(scale) ==
  [up |-> scale > 0, scale |-> IF scale > 0 THEN scale ELSE -scale]

\* The source position that destination position d shows.
SrcOf(axis, d) == IF axis.up THEN d \div axis.scale ELSE d * axis.scale

\* The number of destination positions of n source positions.
DestLen(axis, n) ==
  IF axis.up THEN n * axis.scale ELSE (n + axis.scale - 1) \div axis.scale

\* C division, towards zero.
Quotient(n, d) == IF n >= 0 THEN n \div d ELSE -((-n) \div d)

\* The same number as the program computes it, for whatever int n is.
DestSide(axis, n) ==
  IF axis.up THEN n * axis.scale ELSE Quotient(n + axis.scale - 1, axis.scale)

\* Source position pos, with rep repetitions done, stands for destination
\* position d.
AxisAt(axis, pos, rep, d) ==
  IF axis.up THEN rep < axis.scale /\ d = pos * axis.scale + rep
             ELSE rep = 0 /\ pos = d * axis.scale

(***************************************************************************)
(* Positions of an image in raster order, as the DMA engines walk it: one  *)
(* descriptor for each line, the lines in order.                           *)
(***************************************************************************)
Origin == [row |-> 0, col |-> 0]

NextPos(p, width) ==
  IF p.col + 1 < width THEN [row |-> p.row, col |-> p.col + 1]
                       ELSE [row |-> p.row + 1, col |-> 0]

Precedes(p, q) == p.row < q.row \/ (p.row = q.row /\ p.col < q.col)
=============================================================================
