---------------------------- MODULE ImageCounter ----------------------------
(***************************************************************************)
(* The position counter of hdl/image_counter.vhd: the pixel and row that a *)
(* stream has reached, with the repetition counters that upscaling needs.  *)
(* pixel and row are unsigned of a width CountMod stands for (2^16 in the  *)
(* source), the repetition counters are three bits wide.                   *)
(***************************************************************************)
EXTENDS Integers

CONSTANT CountMod

ASSUME CountModAssumption == CountMod \in Nat \ {0}

RepMod == 8

Counter == [pixel_rep : 0 .. RepMod - 1, pixel : 0 .. CountMod - 1,
            row_rep   : 0 .. RepMod - 1, row   : 0 .. CountMod - 1]

\* The value after rst.
ZeroCounter == [pixel_rep |-> 0, pixel |-> 0, row_rep |-> 0, row |-> 0]

\* One axis moves on: a downscaled one skips axis.scale positions, an
\* upscaled one moves to the next position at its last repetition only.
IsLastRep(rep, axis) == (rep + 1) % RepMod = axis.scale

RepAfter(rep, axis) ==
  IF axis.up /\ ~IsLastRep(rep, axis) THEN (rep + 1) % RepMod ELSE 0

Stride(rep, axis) ==
  IF axis.up THEN (IF IsLastRep(rep, axis) THEN 1 ELSE 0) ELSE axis.scale

PosAfter(pos, rep, axis) == (pos + Stride(rep, axis)) % CountMod

\* The counter after a clock edge with next_pixel set: the pixel moves on,
\* and past the end of the line the row moves on and the pixel starts over.
Advance(c, xAxis, yAxis, width) ==
  LET pixel == PosAfter(c.pixel, c.pixel_rep, xAxis)
      rep   == RepAfter(c.pixel_rep, xAxis)
  IN  IF pixel >= width
        THEN [pixel_rep |-> rep, pixel |-> 0,
              row_rep   |-> RepAfter(c.row_rep, yAxis),
              row       |-> PosAfter(c.row, c.row_rep, yAxis)]
        ELSE [pixel_rep |-> rep, pixel |-> pixel, row_rep |-> c.row_rep, row |-> c.row]
=============================================================================
