--------------------------- MODULE ScalingProofs ----------------------------
(***************************************************************************)
(* Proofs about the two scalers, which have the geometry of Scaling in     *)
(* common.  The accelerator: for every size of counters, line buffer and   *)
(* images that SizeAssumption admits.  The software scaler: it fills the   *)
(* destination buffer with the scaled image, and no byte more, for regions *)
(* of every size and every pair of factors.  At the end the two are        *)
(* compared with each other, as verify does.                               *)
(***************************************************************************)
EXTENDS AccScale, SwScale, TLAPS

(***************************************************************************)
(* Arithmetic of one axis.                                                 *)
(***************************************************************************)

\* A counter that stays below its modulus does not wrap.
LEMMA ModSmall ==
  ASSUME NEW m \in Nat \ {0}, NEW a \in 0 .. m - 1
  PROVE  a % m = a
  OBVIOUS

\* Where a source position stands for destination position d, it is the
\* source position that d shows, and d is within the scaled line exactly if
\* it is within the source line.
LEMMA AxisMeaning ==
  ASSUME NEW axis \in Axis, NEW pos \in Nat, NEW rep \in Nat, NEW d \in Nat,
         NEW n \in Nat, AxisAt(axis, pos, rep, d)
  PROVE  /\ SrcOf(axis, d) = pos
         /\ d < DestLen(axis, n) <=> pos < n
<1>1. axis.scale = 1 \/ axis.scale = 2 \/ axis.scale = 3 \/ axis.scale = 4
  BY DEF Axis
<1>2. axis.up \in BOOLEAN
  BY DEF Axis
<1>3. CASE axis.scale = 1
  BY <1>2, <1>3 DEF AxisAt, SrcOf, DestLen
<1>4. CASE axis.scale = 2
  BY <1>2, <1>4 DEF AxisAt, SrcOf, DestLen
<1>5. CASE axis.scale = 3
  BY <1>2, <1>5 DEF AxisAt, SrcOf, DestLen
<1>6. CASE axis.scale = 4
  BY <1>2, <1>6 DEF AxisAt, SrcOf, DestLen
<1>. QED  BY <1>1, <1>3, <1>4, <1>5, <1>6

\* The number of destination positions is what a loop over the source that
\* goes up to n reaches in the destination.
LEMMA AxisEnd ==
  ASSUME NEW axis \in Axis, NEW pos \in Nat, NEW d \in Nat, NEW n \in Nat,
         AxisAt(axis, pos, 0, d), pos < n
  PROVE  /\ DestLen(axis, n) \in Nat
         /\ d + (IF axis.up THEN axis.scale ELSE 1) <= DestLen(axis, n)
         /\ AxisAt(axis, pos + (IF axis.up THEN 1 ELSE axis.scale), 0,
                   d + (IF axis.up THEN axis.scale ELSE 1))
<1>1. axis.scale = 1 \/ axis.scale = 2 \/ axis.scale = 3 \/ axis.scale = 4
  BY DEF Axis
<1>2. axis.up \in BOOLEAN
  BY DEF Axis
<1>3. CASE axis.scale = 1
  BY <1>2, <1>3 DEF AxisAt, DestLen
<1>4. CASE axis.scale = 2
  BY <1>2, <1>4 DEF AxisAt, DestLen
<1>5. CASE axis.scale = 3
  BY <1>2, <1>5 DEF AxisAt, DestLen
<1>6. CASE axis.scale = 4
  BY <1>2, <1>6 DEF AxisAt, DestLen
<1>. QED  BY <1>1, <1>3, <1>4, <1>5, <1>6

\* All repetitions of a source position show it.
LEMMA AxisRepeats ==
  ASSUME NEW axis \in Axis, NEW pos \in Nat, NEW d \in Nat, NEW c \in Nat,
         AxisAt(axis, pos, 0, d), d <= c, c < d + (IF axis.up THEN axis.scale ELSE 1)
  PROVE  SrcOf(axis, c) = pos
<1>1. axis.scale = 1 \/ axis.scale = 2 \/ axis.scale = 3 \/ axis.scale = 4
  BY DEF Axis
<1>2. axis.up \in BOOLEAN
  BY DEF Axis
<1>3. CASE axis.scale = 1
  BY <1>2, <1>3 DEF AxisAt, SrcOf
<1>4. CASE axis.scale = 2
  BY <1>2, <1>4 DEF AxisAt, SrcOf
<1>5. CASE axis.scale = 3
  BY <1>2, <1>5 DEF AxisAt, SrcOf
<1>6. CASE axis.scale = 4
  BY <1>2, <1>6 DEF AxisAt, SrcOf
<1>. QED  BY <1>1, <1>3, <1>4, <1>5, <1>6

\* One step of an axis is one destination position further.  The source
\* position stays where it is as long as repetitions are left.
LEMMA AxisStep ==
  ASSUME NEW axis \in Axis, NEW pos \in Nat, NEW rep \in Nat, NEW d \in Nat,
         AxisAt(axis, pos, rep, d), pos + 4 < CountMod
  PROVE  /\ PosAfter(pos, rep, axis) \in Nat
         /\ RepAfter(rep, axis) \in Nat
         /\ AxisAt(axis, PosAfter(pos, rep, axis), RepAfter(rep, axis), d + 1)
         /\ PosAfter(pos, rep, axis) \in pos .. pos + 4
         /\ PosAfter(pos, rep, axis) = pos <=> axis.up /\ rep # axis.scale - 1
         /\ PosAfter(pos, rep, axis) # pos => RepAfter(rep, axis) = 0
         /\ PosAfter(pos, rep, axis) = pos => RepAfter(rep, axis) = rep + 1
<1>1. axis.scale \in 1 .. 4 /\ axis.up \in BOOLEAN
  BY DEF Axis
<1>2. CASE ~axis.up
  <2>1. Stride(rep, axis) = axis.scale /\ RepAfter(rep, axis) = 0
    BY <1>2 DEF Stride, RepAfter
  <2>2. PosAfter(pos, rep, axis) = pos + axis.scale
    BY <1>1, <2>1, CountModAssumption, ModSmall DEF PosAfter
  <2>3. AxisAt(axis, pos + axis.scale, 0, d + 1)
    <3>1. pos = d * axis.scale
      BY <1>2 DEF AxisAt
    <3>2. pos + axis.scale = (d + 1) * axis.scale
      BY <1>1, <3>1
    <3>. QED  BY <1>2, <3>2 DEF AxisAt
  <2>. QED  BY <1>1, <1>2, <2>1, <2>2, <2>3
<1>3. CASE axis.up
  <2>1. rep < axis.scale /\ d = pos * axis.scale + rep
    BY <1>3 DEF AxisAt
  <2>2. (rep + 1) % RepMod = rep + 1
    BY <1>1, <2>1 DEF RepMod
  <2>3. CASE rep = axis.scale - 1
    <3>1. Stride(rep, axis) = 1 /\ RepAfter(rep, axis) = 0
      BY <1>1, <1>3, <2>2, <2>3 DEF Stride, RepAfter, IsLastRep
    <3>2. PosAfter(pos, rep, axis) = pos + 1
      BY <3>1, CountModAssumption, ModSmall DEF PosAfter
    <3>3. d + 1 = (pos + 1) * axis.scale + 0
      BY <1>1, <2>1, <2>3
    <3>. QED  BY <1>1, <1>3, <2>3, <3>1, <3>2, <3>3 DEF AxisAt
  <2>4. CASE rep # axis.scale - 1
    <3>1. Stride(rep, axis) = 0 /\ RepAfter(rep, axis) = rep + 1
      BY <1>1, <1>3, <2>2, <2>4 DEF Stride, RepAfter, IsLastRep
    <3>2. PosAfter(pos, rep, axis) = pos
      BY <3>1, CountModAssumption, ModSmall DEF PosAfter
    <3>. QED  BY <1>1, <1>3, <2>1, <2>4, <3>1, <3>2 DEF AxisAt
  <2>. QED  BY <2>3, <2>4
<1>. QED  BY <1>2, <1>3

(***************************************************************************)
(* The counters.                                                           *)
(***************************************************************************)

\* What the constants' assumption says of an image the driver asks for.
LEMMA Sizes ==
  ASSUME TypeOK, whr.width \in Widths, whr.height \in Heights
  PROVE  /\ whr.width \in 1 .. MaxWidth
         /\ whr.width + 4 <= CountMod
         /\ whr.height \in Nat \ {0}
         /\ whr.height + 4 <= CountMod
         /\ MaxWidth \in Nat /\ CountMod \in Nat
<1>1. MaxWidth \in Nat /\ CountMod \in Nat /\ MaxWidth + 4 <= CountMod
  BY SizeAssumption, CountModAssumption
<1>2. whr.width \in 1 .. MaxWidth
  BY SizeAssumption
<1>3. whr.height \in 1 .. CountMod - 4
  BY SizeAssumption
<1>. QED  BY <1>1, <1>2, <1>3

\* Every register and counter is a natural number.
LEMMA Naturals ==
  ASSUME TypeOK
  PROVE  /\ whr.width \in Nat /\ whr.height \in Nat
         /\ stream.row \in Nat /\ stream.pixel \in Nat
         /\ output.row \in Nat /\ output.pixel \in Nat
         /\ output.row_rep \in Nat /\ output.pixel_rep \in Nat
         /\ tx.row \in Nat /\ tx.col \in Nat
         /\ rx.row \in Nat /\ rx.col \in Nat
<1>1. whr.width \in Nat /\ whr.height \in Nat
  BY CountModAssumption DEF TypeOK, WHR
<1>2. stream.row \in Nat /\ stream.pixel \in Nat
  BY CountModAssumption DEF TypeOK, Counter
<1>3. output.row \in Nat /\ output.pixel \in Nat
  BY CountModAssumption DEF TypeOK, Counter
<1>4. output.row_rep \in Nat /\ output.pixel_rep \in Nat
  BY DEF TypeOK, Counter, RepMod
<1>5. tx.row \in Nat /\ tx.col \in Nat /\ rx.row \in Nat /\ rx.col \in Nat
  BY DEF TypeOK
<1>. QED  BY <1>1, <1>2, <1>3, <1>4, <1>5

LEMMA Axes ==
  ASSUME TypeOK
  PROVE  xAxis \in Axis /\ yAxis \in Axis
  BY DEF TypeOK, CSR, xAxis, yAxis, Axis

\* The stream counter walks the source image as the transmit DMA does.
LEMMA WriterStep ==
  ASSUME TypeOK, whr.width \in Widths, whr.height \in Heights,
         WriterAtTx, stream.row < whr.height
  PROVE  LET s == Advance(stream, Unscaled, Unscaled, whr.width)
             t == NextPos(tx, whr.width)
         IN  /\ s = [pixel_rep |-> 0, pixel |-> t.col, row_rep |-> 0, row |-> t.row]
             /\ t.col \in Nat /\ t.row \in Nat
             /\ s.pixel < whr.width
             /\ \/ s.row = stream.row /\ s.pixel = stream.pixel + 1
                \/ s.row = stream.row + 1 /\ s.pixel = 0 /\ stream.pixel + 1 = whr.width
<1>. DEFINE w == whr.width
<1>1. /\ w \in Nat \ {0} /\ w + 4 <= CountMod
      /\ whr.height \in Nat /\ whr.height + 4 <= CountMod
      /\ CountMod \in Nat
  BY Sizes
<1>2. /\ tx \in [row : Nat, col : Nat]
      /\ stream.pixel = tx.col /\ stream.row = tx.row
      /\ stream.pixel_rep = 0 /\ stream.row_rep = 0
      /\ tx.col < w /\ tx.row < whr.height
  BY DEF TypeOK, WriterAtTx
<1>3. /\ Unscaled \in Axis /\ ~Unscaled.up /\ Unscaled.scale = 1
  BY DEF Unscaled, Axis
<1>4. PosAfter(stream.pixel, 0, Unscaled) = tx.col + 1
  BY <1>1, <1>2, <1>3, ModSmall DEF PosAfter, Stride
<1>5. PosAfter(stream.row, 0, Unscaled) = tx.row + 1
  BY <1>1, <1>2, <1>3, ModSmall DEF PosAfter, Stride
<1>6. RepAfter(0, Unscaled) = 0
  BY <1>3 DEF RepAfter
<1>7. stream = [pixel_rep |-> 0, pixel |-> tx.col, row_rep |-> 0, row |-> tx.row]
  BY DEF WriterAtTx
<1>8. CASE tx.col + 1 >= w
  <2>1. Advance(stream, Unscaled, Unscaled, w) =
          [pixel_rep |-> 0, pixel |-> 0, row_rep |-> 0, row |-> tx.row + 1]
    BY <1>2, <1>4, <1>5, <1>6, <1>8 DEF Advance
  <2>2. NextPos(tx, w) = [row |-> tx.row + 1, col |-> 0]
    BY <1>1, <1>2, <1>8 DEF NextPos
  <2>. QED  BY <1>1, <1>2, <1>8, <2>1, <2>2
<1>9. CASE tx.col + 1 < w
  <2>1. Advance(stream, Unscaled, Unscaled, w) =
          [pixel_rep |-> 0, pixel |-> tx.col + 1, row_rep |-> 0, row |-> tx.row]
    BY <1>1, <1>2, <1>4, <1>6, <1>7, <1>9 DEF Advance
  <2>2. NextPos(tx, w) = [row |-> tx.row, col |-> tx.col + 1]
    BY <1>1, <1>2, <1>9 DEF NextPos
  <2>. QED  BY <1>1, <1>2, <1>9, <2>1, <2>2
<1>. QED  BY <1>1, <1>2, <1>8, <1>9

\* The output counter walks the source image as the receive DMA walks the
\* scaled one.
LEMMA ReaderStep ==
  ASSUME TypeOK, whr.width \in Widths, whr.height \in Heights,
         ReaderAtRx, output.row < whr.height
  PROVE  LET o == Advance(output, xAxis, yAxis, whr.width)
             r == NextPos(rx, DestWidth)
         IN  /\ o \in Counter
             /\ r \in [row : Nat, col : Nat]
             /\ o.pixel < whr.width
             /\ o.row < whr.height + 4
             /\ r.row <= DestHeight
             /\ AxisAt(xAxis, o.pixel, o.pixel_rep, r.col)
             /\ AxisAt(yAxis, o.row, o.row_rep, r.row)
             /\ \/ o.row = output.row /\ o.row_rep = output.row_rep /\ o.pixel >= output.pixel
                \/ o.row = output.row /\ ~reader_last_rep
                \/ o.row > output.row
<1>. DEFINE w  == whr.width
            px == PosAfter(output.pixel, output.pixel_rep, xAxis)
            pr == RepAfter(output.pixel_rep, xAxis)
            rw == PosAfter(output.row, output.row_rep, yAxis)
            rr == RepAfter(output.row_rep, yAxis)
            o  == Advance(output, xAxis, yAxis, w)
            r  == NextPos(rx, DestWidth)
<1>1. /\ w \in Nat \ {0} /\ w + 4 <= CountMod
      /\ whr.height \in Nat /\ whr.height + 4 <= CountMod
      /\ CountMod \in Nat
  BY Sizes
<1>2. /\ output \in Counter /\ rx \in [row : Nat, col : Nat]
      /\ output.pixel \in Nat /\ output.row \in Nat
      /\ output.pixel_rep \in Nat /\ output.row_rep \in Nat
      /\ rx.col \in Nat /\ rx.row \in Nat
      /\ output.pixel < w
      /\ AxisAt(xAxis, output.pixel, output.pixel_rep, rx.col)
      /\ AxisAt(yAxis, output.row, output.row_rep, rx.row)
  <2>1. output \in Counter /\ rx \in [row : Nat, col : Nat]
    BY DEF TypeOK
  <2>. QED  BY <2>1, Naturals DEF ReaderAtRx
<1>3. xAxis \in Axis /\ yAxis \in Axis
  BY Axes
<1>4. /\ px \in Nat /\ pr \in Nat
      /\ AxisAt(xAxis, px, pr, rx.col + 1)
      /\ px \in output.pixel .. output.pixel + 4
      /\ px # output.pixel => pr = 0
  BY <1>1, <1>2, <1>3, AxisStep
<1>5. /\ rw \in Nat /\ rr \in Nat
      /\ AxisAt(yAxis, rw, rr, rx.row + 1)
      /\ rw \in output.row .. output.row + 4
      /\ rw = output.row <=> yAxis.up /\ output.row_rep # yAxis.scale - 1
  BY <1>1, <1>2, <1>3, AxisStep
<1>6. rx.col + 1 < DestWidth <=> px < w
  BY <1>1, <1>2, <1>3, <1>4, AxisMeaning DEF DestWidth
<1>7. pr < RepMod /\ rr < RepMod
  BY <1>3, <1>4, <1>5 DEF AxisAt, Axis, RepMod
<1>8. CASE px < w
  <2>1. o = [pixel_rep |-> pr, pixel |-> px, row_rep |-> output.row_rep, row |-> output.row]
    BY <1>1, <1>4, <1>8 DEF Advance
  <2>2. r = [row |-> rx.row, col |-> rx.col + 1]
    BY <1>6, <1>8 DEF NextPos
  <2>3. o \in Counter
    BY <1>1, <1>2, <1>4, <1>7, <1>8, <2>1 DEF Counter, RepMod
  <2>. QED  BY <1>1, <1>2, <1>4, <1>8, <2>1, <2>2, <2>3 DEF ReaderAtRx
<1>9. CASE ~(px < w)
  <2>1. o = [pixel_rep |-> pr, pixel |-> 0, row_rep |-> rr, row |-> rw]
    BY <1>1, <1>4, <1>9 DEF Advance
  <2>2. r = [row |-> rx.row + 1, col |-> 0]
    BY <1>6, <1>9 DEF NextPos
  <2>3. pr = 0
    BY <1>1, <1>2, <1>4, <1>9
  <2>4. AxisAt(xAxis, 0, 0, 0)
    BY <1>3 DEF AxisAt, Axis
  <2>5. rw < CountMod
    BY <1>1, <1>2, <1>5
  <2>6. o \in Counter
    BY <1>1, <1>5, <1>7, <2>1, <2>3, <2>5 DEF Counter, RepMod
  <2>7. rw < whr.height + 4
    BY <1>1, <1>2, <1>5
  <2>9. rx.row < DestHeight /\ DestHeight \in Nat
    <3>1. DestHeight \in Nat
      BY <1>1, <1>3 DEF DestHeight, DestLen, Axis
    <3>. QED  BY <1>1, <1>2, <1>3, <3>1, AxisMeaning DEF DestHeight
  <2>8. rw > output.row \/ (rw = output.row /\ ~reader_last_rep)
    BY <1>2, <1>5 DEF reader_last_rep
  <2>. QED  BY <1>1, <1>2, <1>5, <2>1, <2>2, <2>3, <2>4, <2>6, <2>7, <2>8, <2>9
<1>. QED  BY <1>8, <1>9

(***************************************************************************)
(* What the two helper signals mean within a frame.                        *)
(***************************************************************************)

\* A word is offered only while the frame lacks one, it is a word that has
\* come in, and it still is in the line buffer.
LEMMA CanRead ==
  ASSUME TypeOK, ScalerInv, running, output_can_read
  PROVE  /\ InFrame
         /\ output.row < whr.height
         /\ output.row < tx.row \/ (output.row = tx.row /\ output.pixel < tx.col)
         /\ buffer_out = Word(frame, output.row, output.pixel)
<1>1. whr.width \in Widths /\ whr.height \in Heights /\ (InFrame \/ FrameDone)
  BY DEF ScalerInv
<1>2. InFrame
  BY <1>1 DEF FrameDone, AtRest, ZeroCounter, output_can_read, reader_row_behind,
              reader_row_equal, reader_pixel_behind
<1>3. /\ whr.width \in Nat /\ whr.height \in Nat
      /\ tx.row \in Nat /\ tx.col \in Nat
      /\ output.row \in Nat /\ output.pixel \in Nat
  BY Naturals
<1>4. /\ stream.row = tx.row /\ stream.pixel = tx.col
      /\ stream.row <= whr.height
      /\ stream.row = whr.height => stream.pixel = 0
      /\ output.pixel < whr.width
      /\ stream.row <= output.row + 1
      /\ stream.row = output.row + 1 => stream.pixel <= output.pixel
  BY <1>2 DEF InFrame, WriterAtTx, ReaderAtRx, WriterInReach
<1>5. \/ output.row < stream.row
      \/ output.row = stream.row /\ output.pixel < stream.pixel
  BY DEF output_can_read, reader_row_behind, reader_row_equal, reader_pixel_behind
<1>6. output.pixel \in 0 .. whr.width - 1
  BY <1>3, <1>4
<1>7. /\ output.pixel < stream.pixel =>
           line_buffer[output.pixel] = Word(frame, stream.row, output.pixel)
      /\ output.pixel >= stream.pixel /\ stream.row > 0 =>
           line_buffer[output.pixel] = Word(frame, stream.row - 1, output.pixel)
  BY <1>2, <1>6 DEF InFrame, BufferHoldsLines
<1>8. CASE output.row < stream.row
  <2>1. stream.row - 1 = output.row /\ output.pixel >= stream.pixel /\ stream.row > 0
    BY <1>3, <1>4, <1>8
  <2>. QED  BY <1>2, <1>3, <1>4, <1>7, <1>8, <2>1 DEF buffer_out
<1>9. CASE output.row = stream.row /\ output.pixel < stream.pixel
  BY <1>2, <1>3, <1>4, <1>7, <1>9 DEF buffer_out
<1>. QED  BY <1>5, <1>8, <1>9

\* The word offered is the one the scaling function names.
LEMMA Due ==
  ASSUME TypeOK, ScalerInv, running, output_can_read
  PROVE  /\ rx.row < DestHeight
         /\ SrcOf(yAxis, rx.row) = output.row
         /\ SrcOf(xAxis, rx.col) = output.pixel
<1>1. /\ AxisAt(xAxis, output.pixel, output.pixel_rep, rx.col)
      /\ AxisAt(yAxis, output.row, output.row_rep, rx.row)
      /\ output.row < whr.height
  BY CanRead DEF InFrame, ReaderAtRx
<1>2. /\ output.pixel \in Nat /\ output.pixel_rep \in Nat
      /\ output.row \in Nat /\ output.row_rep \in Nat
      /\ rx.col \in Nat /\ rx.row \in Nat
  BY Naturals
<1>3. whr.width \in Nat /\ whr.height \in Nat
  BY Naturals
<1>. QED  BY <1>1, <1>2, <1>3, Axes, AxisMeaning DEF DestHeight

(***************************************************************************)
(* The properties follow from the inductive invariant.                     *)
(***************************************************************************)
IInv == TypeOK /\ ScalerInv

LEMMA IInvOffers ==  IInv => OffersDueWord
  BY CanRead, Due DEF IInv, OffersDueWord

LEMMA IInvNeverStuck ==  IInv => NeverStuck
<1>. SUFFICES ASSUME TypeOK, ScalerInv, running, ~(tx.row = whr.height /\ rx.row = DestHeight)
              PROVE  output_can_read \/ (stream_can_write /\ tx.row < whr.height)
  BY DEF IInv, NeverStuck
<1>1. InFrame /\ whr.width \in Widths /\ whr.height \in Heights
  BY DEF ScalerInv, FrameDone
<1>2. /\ whr.height \in Nat /\ stream.row \in Nat /\ output.row \in Nat
  BY Naturals
<1>3. /\ stream.row = tx.row /\ stream.row <= whr.height
      /\ ~(stream.row >= whr.height /\ output.row >= whr.height)
  BY <1>1 DEF InFrame, FrameOver, WriterAtTx
<1>. QED  BY <1>2, <1>3 DEF output_can_read, stream_can_write, reader_row_behind,
                            reader_row_ahead, reader_row_equal

LEMMA IInvFrameEndsClean ==  IInv => FrameEndsClean
<1>. SUFFICES ASSUME TypeOK, ScalerInv, running, tx.row = whr.height
              PROVE  IF rx.row = DestHeight
                       THEN stream = ZeroCounter /\ output = ZeroCounter
                       ELSE stream = [pixel_rep |-> 0, pixel |-> 0, row_rep |-> 0, row |-> whr.height]
  BY DEF IInv, FrameEndsClean
<1>1. whr.width \in Widths /\ whr.height \in Heights /\ (InFrame \/ FrameDone)
  BY DEF ScalerInv
<1>2. CASE FrameDone
  BY <1>2 DEF FrameDone, AtRest
<1>3. CASE InFrame
  <2>1. whr.height \in Nat /\ rx.row \in Nat /\ output.row \in Nat /\ output.row_rep \in Nat
    BY Naturals
  <2>2. stream = [pixel_rep |-> 0, pixel |-> 0, row_rep |-> 0, row |-> whr.height]
    BY <1>3 DEF InFrame, WriterAtTx
  <2>3. output.row < whr.height
    BY <1>3, <2>1, <2>2 DEF InFrame, FrameOver
  <2>4. rx.row < DestHeight
    BY <1>3, <2>1, <2>3, Axes, AxisMeaning DEF InFrame, ReaderAtRx, DestHeight
  <2>5. DestHeight \in Int
    BY <2>1, Axes DEF DestHeight, DestLen, Axis
  <2>. QED  BY <2>1, <2>2, <2>4, <2>5
<1>. QED  BY <1>1, <1>2, <1>3

(***************************************************************************)
(* The invariant is inductive.                                             *)
(***************************************************************************)

LEMMA InitIInv ==  Init => IInv
<1>. SUFFICES ASSUME Init PROVE IInv
  OBVIOUS
<1>1. csr \in CSR /\ whr \in WHR
  BY CountModAssumption DEF Init, CSR, WHR
<1>2. stream \in Counter /\ output \in Counter
  BY CountModAssumption DEF Init, Counter, ZeroCounter, RepMod
<1>3. NoWord \in Words /\ frame \in 0 .. MaxFrames
  BY SizeAssumption DEF Init, NoWord, Word, Words
<1>4. line_buffer \in [0 .. MaxWidth - 1 -> Words]
  BY <1>3 DEF Init
<1>5. TypeOK
  BY <1>1, <1>2, <1>3, <1>4 DEF Init, TypeOK, Origin
<1>6. ScalerInv
  BY DEF Init, ScalerInv, AtRest
<1>. QED  BY <1>5, <1>6 DEF IInv

LEMMA ZeroCounterType ==  ZeroCounter \in Counter
  BY CountModAssumption DEF ZeroCounter, Counter, RepMod

\* Nothing moves once the frame is done.
LEMMA ClockAfterFrame ==
  ASSUME TypeOK, FrameDone, running, whr.width \in Widths, whr.height \in Heights,
         NEW valid \in BOOLEAN, NEW ready \in BOOLEAN, Clock(valid, ready)
  PROVE  UNCHANGED vars
<1>1. stream = ZeroCounter /\ output = ZeroCounter /\ tx.row = whr.height
  BY DEF FrameDone, AtRest
<1>2. whr.height \in Nat \ {0}
  BY Sizes
<1>3. ~valid
  BY <1>1, <1>2 DEF Clock
<1>4. ~output_can_read
  BY <1>1 DEF output_can_read, reader_row_behind, reader_row_equal, reader_pixel_behind,
              ZeroCounter
<1>5. ~FrameOver(stream, output)
  BY <1>1, <1>2 DEF FrameOver, ZeroCounter
<1>. QED  BY <1>3, <1>4, <1>5 DEF Clock, vars

\* A word that comes in is the next one of the source image.
LEMMA WriterMoves ==
  ASSUME TypeOK, InFrame, running, whr.width \in Widths, whr.height \in Heights,
         tx.row < whr.height
  PROVE  LET s  == Advance(stream, Unscaled, Unscaled, whr.width)
             t  == NextPos(tx, whr.width)
             lb == [line_buffer EXCEPT ![stream.pixel] = Word(frame, tx.row, tx.col)]
         IN  \A c \in 0 .. whr.width - 1 :
               /\ c < s.pixel => lb[c] = Word(frame, s.row, c)
               /\ c >= s.pixel /\ s.row > 0 => lb[c] = Word(frame, s.row - 1, c)
<1>. DEFINE s  == Advance(stream, Unscaled, Unscaled, whr.width)
            lb == [line_buffer EXCEPT ![stream.pixel] = Word(frame, tx.row, tx.col)]
<1>1. /\ stream.row = tx.row /\ stream.pixel = tx.col
      /\ stream.row < whr.height /\ stream.pixel < whr.width
  BY DEF InFrame, WriterAtTx
<1>2. \/ s.row = stream.row /\ s.pixel = stream.pixel + 1
      \/ s.row = stream.row + 1 /\ s.pixel = 0 /\ stream.pixel + 1 = whr.width
  BY <1>1, WriterStep DEF InFrame
<1>3. \A c \in 0 .. whr.width - 1 :
        lb[c] = IF c = stream.pixel THEN Word(frame, stream.row, stream.pixel) ELSE line_buffer[c]
  <2>1. \A c \in 0 .. whr.width - 1 : c \in 0 .. MaxWidth - 1
    BY Sizes
  <2>. QED  BY <1>1, <2>1 DEF TypeOK
<1>4. SUFFICES ASSUME NEW c \in 0 .. whr.width - 1
               PROVE  /\ c < s.pixel => lb[c] = Word(frame, s.row, c)
                      /\ c >= s.pixel /\ s.row > 0 => lb[c] = Word(frame, s.row - 1, c)
  OBVIOUS
<1>5. /\ c < stream.pixel => line_buffer[c] = Word(frame, stream.row, c)
      /\ c >= stream.pixel /\ stream.row > 0 => line_buffer[c] = Word(frame, stream.row - 1, c)
  BY DEF InFrame, BufferHoldsLines
<1>6. /\ stream.row \in Nat /\ stream.pixel \in Nat /\ whr.width \in Nat
  BY Naturals
<1>7. lb[c] = IF c = stream.pixel THEN Word(frame, stream.row, stream.pixel) ELSE line_buffer[c]
  BY <1>3
<1>. HIDE DEF s, lb
<1>8. CASE s.row = stream.row /\ s.pixel = stream.pixel + 1
  <2>1. CASE c = stream.pixel
    BY <1>6, <1>7, <1>8, <2>1
  <2>2. CASE c < stream.pixel
    BY <1>5, <1>6, <1>7, <1>8, <2>2
  <2>3. CASE c > stream.pixel
    BY <1>5, <1>6, <1>7, <1>8, <2>3
  <2>. QED  BY <1>6, <2>1, <2>2, <2>3
<1>9. CASE s.row = stream.row + 1 /\ s.pixel = 0 /\ stream.pixel + 1 = whr.width
  <2>1. s.row - 1 = stream.row /\ c >= s.pixel /\ c <= stream.pixel
    BY <1>6, <1>9
  <2>2. CASE c = stream.pixel
    BY <1>6, <1>7, <1>9, <2>1, <2>2
  <2>3. CASE c < stream.pixel
    BY <1>5, <1>6, <1>7, <1>9, <2>1, <2>3
  <2>. QED  BY <1>6, <2>1, <2>2, <2>3
<1>. QED  BY <1>2, <1>8, <1>9

\* A clock cycle within a frame: either stream may move, or both.
LEMMA ClockInFrame ==
  ASSUME TypeOK, InFrame, running, whr.width \in Widths, whr.height \in Heights,
         NEW valid \in BOOLEAN, NEW ready \in BOOLEAN, Clock(valid, ready)
  PROVE  TypeOK' /\ (InFrame \/ FrameDone)'
<1>. DEFINE sn == stream_can_write /\ valid
            on == ready /\ output_can_read
            s  == IF sn THEN Advance(stream, Unscaled, Unscaled, whr.width) ELSE stream
            o  == IF on THEN Advance(output, xAxis, yAxis, whr.width) ELSE output
            w  == whr.width
            h  == whr.height
<1>1. /\ stream' = IF FrameOver(s, o) THEN ZeroCounter ELSE s
      /\ output' = IF FrameOver(s, o) THEN ZeroCounter ELSE o
      /\ line_buffer' = IF sn THEN [line_buffer EXCEPT ![stream.pixel] = Word(frame, tx.row, tx.col)]
                              ELSE line_buffer
      /\ tx' = IF sn THEN NextPos(tx, w) ELSE tx
      /\ rx' = IF on THEN NextPos(rx, DestWidth) ELSE rx
      /\ aso' = IF on THEN buffer_out ELSE aso
      /\ UNCHANGED <<csr, whr, running, frame>>
      /\ valid => tx.row < h
  BY DEF Clock
<1>2. /\ w \in 1 .. MaxWidth /\ w + 4 <= CountMod
      /\ h \in Nat \ {0} /\ h + 4 <= CountMod
      /\ CountMod \in Nat /\ MaxWidth \in Nat
  BY Sizes
<1>3. /\ stream.row = tx.row /\ stream.pixel = tx.col
      /\ stream.row <= h /\ stream.pixel < w
      /\ stream.row = h => stream.pixel = 0
      /\ stream = [pixel_rep |-> 0, pixel |-> tx.col, row_rep |-> 0, row |-> tx.row]
  BY DEF InFrame, WriterAtTx
<1>4. /\ s = [pixel_rep |-> 0, pixel |-> tx'.col, row_rep |-> 0, row |-> tx'.row]
      /\ tx' \in [row : Nat, col : Nat]
      /\ s.pixel < w /\ s.row <= h /\ (s.row = h => s.pixel = 0)
      /\ \/ s = stream
         \/ sn /\ s.row = stream.row /\ s.pixel = stream.pixel + 1
         \/ sn /\ s.row = stream.row + 1 /\ s.pixel = 0 /\ stream.pixel + 1 = w
  <2>1. CASE ~sn
    BY <1>1, <1>3, <2>1 DEF TypeOK
  <2>2. CASE sn
    <3>1. stream.row < h
      BY <1>1, <1>3, <2>2
    <3>2. WriterAtTx
      BY DEF InFrame
    <3>3. NextPos(tx, w) \in [row : Nat, col : Nat]
      BY <1>2, Naturals DEF NextPos
    <3>4. s = Advance(stream, Unscaled, Unscaled, w) /\ tx' = NextPos(tx, w)
      BY <1>1, <2>2
    <3>5. /\ s = [pixel_rep |-> 0, pixel |-> tx'.col, row_rep |-> 0, row |-> tx'.row]
          /\ s.pixel < w
          /\ \/ s.row = stream.row /\ s.pixel = stream.pixel + 1
             \/ s.row = stream.row + 1 /\ s.pixel = 0 /\ stream.pixel + 1 = w
      BY <3>1, <3>2, <3>4, WriterStep
    <3>. HIDE DEF s
    <3>. QED  BY <1>2, <2>2, <3>1, <3>3, <3>4, <3>5, Naturals
  <2>. QED  BY <2>1, <2>2
<1>5. on => output.row < h
  BY CanRead DEF ScalerInv
<1>6. /\ o \in Counter
      /\ rx' \in [row : Nat, col : Nat]
      /\ o.pixel < w /\ o.row < h + 4 /\ rx'.row <= DestHeight
      /\ AxisAt(xAxis, o.pixel, o.pixel_rep, rx'.col)
      /\ AxisAt(yAxis, o.row, o.row_rep, rx'.row)
      /\ \/ o = output
         \/ on /\ o.row = output.row /\ o.row_rep = output.row_rep /\ o.pixel >= output.pixel
         \/ on /\ o.row = output.row /\ ~reader_last_rep
         \/ on /\ o.row > output.row
  <2>1. CASE ~on
    BY <1>1, <2>1 DEF TypeOK, InFrame, ReaderAtRx
  <2>2. CASE on
    <3>1. output.row < h /\ ReaderAtRx
      BY <1>5, <2>2 DEF InFrame
    <3>2. o = Advance(output, xAxis, yAxis, w) /\ rx' = NextPos(rx, DestWidth)
      BY <1>1, <2>2
    <3>. HIDE DEF o
    <3>. QED  BY <2>2, <3>1, <3>2, ReaderStep
  <2>. QED  BY <2>1, <2>2
<1>7. line_buffer' \in [0 .. MaxWidth - 1 -> Words] /\ aso' \in Words
  <2>1. Word(frame, tx.row, tx.col) \in Words
    BY Naturals DEF TypeOK, Word, Words
  <2>2. output.pixel \in 0 .. MaxWidth - 1
    BY <1>2, Naturals DEF InFrame, ReaderAtRx
  <2>3. buffer_out \in Words
    BY <2>2 DEF buffer_out, TypeOK
  <2>. QED  BY <1>1, <2>1, <2>3 DEF TypeOK
<1>8. s \in Counter
  <2>1. s.pixel < CountMod /\ s.row < CountMod /\ s.pixel \in Nat /\ s.row \in Nat
    <3>. HIDE DEF s
    <3>. QED  BY <1>2, <1>4
  <2>. HIDE DEF s
  <2>. QED  BY <1>2, <1>4, <2>1 DEF Counter, RepMod
<1>9. TypeOK'
  BY <1>1, <1>4, <1>6, <1>7, <1>8, ZeroCounterType DEF TypeOK
<1>10. UNCHANGED <<xAxis, yAxis, DestWidth, DestHeight>>
  BY <1>1 DEF xAxis, yAxis, DestWidth, DestHeight
<1>11. \A c \in 0 .. w - 1 :
         /\ c < s.pixel => line_buffer'[c] = Word(frame, s.row, c)
         /\ c >= s.pixel /\ s.row > 0 => line_buffer'[c] = Word(frame, s.row - 1, c)
  <2>1. CASE ~sn
    BY <1>1, <2>1 DEF InFrame, BufferHoldsLines
  <2>2. CASE sn
    BY <1>1, <2>2, WriterMoves
  <2>. QED  BY <2>1, <2>2
<1>12. /\ s.row <= o.row + 1
       /\ s.row = o.row + 1 =>
            s.pixel <= o.pixel /\ (s.pixel > 0 => o.row_rep = yAxis.scale - 1 \/ ~yAxis.up)
  <2>1. /\ stream.row <= output.row + 1
        /\ stream.row = output.row + 1 =>
             stream.pixel <= output.pixel /\ (stream.pixel > 0 => reader_last_rep)
    BY DEF InFrame, WriterInReach
  <2>2. sn /\ stream.row = output.row + 1 => reader_last_rep /\ output.pixel > stream.pixel
    BY Naturals DEF stream_can_write, reader_row_ahead, reader_row_equal, reader_pixel_ahead
  <2>3. reader_last_rep <=> output.row_rep = yAxis.scale - 1 \/ ~yAxis.up
    BY DEF reader_last_rep
  <2>4. /\ s.row \in Nat /\ s.pixel \in Nat /\ o.row \in Nat /\ o.pixel \in Nat
    <3>. HIDE DEF s, o
    <3>. QED  BY <1>2, <1>4, <1>6 DEF Counter
  <2>5. output.pixel < w
    BY DEF InFrame, ReaderAtRx
  <2>. HIDE DEF s, o, sn, on
  <2>6. CASE s = stream
    BY <1>6, <2>1, <2>3, <2>4, <2>6, Naturals
  <2>7. CASE sn /\ s.row = stream.row /\ s.pixel = stream.pixel + 1
    BY <1>6, <2>1, <2>2, <2>3, <2>4, <2>7, Naturals
  <2>8. CASE sn /\ s.row = stream.row + 1 /\ s.pixel = 0 /\ stream.pixel + 1 = w
    BY <1>2, <1>6, <2>1, <2>2, <2>4, <2>5, <2>8, Naturals
  <2>. QED  BY <1>4, <2>6, <2>7, <2>8
<1>. HIDE DEF s, o, sn, on
<1>13. CASE FrameOver(s, o)
  <2>1. s.row >= h /\ o.row >= h
    BY <1>13 DEF FrameOver
  <2>2. tx'.row = h
    BY <1>2, <1>4, <2>1
  <2>3. ~(rx'.row < DestHeight)
    <3>1. o.row \in Nat /\ o.row_rep \in Nat
      BY <1>2, <1>6 DEF Counter, RepMod
    <3>. QED  BY <1>2, <1>6, <2>1, <3>1, Axes, AxisMeaning DEF DestHeight
  <2>4. rx'.row = DestHeight
    <3>1. DestHeight \in Int
      BY <1>2, Axes DEF DestHeight, DestLen, Axis
    <3>. QED  BY <1>6, <2>3, <3>1
  <2>. QED  BY <1>1, <1>9, <1>10, <1>13, <2>2, <2>4 DEF FrameDone, AtRest
<1>14. CASE ~FrameOver(s, o)
  <2>1. stream' = s /\ output' = o /\ whr' = whr /\ frame' = frame
    BY <1>1, <1>14
  <2>2. ~FrameOver(stream, output)'
    BY <1>14, <2>1 DEF FrameOver
  <2>3. WriterAtTx'
    BY <1>4, <2>1 DEF WriterAtTx
  <2>4. ReaderAtRx'
    BY <1>6, <1>10, <2>1 DEF ReaderAtRx, AxisAt
  <2>5. WriterInReach'
    BY <1>10, <1>12, <2>1 DEF WriterInReach, reader_last_rep
  <2>6. BufferHoldsLines'
    BY <1>11, <2>1 DEF BufferHoldsLines, Word
  <2>. QED  BY <1>9, <2>2, <2>3, <2>4, <2>5, <2>6 DEF InFrame
<1>. QED  BY <1>13, <1>14

LEMMA StutterIInv ==  IInv /\ UNCHANGED vars => IInv'
<1>. SUFFICES ASSUME TypeOK, ScalerInv, UNCHANGED vars PROVE TypeOK' /\ ScalerInv'
  BY DEF IInv
<1>1. TypeOK'
  BY DEF vars, TypeOK
<1>2. UNCHANGED <<xAxis, yAxis, DestWidth, DestHeight, AtRest, reader_last_rep>>
  BY DEF vars, xAxis, yAxis, DestWidth, DestHeight, AtRest, reader_last_rep
<1>3. InFrame => InFrame'
  BY <1>2 DEF vars, InFrame, FrameOver, WriterAtTx, ReaderAtRx, AxisAt, WriterInReach,
              BufferHoldsLines
<1>4. FrameDone => FrameDone'
  BY <1>2 DEF vars, FrameDone, AtRest
<1>. QED  BY <1>1, <1>2, <1>3, <1>4 DEF vars, ScalerInv

\* Each step of the accelerator and its surroundings preserves the invariant.
LEMMA NextIInv ==  IInv /\ [Next]_vars => IInv'
<1>. SUFFICES ASSUME TypeOK, ScalerInv, [Next]_vars PROVE TypeOK' /\ ScalerInv'
  BY DEF IInv
<1>0. /\ csr \in CSR /\ whr \in WHR /\ line_buffer \in [0 .. MaxWidth - 1 -> Words]
      /\ running \in BOOLEAN /\ frame \in 0 .. MaxFrames /\ aso \in Words
      /\ NoWord \in Words /\ Origin \in [row : Nat, col : Nat]
  <2>1. NoWord \in Words
    BY SizeAssumption DEF NoWord, Word, Words
  <2>. QED  BY <2>1 DEF TypeOK, Origin
<1>1. CASE Reset
  <2>1. csr' \in CSR /\ whr' \in WHR
    <3>1. csr' \in CSR
      BY <1>0, <1>1 DEF Reset, CSR
    <3>2. whr' \in WHR
      BY <1>1, CountModAssumption DEF Reset, WHR
    <3>. QED  BY <3>1, <3>2
  <2>2. TypeOK'
    BY <1>0, <1>1, <2>1, ZeroCounterType DEF Reset, TypeOK
  <2>3. ScalerInv'
    BY <1>1 DEF Reset, ScalerInv, AtRest
  <2>. QED  BY <2>2, <2>3
<1>2. ASSUME NEW data \in Settings, WriteCSR(data) PROVE TypeOK' /\ ScalerInv'
  <2>1. data \in CSR
    BY SizeAssumption
  <2>2. TypeOK'
    BY <1>2, <2>1, ZeroCounterType DEF WriteCSR, envVars, TypeOK
  <2>3. ScalerInv'
    BY <1>2 DEF WriteCSR, envVars, ScalerInv, AtRest
  <2>. QED  BY <2>2, <2>3
<1>3. ASSUME NEW data \in [height : Heights, width : Widths], WriteWHR(data)
      PROVE  TypeOK' /\ ScalerInv'
  <2>1. data.height \in 0 .. CountMod - 1 /\ data.width \in 0 .. CountMod - 1
    <3>1. data.height \in 1 .. CountMod - 4 /\ data.width \in 1 .. MaxWidth
      BY SizeAssumption
    <3>. QED  BY <3>1, SizeAssumption, CountModAssumption
  <2>2. data \in WHR
    BY <2>1 DEF WHR
  <2>3. TypeOK'
    BY <1>3, <2>2, ZeroCounterType DEF WriteWHR, envVars, TypeOK
  <2>4. ScalerInv'
    BY <1>3 DEF WriteWHR, envVars, ScalerInv, AtRest
  <2>. QED  BY <2>3, <2>4
<1>4. CASE Start
  <2>1. TypeOK'
    BY <1>0, <1>4, SizeAssumption DEF Start, hwVars, TypeOK
  <2>2. /\ ~running /\ running' /\ UNCHANGED <<hwVars, tx, rx, aso>>
        /\ whr.width \in Widths /\ whr.height \in Heights
    BY <1>4 DEF Start
  <2>3. AtRest /\ tx = Origin /\ rx = Origin
    BY <2>2 DEF ScalerInv
  <2>4. InFrame'
    <3>1. /\ whr.width \in Nat \ {0} /\ whr.height \in Nat \ {0}
          /\ xAxis \in Axis /\ yAxis \in Axis
      BY <2>2, Sizes, Axes
    <3>2. /\ stream' = ZeroCounter /\ output' = ZeroCounter /\ whr' = whr /\ csr' = csr
          /\ tx' = Origin /\ rx' = Origin
      BY <2>2, <2>3 DEF AtRest, hwVars
    <3>3. ~FrameOver(stream, output)'
      BY <3>1, <3>2 DEF FrameOver, ZeroCounter
    <3>4. WriterAtTx'
      BY <3>1, <3>2 DEF WriterAtTx, ZeroCounter, Origin
    <3>5. ReaderAtRx'
      <4>1. DestHeight \in Nat
        BY <3>1 DEF DestHeight, DestLen, Axis
      <4>2. xAxis' = xAxis /\ yAxis' = yAxis /\ DestHeight' = DestHeight
        BY <3>2 DEF xAxis, yAxis, DestHeight
      <4>3. AxisAt(xAxis, 0, 0, 0) /\ AxisAt(yAxis, 0, 0, 0)
        BY <3>1 DEF AxisAt, Axis
      <4>. QED  BY <3>1, <3>2, <4>1, <4>2, <4>3 DEF ReaderAtRx, ZeroCounter, Origin
    <3>6. WriterInReach'
      BY <3>2 DEF WriterInReach, ZeroCounter
    <3>7. BufferHoldsLines'
      BY <3>1, <3>2 DEF BufferHoldsLines, ZeroCounter
    <3>. QED  BY <3>3, <3>4, <3>5, <3>6, <3>7 DEF InFrame
  <2>. QED  BY <2>1, <2>2, <2>4 DEF ScalerInv, hwVars
<1>5. ASSUME NEW valid \in BOOLEAN, NEW ready \in BOOLEAN, Clock(valid, ready)
      PROVE  TypeOK' /\ ScalerInv'
  <2>1. running /\ running' /\ whr' = whr
    BY <1>5 DEF Clock
  <2>2. whr.width \in Widths /\ whr.height \in Heights /\ (InFrame \/ FrameDone)
    BY <2>1 DEF ScalerInv
  <2>3. CASE InFrame
    <3>1. TypeOK' /\ (InFrame \/ FrameDone)'
      BY <1>5, <2>1, <2>2, <2>3, ClockInFrame
    <3>. QED  BY <2>1, <2>2, <3>1 DEF ScalerInv
  <2>4. CASE FrameDone
    <3>1. UNCHANGED vars
      BY <1>5, <2>1, <2>2, <2>4, ClockAfterFrame
    <3>. QED  BY <3>1, StutterIInv DEF IInv
  <2>. QED  BY <2>2, <2>3, <2>4
<1>6. CASE UNCHANGED vars
  BY <1>6, StutterIInv DEF IInv
<1>7. CASE Finish
  <2>1. running /\ tx.row = whr.height /\ rx.row = DestHeight
    BY <1>7 DEF Finish
  <2>2. TypeOK'
    BY <1>0, <1>7 DEF Finish, hwVars, TypeOK
  <2>3. AtRest
    BY <2>1, IInvFrameEndsClean DEF IInv, FrameEndsClean, AtRest
  <2>4. ScalerInv'
    BY <1>7, <2>3 DEF Finish, hwVars, ScalerInv, AtRest
  <2>. QED  BY <2>2, <2>4
<1>. QED  BY <1>1, <1>2, <1>3, <1>4, <1>5, <1>6, <1>7 DEF Next

(***************************************************************************)
(* The theorems.                                                           *)
(***************************************************************************)

\* The invariant holds throughout: the registers and counters stay within
\* their width, and the line buffer holds what the counters say.
THEOREM InvariantHolds ==  Spec => []IInv
  BY InitIInv, NextIInv, PTL DEF Spec

\* Counters never leave their range and the line buffer is never written
\* outside its size, for any images the driver may ask for.
THEOREM TypeCorrect ==  Spec => []TypeOK
<1>1. IInv => TypeOK
  BY DEF IInv
<1>. QED  BY <1>1, InvariantHolds, PTL

\* The accelerator is always between frames with everything at its start,
\* within a frame with both lines of the buffer where the counters say, or past
\* the last word of one with its counters cleared.
THEOREM CountersAgree ==  Spec => []ScalerInv
<1>1. IInv => ScalerInv
  BY DEF IInv
<1>. QED  BY <1>1, InvariantHolds, PTL

\* The word on the aso port is always the one due: never overwritten by the
\* line after it, never left over from the line or the frame before.
THEOREM OffersCorrect ==  Spec => []OffersDueWord
  BY IInvOffers, InvariantHolds, PTL

\* Reader and writer never wait for each other, whatever the geometry.
THEOREM DeadlockFree ==  Spec => []NeverStuck
  BY IInvNeverStuck, InvariantHolds, PTL

\* At the end of a frame the counters are back at the start by themselves.
THEOREM EndsClean ==  Spec => []FrameEndsClean
  BY IInvFrameEndsClean, InvariantHolds, PTL

\* The end of frame comparison never fires early.
LEMMA RestartStep ==
  IInv /\ IInv' /\ [Next]_vars =>
    [ running /\ running' /\ <<stream', output'>> = <<ZeroCounter, ZeroCounter>>
        /\ <<stream, output>> # <<ZeroCounter, ZeroCounter>>
      => tx'.row = whr.height /\ rx'.row = DestHeight ]_vars
<1>. SUFFICES ASSUME TypeOK, ScalerInv, ScalerInv', Next, running, running',
                     stream' = ZeroCounter, output' = ZeroCounter,
                     ~(stream = ZeroCounter /\ output = ZeroCounter)
              PROVE  tx'.row = whr.height /\ rx'.row = DestHeight
  BY DEF IInv
<1>1. PICK valid \in BOOLEAN, ready \in BOOLEAN : Clock(valid, ready)
  BY DEF Next, Reset, WriteCSR, WriteWHR, Start, Finish
<1>2. /\ whr' = whr /\ csr' = csr
      /\ whr.width \in Widths /\ whr.height \in Heights
      /\ InFrame \/ FrameDone
      /\ (InFrame \/ FrameDone)'
  BY <1>1 DEF Clock, ScalerInv
<1>3. CASE FrameDone'
  BY <1>2, <1>3 DEF FrameDone, DestHeight, yAxis
<1>4. CASE FrameDone
  BY <1>4 DEF FrameDone, AtRest
<1>5. CASE InFrame /\ InFrame'
  <2>1. tx'.row = 0 /\ tx'.col = 0
    BY <1>5 DEF InFrame, WriterAtTx, ZeroCounter
  <2>2. ~(stream_can_write /\ valid)
    <3>. SUFFICES ASSUME stream_can_write, valid PROVE FALSE
      OBVIOUS
    <3>1. tx.row < whr.height /\ tx' = NextPos(tx, whr.width)
      BY <1>1 DEF Clock
    <3>. QED  BY <2>1, <3>1, Naturals DEF NextPos
  <2>3. tx = tx'
    BY <1>1, <2>2 DEF Clock
  <2>4. stream = ZeroCounter
    BY <1>5, <2>1, <2>3 DEF InFrame, WriterAtTx, ZeroCounter
  <2>5. ~output_can_read
    <3>. SUFFICES ASSUME output_can_read PROVE FALSE
      OBVIOUS
    <3>1. output.row < tx.row \/ (output.row = tx.row /\ output.pixel < tx.col)
      BY CanRead
    <3>. QED  BY <2>1, <2>3, <3>1, Naturals
  <2>6. ~FrameOver(stream, output)
    BY <1>5 DEF InFrame
  <2>7. output' = output
    BY <1>1, <2>2, <2>5, <2>6 DEF Clock
  <2>. QED  BY <2>4, <2>7
<1>. QED  BY <1>2, <1>3, <1>4, <1>5

\* Within a frame the counters restart only at the step that completes it.
THEOREM RestartsCorrect ==  Spec => RestartsOnlyAtEnd
<1>1. Spec => [][Next]_vars
  BY DEF Spec
<1>. QED  BY <1>1, RestartStep, InvariantHolds, PTL DEF RestartsOnlyAtEnd

(***************************************************************************)
(* The accelerator implements the scaler.                                  *)
(***************************************************************************)

\* A clock cycle moves the words that the scaler may move.
LEMMA ClockTransfers ==
  ASSUME TypeOK, ScalerInv, NEW valid \in BOOLEAN, NEW ready \in BOOLEAN, Clock(valid, ready)
  PROVE  Scaler!Transfer \/ UNCHANGED Scaler!vars
<1>. DEFINE sn == stream_can_write /\ valid
            on == ready /\ output_can_read
<1>1. /\ running
      /\ tx' = IF sn THEN NextPos(tx, whr.width) ELSE tx
      /\ rx' = IF on THEN NextPos(rx, DestWidth) ELSE rx
      /\ aso' = IF on THEN buffer_out ELSE aso
      /\ UNCHANGED <<csr, whr, running, frame>>
      /\ valid => tx.row < whr.height
  BY DEF Clock
<1>2. xAxis' = xAxis /\ yAxis' = yAxis
  BY <1>1 DEF xAxis, yAxis
<1>3. sn => Scaler!TakeWord
  BY <1>1 DEF Scaler!TakeWord, Scaler!NextPos, NextPos
<1>4. on => Scaler!GiveWord
  <2>. SUFFICES ASSUME on PROVE Scaler!GiveWord
    OBVIOUS
  <2>1. /\ rx.row < DestHeight
        /\ SrcOf(yAxis, rx.row) = output.row
        /\ SrcOf(xAxis, rx.col) = output.pixel
    BY <1>1, Due
  <2>2. /\ output.row < tx.row \/ (output.row = tx.row /\ output.pixel < tx.col)
        /\ buffer_out = Word(frame, output.row, output.pixel)
    BY <1>1, CanRead
  <2>. QED  BY <1>1, <2>1, <2>2 DEF Scaler!GiveWord, Scaler!DestHeight, Scaler!DestWidth,
         Scaler!Precedes, Scaler!DuePos, Scaler!DueWord, Scaler!SourceWord, Scaler!SrcOf,
         Scaler!NextPos, Scaler!DestLen, DestHeight, DestWidth, SrcOf, NextPos, DestLen, Word
<1>. HIDE DEF sn, on
<1>5. CASE sn /\ on
  BY <1>1, <1>2, <1>3, <1>4, <1>5 DEF Scaler!Transfer
<1>6. CASE sn /\ ~on
  BY <1>1, <1>2, <1>3, <1>6 DEF Scaler!Transfer
<1>7. CASE ~sn /\ on
  BY <1>1, <1>2, <1>4, <1>7 DEF Scaler!Transfer
<1>8. CASE ~sn /\ ~on
  BY <1>1, <1>2, <1>8 DEF Scaler!vars
<1>. QED  BY <1>5, <1>6, <1>7, <1>8

LEMMA StepImplements ==  IInv /\ [Next]_vars => [Scaler!Next]_(Scaler!vars)
<1>. SUFFICES ASSUME TypeOK, ScalerInv, [Next]_vars
              PROVE  Scaler!Next \/ UNCHANGED Scaler!vars
  BY DEF IInv
<1>1. CASE Reset
  BY <1>1 DEF Reset, NoWord, Word, Origin, Scaler!Next, Scaler!Reset, Scaler!Forget,
              Scaler!NoWord, Scaler!SourceWord, Scaler!Origin
<1>2. ASSUME NEW data \in Settings, WriteCSR(data) PROVE Scaler!Next
  BY <1>2 DEF WriteCSR, envVars, Scaler!Next, Scaler!Program
<1>3. ASSUME NEW data \in [height : Heights, width : Widths], WriteWHR(data) PROVE Scaler!Next
  BY <1>3 DEF WriteWHR, envVars, Scaler!Next, Scaler!Program
<1>4. CASE Start
  BY <1>4 DEF Start, hwVars, xAxis, yAxis, Scaler!Next, Scaler!Start
<1>5. ASSUME NEW valid \in BOOLEAN, NEW ready \in BOOLEAN, Clock(valid, ready)
      PROVE  Scaler!Next \/ UNCHANGED Scaler!vars
  BY <1>5, ClockTransfers DEF Scaler!Next
<1>6. CASE Finish
  BY <1>6 DEF Finish, hwVars, xAxis, yAxis, NoWord, Word, Origin, DestHeight, DestLen,
              Scaler!Next, Scaler!Finish, Scaler!Complete, Scaler!DestHeight, Scaler!DestLen,
              Scaler!Forget, Scaler!NoWord, Scaler!SourceWord, Scaler!Origin
<1>7. CASE UNCHANGED vars
  BY <1>7 DEF vars, xAxis, yAxis, Scaler!vars
<1>. QED  BY <1>1, <1>2, <1>3, <1>4, <1>5, <1>6, <1>7 DEF Next

\* In every frame the accelerator gives the words of the scaled image, all of
\* them, in order and none before it came in.
THEOREM Implements ==  Spec => ImplementsScaler
<1>1. Init => Scaler!Init
  BY DEF Init, NoWord, Word, Origin, Scaler!Init, Scaler!NoWord, Scaler!SourceWord, Scaler!Origin
<1>. QED  BY <1>1, StepImplements, InvariantHolds, PTL DEF Spec, ImplementsScaler, Scaler!Spec

(***************************************************************************)
(* The software scaler.                                                    *)
(***************************************************************************)
\* Both factors name an axis, whose steps are those of the two loops.
LEMMA Factor ==
  ASSUME NEW scale \in Scales
  PROVE  /\ AxisOf(scale) \in Axis
         /\ SourceStep(scale) = IF AxisOf(scale).up THEN 1 ELSE AxisOf(scale).scale
         /\ DestinationStep(scale) = IF AxisOf(scale).up THEN AxisOf(scale).scale ELSE 1
         /\ SourceStep(scale) \in 1 .. 4 /\ DestinationStep(scale) \in 1 .. 4
<1>1. scale \in (-4 .. 4) \ {0}
  BY RegionsAssumption
<1>2. CASE scale > 0
  <2>1. AxisOf(scale) = [up |-> TRUE, scale |-> scale]
    BY <1>2 DEF AxisOf
  <2>2. SourceStep(scale) = 1 /\ DestinationStep(scale) = scale
    BY <1>2 DEF SourceStep, DestinationStep
  <2>. QED  BY <1>1, <1>2, <2>1, <2>2 DEF Axis
<1>3. CASE ~(scale > 0)
  <2>1. ~AxisOf(scale).up /\ AxisOf(scale).scale = -scale
    BY <1>1, <1>3 DEF AxisOf
  <2>2. SourceStep(scale) = -scale /\ DestinationStep(scale) = 1
    BY <1>3 DEF SourceStep, DestinationStep
  <2>3. -scale \in 1 .. 4
    BY <1>1, <1>3
  <2>4. AxisOf(scale) \in Axis
    BY <1>1, <1>3, <2>1, <2>3 DEF AxisOf, Axis
  <2>. QED  BY <2>1, <2>2, <2>3, <2>4
<1>. QED  BY <1>2, <1>3

LEMMA Dimensions ==
  ASSUME SwTypeOK
  PROVE  /\ region.width \in Nat /\ region.height \in Nat
         /\ region.x \in Nat /\ region.y \in Nat
         /\ AxisOf(xScale) \in Axis /\ AxisOf(yScale) \in Axis
         /\ destinationWidth \in Nat /\ destinationHeight \in Nat
<1>1. region \in [x : Nat, y : Nat, width : Nat \ {0}, height : Nat \ {0}]
  BY RegionsAssumption DEF SwTypeOK
<1>2. AxisOf(xScale) \in Axis /\ AxisOf(yScale) \in Axis
  BY Factor DEF SwTypeOK
<1>3. AxisAt(AxisOf(xScale), 0, 0, 0) /\ AxisAt(AxisOf(yScale), 0, 0, 0)
  BY <1>2 DEF AxisAt, Axis
<1>. QED  BY <1>1, <1>2, <1>3, AxisEnd DEF destinationWidth, destinationHeight

SwInv == SwTypeOK /\ ScaleInv /\ NoStrayWrite

LEMMA InitSwInv ==  SwInit => SwInv
<1>. SUFFICES ASSUME SwInit PROVE SwInv
  OBVIOUS
<1>1. SwTypeOK
  BY DEF SwInit, SwTypeOK, Uninitialized
<1>2. /\ AxisAt(AxisOf(yScale), 0, 0, 0) /\ AxisAt(AxisOf(xScale), 0, 0, 0)
  BY <1>1, Dimensions DEF AxisAt, Axis
<1>3. \A p \in Buffer : p[1] \in Nat /\ p[2] \in Nat
  BY <1>1, Dimensions DEF Buffer
<1>. QED  BY <1>1, <1>2, <1>3, Dimensions DEF SwInit, SwInv, ScaleInv, NoStrayWrite

LEMMA CopyPixelSwInv ==  SwInv /\ CopyPixel => SwInv'
<1>. SUFFICES ASSUME SwTypeOK, ScaleInv, stray = {}, CopyPixel PROVE SwInv'
  BY DEF SwInv, NoStrayWrite
<1>. DEFINE written == {j} \X PlacesOfPixel
            step    == DestinationStep(xScale)
<1>1. /\ i < region.height /\ k < region.width
      /\ destination' = [p \in Buffer |->
           IF p \in written THEN <<region.y + i, region.x + k>> ELSE destination[p]]
      /\ stray' = stray \union (written \ Buffer)
      /\ k' = k + SourceStep(xScale)
      /\ l' = l + step
      /\ UNCHANGED <<region, xScale, yScale, i, j>>
  BY DEF CopyPixel
<1>2. /\ i \in Nat /\ j \in Nat /\ k \in Nat /\ l \in Nat
      /\ xScale \in Scales /\ yScale \in Scales
      /\ AxisAt(AxisOf(yScale), i, 0, j) /\ AxisAt(AxisOf(xScale), k, 0, l)
  BY DEF SwTypeOK, ScaleInv
<1>3. /\ l + step <= destinationWidth
      /\ AxisAt(AxisOf(xScale), k + SourceStep(xScale), 0, l + step)
  BY <1>1, <1>2, Dimensions, Factor, AxisEnd DEF destinationWidth
<1>4. j < destinationHeight /\ SrcOf(AxisOf(yScale), j) = i
  BY <1>1, <1>2, Dimensions, AxisMeaning DEF destinationHeight
<1>5. written \subseteq Buffer
  BY <1>2, <1>3, <1>4, Dimensions, Factor DEF Buffer, PlacesOfPixel
<1>6. /\ UNCHANGED <<Buffer, destinationWidth, destinationHeight>>
      /\ \A p \in Buffer : Expected(p)' = Expected(p)
  BY <1>1 DEF Buffer, destinationWidth, destinationHeight, Expected
<1>7. SwTypeOK'
  <2>1. k' \in Nat /\ l' \in Nat
    BY <1>1, <1>2, Factor
  <2>2. <<region.y + i, region.x + k>> \in Int \X Int
    BY <1>2, Dimensions
  <2>3. destination' \in [Buffer -> Int \X Int]
    BY <1>1, <2>2 DEF SwTypeOK
  <2>. QED  BY <1>1, <1>6, <2>1, <2>3 DEF SwTypeOK
<1>8. ASSUME NEW p \in Buffer, p[1] < j \/ (p[1] = j /\ p[2] < l + step)
      PROVE  destination'[p] = Expected(p)
  <2>1. p[1] \in Nat /\ p[2] \in Nat /\ p = <<p[1], p[2]>>
    BY Dimensions DEF Buffer
  <2>2. CASE p \in written
    <3>1. p[1] = j /\ l <= p[2] /\ p[2] < l + step
      BY <1>2, <2>1, <2>2, Factor DEF PlacesOfPixel
    <3>2. SrcOf(AxisOf(xScale), p[2]) = k
      BY <1>2, <2>1, <3>1, Dimensions, Factor, AxisRepeats
    <3>. QED  BY <1>1, <1>4, <2>2, <3>1, <3>2 DEF Expected
  <2>3. CASE p \notin written
    <3>1. p[1] < j \/ (p[1] = j /\ p[2] < l)
      BY <1>2, <1>8, <2>1, <2>3, Factor DEF PlacesOfPixel
    <3>. QED  BY <1>1, <2>3, <3>1 DEF ScaleInv
  <2>. QED  BY <2>2, <2>3
<1>9. ScaleInv'
  BY <1>1, <1>2, <1>3, <1>6, <1>8 DEF ScaleInv, AxisAt, AxisOf
<1>10. NoStrayWrite'
  BY <1>1, <1>5 DEF NoStrayWrite
<1>. QED  BY <1>7, <1>9, <1>10 DEF SwInv

LEMMA EndLineSwInv ==  SwInv /\ EndLine => SwInv'
<1>. SUFFICES ASSUME SwTypeOK, ScaleInv, stray = {}, EndLine PROVE SwInv'
  BY DEF SwInv, NoStrayWrite
<1>. DEFINE written == CopiesOfLine \X (0 .. destinationWidth - 1)
            step    == DestinationStep(yScale)
<1>1. /\ i < region.height /\ ~(k < region.width)
      /\ destination' = [p \in Buffer |->
           IF p \in written THEN destination[<<j, p[2]>>] ELSE destination[p]]
      /\ stray' = stray \union (written \ Buffer)
      /\ i' = i + SourceStep(yScale)
      /\ j' = j + step
      /\ k' = 0 /\ l' = 0
      /\ UNCHANGED <<region, xScale, yScale>>
  BY Dimensions DEF EndLine, SwTypeOK
<1>2. /\ i \in Nat /\ j \in Nat /\ k \in Nat /\ l \in Nat
      /\ xScale \in Scales /\ yScale \in Scales
      /\ AxisAt(AxisOf(yScale), i, 0, j) /\ AxisAt(AxisOf(xScale), k, 0, l)
  BY DEF SwTypeOK, ScaleInv
<1>3. /\ j + step <= destinationHeight
      /\ AxisAt(AxisOf(yScale), i + SourceStep(yScale), 0, j + step)
  BY <1>1, <1>2, Dimensions, Factor, AxisEnd DEF destinationHeight
<1>4. ~(l < destinationWidth)
  BY <1>1, <1>2, Dimensions, AxisMeaning DEF destinationWidth
<1>5. written \subseteq Buffer
  BY <1>2, <1>3, Dimensions, Factor DEF Buffer, CopiesOfLine
<1>6. /\ UNCHANGED <<Buffer, destinationWidth, destinationHeight>>
      /\ \A p \in Buffer : Expected(p)' = Expected(p)
  BY <1>1 DEF Buffer, destinationWidth, destinationHeight, Expected
<1>7. \A c \in 0 .. destinationWidth - 1 :
        <<j, c>> \in Buffer /\ destination[<<j, c>>] = Expected(<<j, c>>)
  <2>. SUFFICES ASSUME NEW c \in 0 .. destinationWidth - 1
                PROVE  <<j, c>> \in Buffer /\ destination[<<j, c>>] = Expected(<<j, c>>)
    OBVIOUS
  <2>1. <<j, c>> \in Buffer
    BY <1>2, <1>3, Dimensions, Factor DEF Buffer
  <2>2. c < l
    BY <1>2, <1>4, Dimensions
  <2>. QED  BY <2>1, <2>2 DEF ScaleInv
<1>8. ASSUME NEW p \in Buffer, p[1] < j + step
      PROVE  destination'[p] = Expected(p)
  <2>1. p[1] \in Nat /\ p[2] \in 0 .. destinationWidth - 1 /\ p = <<p[1], p[2]>>
    BY Dimensions DEF Buffer
  <2>2. CASE p \in written
    <3>1. j <= p[1] /\ p[1] < j + step
      BY <1>2, <2>1, <2>2, Factor DEF CopiesOfLine
    <3>2. SrcOf(AxisOf(yScale), p[1]) = i /\ SrcOf(AxisOf(yScale), j) = i
      BY <1>2, <2>1, <3>1, Dimensions, Factor, AxisRepeats
    <3>3. destination'[p] = Expected(<<j, p[2]>>)
      BY <1>1, <1>7, <2>1, <2>2
    <3>. QED  BY <3>2, <3>3 DEF Expected
  <2>3. CASE p \notin written
    <3>1. p[1] < j \/ p[1] = j
      BY <1>2, <1>8, <2>1, <2>3, Factor DEF CopiesOfLine
    <3>2. p[1] < j \/ (p[1] = j /\ p[2] < l)
      BY <1>2, <1>4, <2>1, <3>1, Dimensions
    <3>. QED  BY <1>1, <2>3, <3>2 DEF ScaleInv
  <2>. QED  BY <2>2, <2>3
<1>9. SwTypeOK'
  <2>1. i' \in Nat /\ j' \in Nat
    BY <1>1, <1>2, Factor
  <2>2. destination' \in [Buffer -> Int \X Int]
    BY <1>1, <1>7 DEF SwTypeOK, Buffer
  <2>. QED  BY <1>1, <1>6, <2>1, <2>2 DEF SwTypeOK
<1>10. ScaleInv'
  <2>1. i + SourceStep(yScale) < region.height + 4
    BY <1>1, <1>2, Dimensions, Factor
  <2>2. AxisAt(AxisOf(xScale), 0, 0, 0)
    BY Dimensions DEF AxisAt, Axis
  <2>3. \A p \in Buffer : p[1] \in Nat /\ p[2] \in Nat
    BY Dimensions DEF Buffer
  <2>4. \A p \in Buffer : p[1] < j' \/ (p[1] = j' /\ p[2] < 0) => destination'[p] = Expected(p)
    BY <1>1, <1>8, <2>3
  <2>. QED  BY <1>1, <1>3, <1>6, <2>1, <2>2, <2>4, Dimensions DEF ScaleInv, AxisAt, AxisOf
<1>11. NoStrayWrite'
  BY <1>1, <1>5 DEF NoStrayWrite
<1>. QED  BY <1>9, <1>10, <1>11 DEF SwInv

LEMMA SwInvHolds ==  SwSpec => []SwInv
<1>1. SwInv /\ UNCHANGED swVars => SwInv'
  BY DEF SwInv, SwTypeOK, ScaleInv, NoStrayWrite, swVars, Buffer, destinationWidth,
         destinationHeight, Expected, AxisAt, AxisOf
<1>2. SwInv /\ [SwNext]_swVars => SwInv'
  BY <1>1, CopyPixelSwInv, EndLineSwInv DEF SwNext
<1>. QED  BY <1>2, InitSwInv, PTL DEF SwSpec

\* The destination buffer, sized by a rounded up division, is never overrun.
THEOREM StaysInBuffer ==  SwSpec => []NoStrayWrite
<1>1. SwInv => NoStrayWrite
  BY DEF SwInv
<1>. QED  BY <1>1, SwInvHolds, PTL

\* What scaleSW returns is the scaled image.
THEOREM ScalingCorrect ==  SwSpec => []ScalesCorrectly
<1>1. SwInv => ScalesCorrectly
  <2>. SUFFICES ASSUME SwTypeOK, ScaleInv, Returned, NEW p \in Buffer
                PROVE  destination[p] = Expected(p)
    BY DEF SwInv, ScalesCorrectly
  <2>1. /\ i \in Nat /\ j \in Nat /\ ~(i < region.height)
        /\ AxisAt(AxisOf(yScale), i, 0, j)
    BY Dimensions DEF SwTypeOK, ScaleInv, Returned
  <2>2. ~(j < destinationHeight)
    BY <2>1, Dimensions, AxisMeaning DEF destinationHeight
  <2>3. p[1] < j
    BY <2>1, <2>2, Dimensions DEF Buffer
  <2>. QED  BY <2>3 DEF ScaleInv
<1>. QED  BY <1>1, SwInvHolds, PTL

(***************************************************************************)
(* Hardware and software give the same image.                              *)
(***************************************************************************)
\* Both scale the same part of an image.
SameImage ==
  /\ whr.width = region.width /\ whr.height = region.height
  /\ xAxis = AxisOf(xScale) /\ yAxis = AxisOf(yScale)

\* Every word that the accelerator offers is the pixel that scaleSW has left at
\* its place in the buffer, so what verify compares (benchmark_utils.c:34, 83,
\* main.c:237) is equal, whatever the image and the factors.
THEOREM ScalersAgree ==
  Spec /\ SwSpec => [](running /\ output_can_read /\ Returned /\ SameImage =>
    destination[<<rx.row, rx.col>>] = <<region.y + buffer_out.row, region.x + buffer_out.col>>)
<1>1. ASSUME IInv, SwInv, ScalesCorrectly, running, output_can_read, Returned, SameImage
      PROVE  destination[<<rx.row, rx.col>>]
               = <<region.y + buffer_out.row, region.x + buffer_out.col>>
  <2>1. /\ rx.row < DestHeight
        /\ buffer_out = Word(frame, SrcOf(yAxis, rx.row), SrcOf(xAxis, rx.col))
    BY <1>1, IInvOffers DEF OffersDueWord
  <2>2. rx.row \in Nat /\ rx.col \in Nat /\ whr.width \in Nat /\ output.pixel \in Nat
        /\ output.pixel_rep \in Nat
    BY <1>1, Naturals DEF IInv
  <2>3. rx.col < DestLen(xAxis, whr.width)
    <3>1. AxisAt(xAxis, output.pixel, output.pixel_rep, rx.col) /\ output.pixel < whr.width
      BY <1>1, CanRead DEF IInv, InFrame, ReaderAtRx
    <3>2. xAxis \in Axis
      BY <1>1, Axes DEF IInv
    <3>. QED  BY <2>2, <3>1, <3>2, AxisMeaning
  <2>4. destinationWidth = DestLen(xAxis, whr.width) /\ destinationHeight = DestHeight
    BY <1>1 DEF SameImage, destinationWidth, destinationHeight, DestHeight
  <2>5. <<rx.row, rx.col>> \in Buffer
    <3>1. destinationWidth \in Nat /\ destinationHeight \in Nat
      BY <1>1, Dimensions DEF SwInv
    <3>. QED  BY <2>1, <2>2, <2>3, <2>4, <3>1 DEF Buffer
  <2>6. destination[<<rx.row, rx.col>>] = Expected(<<rx.row, rx.col>>)
    BY <1>1, <2>5 DEF ScalesCorrectly
  <2>7. /\ buffer_out.row = SrcOf(yAxis, rx.row) /\ buffer_out.col = SrcOf(xAxis, rx.col)
    BY <2>1 DEF Word
  <2>. QED  BY <1>1, <2>6, <2>7 DEF Expected, SameImage
<1>. QED  BY <1>1, InvariantHolds, SwInvHolds, ScalingCorrect, PTL
==============================================================================
