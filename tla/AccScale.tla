------------------------------ MODULE AccScale ------------------------------
(***************************************************************************)
(* The image scaling accelerator, hdl/acc_scale.vhd with its two image     *)
(* counters and its line buffer (hdl/image_counter.vhd, line_buffer.vhd).  *)
(*                                                                         *)
(* One step is one clock cycle.  cnt_reset is an asynchronous reset that   *)
(* clears its own cause, so a step ends in the state after it has settled. *)
(*                                                                         *)
(* The surroundings are what hw_impl.c makes of them: the registers are    *)
(* written while no transfer runs, then the source image comes in line by  *)
(* line with gaps wherever the transmit DMA is late, and words go out      *)
(* whenever the receive DMA is ready.  A word carries the frame and the    *)
(* source position it comes from in place of its grey level.               *)
(***************************************************************************)
EXTENDS ImageCounter, Scaling

CONSTANTS
  MaxWidth,   \* The generic max_width: the size of the line buffer.
  Widths,     \* The image widths the driver asks for.
  Heights,    \* The image heights the driver asks for.
  Settings,   \* The scale settings the driver asks for.
  MaxFrames   \* The number of frames the driver asks for.

CSR == [y_upscale : BOOLEAN, y_scale : 0 .. 3, x_upscale : BOOLEAN, x_scale : 0 .. 3]
WHR == [height : 0 .. CountMod - 1, width : 0 .. CountMod - 1]

\* A width fits the line buffer (BUFFER_SIZE in hw_impl.c), and the counters
\* reach past the end of an image by less than a scale factor without
\* wrapping around.
ASSUME SizeAssumption ==
  /\ MaxWidth \in Nat
  /\ Widths  \subseteq 1 .. MaxWidth
  /\ Heights \subseteq 1 .. CountMod - 4
  /\ MaxWidth + 4 <= CountMod
  /\ Settings \subseteq CSR
  /\ MaxFrames \in Nat

VARIABLES
  csr,          \* Control and status register: scales as encoded, upscale bits.
  whr,          \* Width and height register.
  stream,       \* stream_counter: the next pixel that comes in.
  output,       \* output_counter: the next pixel that goes out.
  line_buffer,  \* The words of one source line.
  running,      \* The DMA engines are transferring.
  frame,        \* The number of frames started, to recognise old words.
  tx,           \* Transmit DMA: the source position it sends next.
  rx,           \* Receive DMA: the destination position it fills next.
  aso           \* The word last transferred on the aso port.

hwVars  == <<csr, whr, stream, output, line_buffer>>
envVars == <<running, frame, tx, rx, aso>>
vars    == <<csr, whr, stream, output, line_buffer, running, frame, tx, rx, aso>>

Words == [frame : 0 .. MaxFrames, row : Nat, col : Nat]

Word(f, r, c) == [frame |-> f, row |-> r, col |-> c]

\* What the line buffer holds before anything is written, and aso before a word.
NoWord == Word(0, 0, 0)

(***************************************************************************)
(* Combinational signals of acc_scale.vhd.                                 *)
(***************************************************************************)
xAxis == [up |-> csr.x_upscale, scale |-> csr.x_scale + 1]
yAxis == [up |-> csr.y_upscale, scale |-> csr.y_scale + 1]

reader_row_ahead      == output.row > stream.row
reader_row_equal      == output.row = stream.row
reader_row_one_behind == output.row = (stream.row - 1) % CountMod
reader_row_behind     == output.row < stream.row
reader_pixel_behind   == output.pixel < stream.pixel
reader_pixel_ahead    == output.pixel > stream.pixel
reader_last_rep       == output.row_rep = yAxis.scale - 1 \/ ~yAxis.up

(***************************************************************************)
(* Faulty variants of the signals, which the properties below rule out.    *)
(***************************************************************************)
\* The reader keeps within the writer's row.
output_can_read_same_row == reader_row_equal /\ reader_pixel_behind

\* The writer forgets that an upscaled row is read more than once.
stream_can_write_any_rep ==
  reader_row_ahead \/ reader_row_equal \/ (reader_row_one_behind /\ reader_pixel_ahead)

\* The writer takes the place the reader is at.
stream_can_write_at_reader ==
  \/ reader_row_ahead
  \/ reader_row_equal
  \/ reader_row_one_behind /\ reader_last_rep /\ ~reader_pixel_behind

\* The end of a frame is where the writer runs off it, or one row too far.
FrameOverAtWriter(s, o) == s.row >= whr.height
FrameOverTooFar(s, o)   == s.row > whr.height /\ o.row > whr.height

(***************************************************************************)
(* The signals of the source.                                              *)
(***************************************************************************)
output_can_read == reader_row_behind \/ (reader_row_equal /\ reader_pixel_behind)

stream_can_write ==
  \/ reader_row_ahead
  \/ reader_row_equal
  \/ reader_row_one_behind /\ reader_last_rep /\ reader_pixel_ahead

buffer_out == line_buffer[output.pixel]

\* The part of cnt_reset that the counters themselves raise.
FrameOver(s, o) == s.row >= whr.height /\ o.row >= whr.height

DestWidth  == DestLen(xAxis, whr.width)
DestHeight == DestLen(yAxis, whr.height)

-----------------------------------------------------------------------------

\* rst clears every register but y_upscale, which therefore powers up unknown.
Init ==
  /\ csr \in {c \in CSR : c.y_scale = 0 /\ ~c.x_upscale /\ c.x_scale = 0}
  /\ whr = [height |-> 0, width |-> 0]
  /\ stream = ZeroCounter
  /\ output = ZeroCounter
  /\ line_buffer = [p \in 0 .. MaxWidth - 1 |-> NoWord]
  /\ running = FALSE
  /\ frame = 0
  /\ tx = Origin
  /\ rx = Origin
  /\ aso = NoWord

Reset ==
  /\ csr' = [y_upscale |-> csr.y_upscale, y_scale |-> 0, x_upscale |-> FALSE, x_scale |-> 0]
  /\ whr' = [height |-> 0, width |-> 0]
  /\ stream' = ZeroCounter
  /\ output' = ZeroCounter
  /\ running' = FALSE
  /\ tx' = Origin
  /\ rx' = Origin
  /\ aso' = NoWord
  /\ UNCHANGED <<line_buffer, frame>>

\* A register write: the strobe holds cnt_reset for its cycle.
WriteCSR(data) ==
  /\ ~running
  /\ frame < MaxFrames
  /\ csr' = data
  /\ stream' = ZeroCounter
  /\ output' = ZeroCounter
  /\ UNCHANGED <<whr, line_buffer, envVars>>

WriteWHR(data) ==
  /\ ~running
  /\ frame < MaxFrames
  /\ whr' = data
  /\ stream' = ZeroCounter
  /\ output' = ZeroCounter
  /\ UNCHANGED <<csr, line_buffer, envVars>>

\* The driver starts the transmit and the receive DMA for a new image.
Start ==
  /\ ~running
  /\ frame < MaxFrames
  /\ whr.width \in Widths
  /\ whr.height \in Heights
  /\ running' = TRUE
  /\ frame' = frame + 1
  /\ UNCHANGED <<hwVars, tx, rx, aso>>

\* A rising clock edge with the given asi_valid and aso_ready.
Clock(valid, ready) ==
  LET stream_next == stream_can_write /\ valid
      output_next == ready /\ output_can_read
      s == IF stream_next THEN Advance(stream, Unscaled, Unscaled, whr.width) ELSE stream
      o == IF output_next THEN Advance(output, xAxis, yAxis, whr.width) ELSE output
  IN  /\ running
      /\ valid => tx.row < whr.height
      /\ stream' = IF FrameOver(s, o) THEN ZeroCounter ELSE s
      /\ output' = IF FrameOver(s, o) THEN ZeroCounter ELSE o
      /\ line_buffer' =
           IF stream_next
             THEN [line_buffer EXCEPT ![stream.pixel] = Word(frame, tx.row, tx.col)]
             ELSE line_buffer
      /\ tx' = IF stream_next THEN NextPos(tx, whr.width) ELSE tx
      /\ rx' = IF output_next THEN NextPos(rx, DestWidth) ELSE rx
      /\ aso' = IF output_next THEN buffer_out ELSE aso
      /\ UNCHANGED <<csr, whr, running, frame>>

\* Both DMA engines have completed their chains and the driver stops them.
Finish ==
  /\ running
  /\ tx.row = whr.height
  /\ rx.row = DestHeight
  /\ running' = FALSE
  /\ tx' = Origin
  /\ rx' = Origin
  /\ aso' = NoWord
  /\ UNCHANGED <<hwVars, frame>>

Next ==
  \/ Reset
  \/ \E data \in Settings : WriteCSR(data)
  \/ \E data \in [height : Heights, width : Widths] : WriteWHR(data)
  \/ Start
  \/ \E valid, ready \in BOOLEAN : Clock(valid, ready)
  \/ Finish

Spec == Init /\ [][Next]_vars

\* The transmit DMA has words as long as its chain has and offers them until
\* they are taken, the receive DMA has room sooner or later, and the driver's
\* busy wait ends once both have called back.
AcceptWord == stream_can_write /\ \E ready \in BOOLEAN : Clock(TRUE, ready)
EmitWord   == output_can_read  /\ \E valid \in BOOLEAN : Clock(valid, TRUE)

FairSpec == Spec /\ WF_vars(AcceptWord) /\ WF_vars(EmitWord) /\ WF_vars(Finish)
-----------------------------------------------------------------------------
TypeOK ==
  /\ csr \in CSR
  /\ whr \in WHR
  /\ stream \in Counter
  /\ output \in Counter
  /\ line_buffer \in [0 .. MaxWidth - 1 -> Words]
  /\ running \in BOOLEAN
  /\ frame \in 0 .. MaxFrames
  /\ tx \in [row : Nat, col : Nat]
  /\ rx \in [row : Nat, col : Nat]
  /\ aso \in Words

\* Whenever the accelerator offers a word (aso_valid), another one is due and
\* it is that one: the source pixel of this frame that the scaling function
\* names, neither overwritten by the next line nor left over from an earlier
\* one.  The counters alone decide this (acc_scale.vhd, lines 146 to 150).
OffersDueWord ==
  running /\ output_can_read =>
    /\ rx.row < DestHeight
    /\ buffer_out = Word(frame, SrcOf(yAxis, rx.row), SrcOf(xAxis, rx.col))

\* Reader and writer never wait for each other: as long as the frame lacks a
\* word, the accelerator offers one, or it takes one and the source has one.
NeverStuck ==
  running /\ ~(tx.row = whr.height /\ rx.row = DestHeight) =>
    output_can_read \/ (stream_can_write /\ tx.row < whr.height)

\* "Stream counter shouldnt continue counting past the first pixel of
\* img_height row" (acc_scale.vhd, line 155): it is held there until the
\* last word has gone out, and then both counters are back at the start, ready
\* for the next frame without a register write.
FrameEndsClean ==
  running /\ tx.row = whr.height =>
    IF rx.row = DestHeight
      THEN stream = ZeroCounter /\ output = ZeroCounter
      ELSE stream = [pixel_rep |-> 0, pixel |-> 0, row_rep |-> 0, row |-> whr.height]

\* The counters restart within a frame only at the step that completes it:
\* the end of frame comparison does not fire early for any geometry.
RestartsOnlyAtEnd ==
  [][ running /\ running' /\ <<stream', output'>> = <<ZeroCounter, ZeroCounter>>
        /\ <<stream, output>> # <<ZeroCounter, ZeroCounter>>
      => tx'.row = whr.height /\ rx'.row = DestHeight ]_vars

\* A frame whose DMA engines run is completed.
FrameCompletes == running ~> ~running

(***************************************************************************)
(* The inductive invariant behind these properties.                        *)
(***************************************************************************)
\* The stream counter is where the transmit DMA is, at most just past the end.
WriterAtTx ==
  /\ stream = [pixel_rep |-> 0, pixel |-> tx.col, row_rep |-> 0, row |-> tx.row]
  /\ stream.pixel < whr.width
  /\ stream.row <= whr.height
  /\ stream.row = whr.height => stream.pixel = 0

\* The output counter is where the receive DMA is.
ReaderAtRx ==
  /\ output.pixel < whr.width
  /\ output.row < whr.height + 4
  /\ rx.row <= DestHeight
  /\ AxisAt(xAxis, output.pixel, output.pixel_rep, rx.col)
  /\ AxisAt(yAxis, output.row, output.row_rep, rx.row)

\* The writer is never a whole line ahead, and it enters the line after the
\* reader's only behind a reader that goes over its line for the last time.
WriterInReach ==
  /\ stream.row <= output.row + 1
  /\ stream.row = output.row + 1 =>
       stream.pixel <= output.pixel /\ (stream.pixel > 0 => reader_last_rep)

\* The line buffer holds the writer's line up to the writer and the line
\* before from there on.
BufferHoldsLines ==
  \A c \in 0 .. whr.width - 1 :
    /\ c < stream.pixel => line_buffer[c] = Word(frame, stream.row, c)
    /\ c >= stream.pixel /\ stream.row > 0 =>
         line_buffer[c] = Word(frame, stream.row - 1, c)

InFrame ==
  /\ ~FrameOver(stream, output)
  /\ WriterAtTx
  /\ ReaderAtRx
  /\ WriterInReach
  /\ BufferHoldsLines

AtRest == stream = ZeroCounter /\ output = ZeroCounter

\* Both DMA engines have come to the end of their chains.
FrameDone == AtRest /\ tx.row = whr.height /\ rx.row = DestHeight

\* At any time the accelerator is between frames with everything at its
\* start, or within a frame with the lines where the counters say, or past
\* the last word of one with its counters cleared.
ScalerInv ==
  IF running
    THEN whr.width \in Widths /\ whr.height \in Heights /\ (InFrame \/ FrameDone)
    ELSE AtRest /\ tx = Origin /\ rx = Origin

\* The accelerator is a scaler in the sense of ScalerSpec.
Scaler == INSTANCE ScalerSpec WITH
  geometry <- [width |-> whr.width, height |-> whr.height, xAxis |-> xAxis, yAxis |-> yAxis]

ImplementsScaler == Scaler!Spec
=============================================================================
