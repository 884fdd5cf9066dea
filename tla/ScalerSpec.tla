----------------------------- MODULE ScalerSpec -----------------------------
(***************************************************************************)
(* What a streaming image scaler promises to the two DMA engines at its    *)
(* sides, whatever its inside: in every frame it takes the words of the    *)
(* source image in raster order and gives the words of the scaled image in *)
(* raster order, each one the source word the scaling function names, and  *)
(* never before that word came in.  A frame ends only when both images     *)
(* have gone through completely.                                           *)
(***************************************************************************)
EXTENDS Scaling

CONSTANTS Widths, Heights   \* The widths and the heights of source images.

VARIABLES
  geometry,   \* [width, height, xAxis, yAxis] of the scaler's frames.
  running,    \* A frame is going through.
  frame,      \* Tells the words of a frame from those of the one before.
  tx,         \* The next source position to come in.
  rx,         \* The next destination position to go out.
  aso         \* The word that went out last.

vars == <<geometry, running, frame, tx, rx, aso>>

SourceWord(f, r, c) == [frame |-> f, row |-> r, col |-> c]

NoWord == SourceWord(0, 0, 0)

\* The source position of the word due at rx, and that word.
DuePos  == [row |-> SrcOf(geometry.yAxis, rx.row), col |-> SrcOf(geometry.xAxis, rx.col)]
DueWord == SourceWord(frame, DuePos.row, DuePos.col)

DestWidth  == DestLen(geometry.xAxis, geometry.width)
DestHeight == DestLen(geometry.yAxis, geometry.height)

Complete == tx.row = geometry.height /\ rx.row = DestHeight

Init == 
  /\ running = FALSE
  /\ frame = 0
  /\ tx = Origin
  /\ rx = Origin
  /\ aso = NoWord

\* Between frames the geometry is anybody's to change.
Program ==
  /\ ~running
  /\ UNCHANGED <<running, frame, tx, rx, aso>>

Start ==
  /\ ~running
  /\ geometry.width \in Widths
  /\ geometry.height \in Heights
  /\ running' = TRUE
  /\ frame' = frame + 1
  /\ UNCHANGED <<geometry, tx, rx, aso>>

TakeWord ==
  /\ tx.row < geometry.height
  /\ tx' = NextPos(tx, geometry.width)

GiveWord ==
  /\ rx.row < DestHeight
  /\ Precedes(DuePos, tx)
  /\ aso' = DueWord
  /\ rx' = NextPos(rx, DestWidth)

\* Nothing of a frame is kept once it is over.
Forget ==
  /\ tx' = Origin
  /\ rx' = Origin
  /\ aso' = NoWord

\* Both streams may move in the same clock cycle.
Transfer ==
  /\ running
  /\ \/ TakeWord /\ UNCHANGED <<rx, aso>>
     \/ GiveWord /\ UNCHANGED tx
     \/ TakeWord /\ GiveWord
  /\ UNCHANGED <<geometry, running, frame>>

Finish ==
  /\ running
  /\ Complete
  /\ running' = FALSE
  /\ Forget
  /\ UNCHANGED <<geometry, frame>>

\* A hardware reset drops the frame.
Reset ==
  /\ running' = FALSE
  /\ Forget
  /\ UNCHANGED frame

Next == Program \/ Start \/ Transfer \/ Finish \/ Reset

Spec == Init /\ [][Next]_vars
=============================================================================
