------------------------------ MODULE SwScale ------------------------------
(***************************************************************************)
(* The software scaler, scaleSW and scaleLineSW of sw_impl.c: the          *)
(* reference result the accelerator is compared with.                      *)
(*                                                                         *)
(* A step is one iteration of the loop of scaleLineSW, or the end of an    *)
(* iteration of the loop of scaleSW with its memcpy calls.  A pixel is the *)
(* source position it was copied from, and the destination buffer is       *)
(* addressed by row and column; what falls outside the buffer is stray.    *)
(***************************************************************************)
EXTENDS Scaling

CONSTANTS
  Regions,  \* The parts of source images to scale: [x, y, width, height].
  Scales    \* The scale factors, negative to scale down.

\* What prepareCommand and generateTests let through.
ASSUME RegionsAssumption ==
  /\ Regions \subseteq [x : Nat, y : Nat, width : Nat \ {0}, height : Nat \ {0}]
  /\ Scales \subseteq (-4 .. 4) \ {0}

VARIABLES
  region, xScale, yScale,   \* The arguments.
  i, j,                     \* Source and destination line of scaleSW.
  k, l,                     \* i and j of scaleLineSW.
  destination,              \* The destination buffer.
  stray                     \* Addresses written outside of it.

swVars == <<region, xScale, yScale, i, j, k, l, destination, stray>>

destinationWidth  == DestLen(AxisOf(xScale), region.width)
destinationHeight == DestLen(AxisOf(yScale), region.height)

Buffer == (0 .. destinationHeight - 1) \X (0 .. destinationWidth - 1)

\* Memory as malloc returns it.
Uninitialized == <<-1, -1>>

\* Faulty: the negated factor of hw_impl.c, which is encoded as one less.
SourceStepEncoded(scale) == IF scale > 0 THEN 1 ELSE (IF scale < -1 THEN -scale - 1 ELSE 1)

\* The number of positions a loop iteration goes on in the source and in the
\* destination.
SourceStep(scale)      == IF scale > 0 THEN 1 ELSE -scale
DestinationStep(scale) == IF scale > 0 THEN scale ELSE 1

\* Faulty: no break where the fall-through ends.
CopiesOneTooMany == j + 1 .. j + DestinationStep(yScale)

\* Faulty: the fall-through starts one case late.
PlacesOneTooFew == l .. l + DestinationStep(xScale) - (IF xScale > 1 THEN 2 ELSE 1)

\* The places in the destination line that a source pixel goes to, and the
\* lines that a finished line is copied to.
PlacesOfPixel == l .. l + DestinationStep(xScale) - 1
CopiesOfLine  == j + 1 .. j + DestinationStep(yScale) - 1

-----------------------------------------------------------------------------
SwInit ==
  /\ region \in Regions
  /\ xScale \in Scales
  /\ yScale \in Scales
  /\ i = 0 /\ j = 0
  /\ k = 0 /\ l = 0
  /\ destination = [p \in Buffer |-> Uninitialized]
  /\ stray = {}

\* One source pixel goes to DestinationStep places side by side.
CopyPixel ==
  LET written == {j} \X PlacesOfPixel
  IN  /\ i < region.height
      /\ k < region.width
      /\ destination' = [p \in Buffer |->
           IF p \in written THEN <<region.y + i, region.x + k>> ELSE destination[p]]
      /\ stray' = stray \union (written \ Buffer)
      /\ k' = k + SourceStep(xScale)
      /\ l' = l + DestinationStep(xScale)
      /\ UNCHANGED <<region, xScale, yScale, i, j>>

\* The line just written is copied until there are DestinationStep of it.
EndLine ==
  LET written == CopiesOfLine \X (0 .. destinationWidth - 1)
  IN  /\ i < region.height
      /\ k >= region.width
      /\ destination' = [p \in Buffer |->
           IF p \in written THEN destination[<<j, p[2]>>] ELSE destination[p]]
      /\ stray' = stray \union (written \ Buffer)
      /\ i' = i + SourceStep(yScale)
      /\ j' = j + DestinationStep(yScale)
      /\ k' = 0 /\ l' = 0
      /\ UNCHANGED <<region, xScale, yScale>>

SwNext == CopyPixel \/ EndLine

SwSpec == SwInit /\ [][SwNext]_swVars

Returned == i >= region.height
-----------------------------------------------------------------------------
SwTypeOK ==
  /\ region \in Regions
  /\ xScale \in Scales
  /\ yScale \in Scales
  /\ i \in Nat /\ j \in Nat /\ k \in Nat /\ l \in Nat
  /\ destination \in [Buffer -> Int \X Int]

\* The buffer that prepareCommand sizes with a rounded up division is never
\* written past its end, whatever remainders the factors leave.
NoStrayWrite == stray = {}

\* The source position that a destination position shows.
Expected(p) ==
  <<region.y + SrcOf(AxisOf(yScale), p[1]), region.x + SrcOf(AxisOf(xScale), p[2])>>

\* When scaleSW returns, each pixel of the buffer has been written and shows
\* the source pixel that the scaling function names.
ScalesCorrectly == Returned => \A p \in Buffer : destination[p] = Expected(p)

\* The inductive invariant: source and destination loop counters go together,
\* and the pixels before them are final.
ScaleInv ==
  /\ AxisAt(AxisOf(yScale), i, 0, j)
  /\ AxisAt(AxisOf(xScale), k, 0, l)
  /\ i < region.height + 4
  /\ j <= destinationHeight
  /\ l <= destinationWidth
  /\ \A p \in Buffer :
       p[1] < j \/ (p[1] = j /\ p[2] < l) => destination[p] = Expected(p)
=============================================================================
