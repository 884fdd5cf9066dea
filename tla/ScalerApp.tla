----------------------------- MODULE ScalerApp ------------------------------
(***************************************************************************)
(* The program (main.c): it reads a command, loads the source image,       *)
(* checks the part to scale, has it scaled three times and saves the       *)
(* result, or runs the benchmark; then the next command.  The hardware     *)
(* scaler is the service that HwDriver implements.                         *)
(***************************************************************************)
EXTENDS HwService, Scaling, MachineInts

CONSTANTS
  Commands,  \* What may be typed in: [benchmark, xScale, yScale, x, y, w, h].
  Files      \* What may be found on the host: [opens, header, width, height, whole].

ASSUME ScalerAppAssumption ==
  /\ Commands \subseteq [benchmark : BOOLEAN, xScale : Ints, yScale : Ints,
                         x : Ints, y : Ints, w : Ints, h : Ints]
  /\ Files \subseteq [opens : BOOLEAN, header : 0 .. 2, width : Ints, height : Ints,
                      whole : BOOLEAN]

VARIABLES
  pc,       \* Where main is.
  command,  \* The Command.
  pointer,  \* Its pointers to the three images.
  heap      \* The number of images on the heap, by what they were allocated for.

vars == <<service, pc, command, pointer, heap>>

Images == {"source", "reference", "destination"}

validScales == {-4, -3, -2, -1, 1, 2, 3, 4}

\* The end of the part is left to where it is computed.
Command ==
  [status : 0 .. 16, benchmark : BOOLEAN, xScale : Ints, yScale : Ints,
   x : Ints, y : Ints, w : Ints, h : Ints,
   sourceWidth : Ints, sourceHeight : Ints, sourceSize : Ints,
   destinationWidth : Ints, destinationHeight : Ints, destinationSize : Ints]

\* parseCommand's initial values, and what was typed in.
NewCommand(typed) ==
  [status |-> 0, benchmark |-> typed.benchmark, xScale |-> typed.xScale, yScale |-> typed.yScale,
   x |-> typed.x, y |-> typed.y, w |-> typed.w, h |-> typed.h,
   sourceWidth |-> -1, sourceHeight |-> -1, sourceSize |-> -1,
   destinationWidth |-> -1, destinationHeight |-> -1, destinationSize |-> -1]

NoCommand ==
  NewCommand([benchmark |-> FALSE, xScale |-> 0, yScale |-> 0, x |-> -1, y |-> -1, w |-> -1, h |-> -1])

Init ==
  /\ ServiceInit
  /\ pc = "start"
  /\ command = NoCommand
  /\ pointer = [i \in Images |-> "NULL"]
  /\ heap = [i \in Images |-> 0]

\* main starts its loop unless initHW has failed.
Start ==
  /\ pc = "start"
  /\ \/ phase = "idle" /\ pc' = "read"
     \/ phase = "exit" /\ pc' = "ended"
  /\ UNCHANGED <<service, command, pointer, heap>>

\* parseCommand; the pointers of the last command are not freed here.
ParseCommand ==
  /\ pc = "read"
  /\ \E typed \in Commands : command' = NewCommand(typed)
  /\ pointer' = [i \in Images |-> "NULL"]
  /\ pc' = "load"
  /\ UNCHANGED <<service, heap>>

-----------------------------------------------------------------------------
(* loadImage *)

\* The image in bytes, as far as an int goes.
FileSize(file) == Wrap(file.width * file.height)

\* There is nothing to miss in a file whose size comes out as 0.
LoadStatus(file, allocated) ==
  IF ~file.opens THEN 1
  ELSE IF file.header < 2 THEN 2 + file.header
  ELSE IF ~allocated THEN 4
  ELSE IF FileSize(file) > 0 /\ ~file.whole THEN 5
  ELSE 0

\* An allocation may fail, and one of a negative size does: as a size_t that is
\* more than there is memory.
LoadImage ==
  /\ pc = "load"
  /\ \E file \in Files, allocated \in BOOLEAN :
       LET loads == file.opens /\ file.header = 2
       IN  /\ allocated => loads /\ FileSize(file) >= 0
           /\ command' = [command EXCEPT
                !.status = LoadStatus(file, allocated),
                !.sourceWidth  = IF file.opens /\ file.header > 0 THEN file.width ELSE @,
                !.sourceHeight = IF loads THEN file.height ELSE @,
                !.sourceSize   = IF loads THEN FileSize(file) ELSE @]
           /\ pointer' = [pointer EXCEPT !["source"] = IF allocated THEN "block" ELSE @]
           /\ heap' = [heap EXCEPT !["source"] = IF allocated THEN @ + 1 ELSE @]
  /\ pc' = "loaded"
  /\ UNCHANGED service

-----------------------------------------------------------------------------
(* prepareCommand *)

\* The part to scale, which is all of the image where nothing was typed in.
Part ==
  [command EXCEPT !.x = IF @ = -1 THEN 0 ELSE @,
                  !.y = IF @ = -1 THEN 0 ELSE @,
                  !.w = IF @ = -1 THEN command.sourceWidth ELSE @,
                  !.h = IF @ = -1 THEN command.sourceHeight ELSE @]

StartInside(c) == c.x \in 0 .. c.sourceWidth - 1 /\ c.y \in 0 .. c.sourceHeight - 1

\* Faulty: where the part ends may be one past the image.
EndInsideOrNext(c) ==
  Wrap(c.x + c.w) \in 1 .. c.sourceWidth + 1 /\ Wrap(c.y + c.h) \in 1 .. c.sourceHeight + 1

EndInside(c) ==
  Wrap(c.x + c.w) \in 1 .. c.sourceWidth /\ Wrap(c.y + c.h) \in 1 .. c.sourceHeight

\* Faulty: the division rounds down.
RoundedDown(length, scale) == IF scale > 0 THEN Wrap(length * scale) ELSE Quotient(length, -scale)

DestinationLength(length, scale) ==
  IF scale > 0 THEN Wrap(length * scale) ELSE Quotient(Wrap(length - scale - 1), -scale)

PrepareStatus(scaleX, scaleY) ==
  IF scaleX \notin validScales THEN 6
  ELSE IF scaleY \notin validScales THEN 7
  ELSE IF ~StartInside(Part) THEN 8
  ELSE IF ~EndInside(Part) THEN 9
  ELSE 0

\* Faulty: only one of the two allocations is looked at.
ReferenceOnly(allocated) == IF "reference" \notin allocated THEN 10 ELSE 0

\* Both allocations are tried before either is looked at.
AllocationStatus(allocated) ==
  IF "reference" \notin allocated THEN 10 ELSE IF "destination" \notin allocated THEN 11 ELSE 0

PrepareCommand ==
  /\ pc = "prepare"
  /\ pc' = "prepared"
  /\ \/ /\ PrepareStatus(command.xScale, command.yScale) # 0
        /\ command' = [(IF command.xScale \in validScales /\ command.yScale \in validScales
                        THEN Part ELSE command)
                       EXCEPT !.status = PrepareStatus(command.xScale, command.yScale)]
        /\ UNCHANGED <<pointer, heap>>
     \/ /\ PrepareStatus(command.xScale, command.yScale) = 0
        /\ \E allocated \in SUBSET {"reference", "destination"} :
             LET width  == DestinationLength(Part.w, command.xScale)
                 height == DestinationLength(Part.h, command.yScale)
                 size   == Wrap(width * height)
             IN  /\ allocated # {} => size >= 0
                 /\ command' = [Part EXCEPT
                      !.destinationWidth = width, !.destinationHeight = height,
                      !.destinationSize = size,
                      !.status = AllocationStatus(allocated)]
                 /\ pointer' = [i \in Images |-> IF i \in allocated THEN "block" ELSE pointer[i]]
                 /\ heap' = [i \in Images |-> IF i \in allocated THEN heap[i] + 1 ELSE heap[i]]
  /\ UNCHANGED service

-----------------------------------------------------------------------------
(* checkCommand and cleanup; what is left of the command is written over    *)
(* before it is read.                                                       *)

\* Faulty: the reference image is forgotten.
CleanupTwo ==
  /\ heap' = [i \in Images |->
       IF i # "reference" /\ pointer[i] # "NULL" THEN heap[i] - 1 ELSE heap[i]]
  /\ pointer' = [i \in Images |-> "NULL"]
  /\ Release

Cleanup ==
  /\ heap' = [i \in Images |-> IF pointer[i] # "NULL" THEN heap[i] - 1 ELSE heap[i]]
  /\ pointer' = [i \in Images |-> "NULL"]
  /\ Release

\* After a failed step main cleans up and goes on with the next command.
CheckCommand ==
  /\ pc \in {"loaded", "prepared", "resized", "saved"}
  /\ \/ /\ command.status # 0
        /\ Cleanup
        /\ pc' = "read"
        /\ command' = NoCommand
     \/ /\ command.status = 0
        /\ pc' = CASE pc = "loaded"   -> IF command.benchmark THEN "benchmark" ELSE "prepare"
                   [] pc = "prepared" -> "resizeHW"
                   [] pc = "resized"  -> "save"
                   [] OTHER           -> "cleanup"
        /\ UNCHANGED <<service, command, pointer, heap>>

EndCommand ==
  /\ pc = "cleanup"
  /\ Cleanup
  /\ pc' = "read"
  /\ command' = NoCommand

-----------------------------------------------------------------------------
(* resizeImage: after scaleSW the two hardware scalers *)

CommandRequest ==
  [x |-> command.x, y |-> command.y, width |-> command.w, height |-> command.h,
   xScale |-> command.xScale, yScale |-> command.yScale]

\* The sides of the scaled part.
scaledWidth  == DestLen(AxisOf(command.xScale), command.w)
scaledHeight == DestLen(AxisOf(command.yScale), command.h)

\* scaleSW writes beyond a buffer that is too small for the scaled part, and copies
\* lines of a negative length.
Overruns ==
  \/ command.w > 0 /\ command.h > 0 /\ command.destinationSize < scaledWidth * scaledHeight
  \/ command.destinationWidth < 0 /\ command.h > 0 /\ command.yScale > 1

ScaleSWOverruns ==
  /\ pc = "resizeHW"
  /\ Overruns
  /\ pc' = "undefined"
  /\ UNCHANGED <<service, command, pointer, heap>>

CallScaler ==
  /\ pc \in {"resizeHW", "resizeHSCD"}
  /\ ~Overruns
  /\ Call
  /\ request' = CommandRequest
  /\ pc' = IF pc = "resizeHW" THEN "checkHW" ELSE "checkHSCD"
  /\ UNCHANGED <<command, pointer, heap>>

\* Faulty: an image that is too large goes unreported.
EngineError == status \in {4, 5}

HardwareError == status # 0

\* Faulty: after an error the scaler is called again.
AfterScalerRetry ==
  IF HardwareError THEN "resizeHW" ELSE IF pc = "checkHSCD" THEN "resized" ELSE "resizeHSCD"

AfterScaler == IF HardwareError \/ pc = "checkHSCD" THEN "resized" ELSE "resizeHSCD"

EndScaler ==
  /\ pc \in {"checkHW", "checkHSCD"}
  /\ phase = "idle"
  /\ command' = [command EXCEPT !.status = IF HardwareError THEN 16 ELSE @]
  /\ pc' = AfterScaler
  /\ UNCHANGED <<service, pointer, heap>>

\* saveImage may fail to open or to write the file.
SaveImage ==
  /\ pc = "save"
  /\ \E s \in {0} \union 12 .. 15 : command' = [command EXCEPT !.status = s]
  /\ pc' = "saved"
  /\ UNCHANGED <<service, pointer, heap>>

\* The benchmark calls the scalers for parts of the image (see Benchmark).
BenchmarkCall ==
  /\ pc = "benchmark"
  /\ Call
  /\ \E x \in 0 .. command.sourceWidth - 1, y \in 0 .. command.sourceHeight - 1 :
     \E w \in 1 .. command.sourceWidth - x, h \in 1 .. command.sourceHeight - y,
        xScale \in validScales, yScale \in validScales :
       request' = [x |-> x, y |-> y, width |-> w, height |-> h, xScale |-> xScale, yScale |-> yScale]
  /\ UNCHANGED <<pc, command, pointer, heap>>

EndBenchmark ==
  /\ pc = "benchmark"
  /\ phase = "idle"
  /\ pc' = "cleanup"
  /\ UNCHANGED <<service, command, pointer, heap>>
-----------------------------------------------------------------------------
Main == Start \/ LoadImage \/ PrepareCommand \/ CheckCommand \/ EndCommand \/ ScaleSWOverruns
        \/ CallScaler \/ EndScaler \/ SaveImage

Server == Serve /\ UNCHANGED <<pc, command, pointer, heap>>

\* A scaler that waits for the engines, a program that has ended, or one that
\* has corrupted its heap.
Spin ==
  (phase \in {"called", "undefined"} \/ pc \in {"ended", "undefined"}) /\ UNCHANGED vars

Next == ParseCommand \/ Main \/ BenchmarkCall \/ EndBenchmark \/ Server \/ Spin

Spec == Init /\ [][Next]_vars

\* The processor goes on, a scaler returns when it can, and a benchmark has a
\* limited number of test cases.
FairSpec == Spec /\ WF_vars(Main) /\ WF_vars(Server) /\ SF_vars(EndBenchmark)
-----------------------------------------------------------------------------
TypeOK ==
  /\ phase \in {"init", "initialized", "idle", "called", "returned", "exit", "undefined"}
  /\ status \in 0 .. 7
  /\ mallocPtr \in {"uninitialized", "null", "pool", "freed"}
  /\ result \in {"none", "scaled"}
  /\ pc \in {"start", "read", "load", "loaded", "prepare", "prepared", "resizeHW", "checkHW",
             "resizeHSCD", "checkHSCD", "resized", "save", "saved", "benchmark", "cleanup", "ended",
             "undefined"}
  /\ command \in Command
  /\ pointer \in [Images -> {"NULL", "block"}]
  /\ heap \in [Images -> Nat]

\* main is at work on a command that has passed prepareCommand.
AtWork == pc \in {"resizeHW", "checkHW", "resizeHSCD", "checkHSCD", "save"}

\* A part that is scaled starts and ends inside the source image, whatever was typed
\* in and however the end of the part overflows (main.c:186-192).  It may yet go
\* backwards, and is then read outside of it (see TransfersInBounds).
PartInside ==
  AtWork =>
    /\ command.x \in 0 .. command.sourceWidth - 1
    /\ command.x + command.w \in 1 .. command.sourceWidth
    /\ command.y \in 0 .. command.sourceHeight - 1
    /\ command.y + command.h \in 1 .. command.sourceHeight

\* The sizes of the source image and of the scaled part are ints, the division that
\* rounds up included.
SizesAreInts ==
  {command.sourceWidth * command.sourceHeight, command.sourceWidth + 3, command.sourceHeight + 3,
   scaledWidth * scaledHeight} \subseteq Ints

\* What main.c:153 and main.c:200 say of the allocations: the source buffer has room for
\* the image, and the two destination buffers for exactly the pixels of the scaled part.
BuffersHoldImages ==
  AtWork =>
    /\ command.sourceSize = command.sourceWidth * command.sourceHeight
    /\ command.w > 0 /\ command.h > 0 =>
         /\ command.destinationWidth = scaledWidth /\ command.destinationHeight = scaledHeight
         /\ command.destinationSize = scaledWidth * scaledHeight

\* The three buffers are so, and scaleSW stays inside its own, as long as no size
\* overflows (main.c:154-155, 195-202).
BufferMatchesPart ==
  AtWork /\ SizesAreInts => BuffersHoldImages /\ (command.w > 0 => ~Overruns)

\* While scalers run and the result is saved all three images are there, and no
\* command leaves one on the heap, whichever of its steps has failed
\* (main.c:200-205, 283-306).
ImagesOnHeap ==
  /\ TypeOK
  /\ AtWork => \A i \in Images : pointer[i] = "block" /\ heap[i] = 1
  /\ pc = "read" => \A i \in Images : heap[i] = 0

\* An image that is reported as saved is the scaled image of its own command
\* (main.c:296-302), and was not left over from an earlier one.
SavesScaledImage ==
  pc = "saved" /\ command.status = 0 => result = "scaled" /\ request = CommandRequest

\* The scaler does not come back from a part that is empty or goes backwards, unless
\* it refuses it (see HwDriver).
EmptyCall ==
  /\ phase = "called"
  /\ request.width <= BufferSize /\ request.height <= BufferSize
  /\ request.width <= 0 \/ request.height <= 0

\* Every command comes to an end and the next one is read, unless the heap was
\* corrupted, by a size that overflows or by an earlier command, or the part is empty
\* or goes backwards (main.c:276-308).
CommandEnds ==
  pc = "load" ~> pc \in {"read", "undefined"} \/ phase = "undefined" \/ EmptyCall
=============================================================================
