-------------------------- MODULE ScalerAppProofs --------------------------
(***************************************************************************)
(* The program: a part that is scaled starts and ends in its image         *)
(* whatever ints are typed in, its buffers have room for it unless a size  *)
(* overflows, no step that fails leaves an image on the heap, and what is  *)
(* saved is the scaled image of its own command.                           *)
(***************************************************************************)
EXTENDS ScalerApp, TLAPS

-----------------------------------------------------------------------------
(* Overflow. *)

\* A remainder within one multiple of the modulus, as the wrapping of an int uses it.
LEMMA Remainder ==
  ASSUME NEW m \in Nat, m > 0, NEW n \in 0 .. 2 * m - 1
  PROVE  n % m = IF n < m THEN n ELSE n - m
OBVIOUS

\* An int is itself, and a sum that is just too large becomes negative.
LEMMA WrapSum ==
  ASSUME NEW n \in -IntLimit .. 2 * IntLimit - 1
  PROVE  Wrap(n) = IF n < IntLimit THEN n ELSE n - 2 * IntLimit
<1>1. n + IntLimit \in 0 .. 2 * (2 * IntLimit) - 1
  BY IntAssumption
<1>2. (n + IntLimit) % (2 * IntLimit)
        = IF n + IntLimit < 2 * IntLimit THEN n + IntLimit ELSE n + IntLimit - 2 * IntLimit
  BY <1>1, Remainder, IntAssumption
<1>. QED  BY <1>2, IntAssumption DEF Wrap

\* Wrapping gives an int, and the int that it is given.
LEMMA WrapInt == ASSUME NEW n \in Int PROVE Wrap(n) \in Ints
<1>1. (n + IntLimit) % (2 * IntLimit) \in 0 .. 2 * IntLimit - 1
  BY IntAssumption
<1>. QED  BY <1>1, IntAssumption DEF Wrap, Ints

LEMMA WrapOfInt == ASSUME NEW n \in Ints PROVE Wrap(n) = n
BY WrapSum, IntAssumption DEF Ints

\* The product of two ints as the program computes it.
LEMMA ProductInt ==
  ASSUME NEW a \in Int, NEW b \in Int PROVE a * b \in Int /\ Wrap(a * b) \in Ints
<1>1. a * b \in Int
  OBVIOUS
<1>. QED  BY <1>1, WrapInt

\* One axis of the range check: the end of the part is inside if the check, with its
\* sum that may wrap, says so.
LEMMA EndDoesNotWrap ==
  ASSUME NEW start \in Ints, NEW length \in Ints, NEW size \in Ints,
         start \in 0 .. size - 1, Wrap(start + length) \in 1 .. size
  PROVE  start + length \in 1 .. size
<1>1. start + length \in -IntLimit .. 2 * IntLimit - 1
  BY IntAssumption DEF Ints
<1>2. CASE start + length < IntLimit
  BY <1>1, <1>2, WrapSum
<1>3. CASE ~(start + length < IntLimit)
  <2>1. Wrap(start + length) < 0
    BY <1>1, <1>3, WrapSum, IntAssumption DEF Ints
  <2>. QED  BY <2>1
<1>. QED  BY <1>2, <1>3

\* C division by up to 4 stays among the ints.
LEMMA QuotientInt ==
  ASSUME NEW n \in Ints, NEW d \in 1 .. 4 PROVE Quotient(n, d) \in Ints
<1>1. n \in Int /\ -IntLimit <= n /\ n < IntLimit /\ IntLimit \in Int
  BY IntAssumption DEF Ints
<1>2. d = 1 \/ d = 2 \/ d = 3 \/ d = 4
  OBVIOUS
<1>3. CASE n >= 0
  <2>1. n \div d \in 0 .. n
    BY <1>1, <1>2, <1>3
  <2>. QED  BY <1>1, <1>3, <2>1, IntAssumption DEF Quotient, Ints
<1>4. CASE ~(n >= 0)
  <2>1. (-n) \div d \in 0 .. -n
    BY <1>1, <1>2, <1>4
  <2>. QED  BY <1>1, <1>4, <2>1, IntAssumption DEF Quotient, Ints
<1>. QED  BY <1>3, <1>4

\* A destination length is an int.
LEMMA LengthInt ==
  ASSUME NEW length \in Int, NEW scale \in validScales
  PROVE  DestinationLength(length, scale) \in Ints
<1>1. CASE scale > 0
  <2>1. scale \in Int
    BY DEF validScales
  <2>. QED  BY <1>1, <2>1, ProductInt DEF DestinationLength
<1>2. CASE ~(scale > 0)
  <2>1. -scale \in 1 .. 4 /\ length - scale - 1 \in Int
    BY <1>2 DEF validScales
  <2>. QED  BY <1>2, <2>1, WrapInt, QuotientInt DEF DestinationLength
<1>. QED  BY <1>1, <1>2

-----------------------------------------------------------------------------
(* The inductive invariant. *)

\* prepareCommand has let the command through.
Passed ==
  \/ AtWork
  \/ pc \in {"resized", "saved"}
  \/ pc = "prepared" /\ command.status = 0

\* Such a command passes the range checks.
PartInv == Passed => StartInside(command) /\ EndInside(command)

\* Each image on the heap is pointed to, and how far the command has come says which
\* ones are there.
HeapInv ==
  /\ \A i \in Images : heap[i] = IF pointer[i] = "block" THEN 1 ELSE 0
  /\ pc \in {"start", "ended", "read", "load"} => \A i \in Images : pointer[i] = "NULL"
  /\ pc \in {"loaded", "prepare", "benchmark"} =>
       pointer["reference"] = "NULL" /\ pointer["destination"] = "NULL"
  /\ pc = "prepare" \/ (pc = "loaded" /\ command.status = 0) => pointer["source"] = "block"
  /\ Passed => \A i \in Images : pointer[i] = "block"

\* The scaler is called only where main waits for it, and what it leaves behind without
\* an error is the image of this command.
CallInv ==
  /\ pc \notin {"start", "ended", "benchmark", "checkHW", "checkHSCD"} => phase = "idle"
  /\ pc \in {"checkHW", "checkHSCD"} =>
       /\ phase \in {"called", "returned", "idle", "undefined"}
       /\ request = CommandRequest
       /\ phase \in {"returned", "idle"} /\ status = 0 => result = "scaled"
  /\ pc \in {"save", "saved"} \/ (pc = "resized" /\ command.status = 0) =>
       result = "scaled" /\ request = CommandRequest

IInv == TypeOK /\ PartInv /\ HeapInv /\ CallInv

\* No image is there and nothing is called.
LEMMA InitIInv == Init => IInv
<1>. SUFFICES ASSUME Init PROVE IInv
  OBVIOUS
<1>1. command \in Command
  BY IntAssumption DEF Init, NoCommand, NewCommand, Command, Ints
<1>. QED
  BY <1>1 DEF Init, ServiceInit, IInv, TypeOK, PartInv, HeapInv, CallInv, Passed, AtWork, Images

-----------------------------------------------------------------------------
(* Every step preserves it. *)

\* main starts with nothing on the heap.
LEMMA StartIInv == IInv /\ Start => IInv'
BY DEF Start, service, IInv, TypeOK, PartInv, HeapInv, CallInv, Passed, AtWork

\* A new command has no images, and those of the last one are freed.
LEMMA ParseIInv == IInv /\ ParseCommand => IInv'
<1>. SUFFICES ASSUME IInv, ParseCommand PROVE IInv'
  OBVIOUS
<1>1. command' \in Command
  BY IntAssumption, ScalerAppAssumption DEF ParseCommand, NewCommand, Command, Ints
<1>. QED
  BY <1>1 DEF ParseCommand, service, IInv, TypeOK, PartInv, HeapInv, CallInv, Passed, AtWork, Images

\* The source image is there exactly if it could be allocated, and no error then says
\* that it was not.
LEMMA LoadIInv == IInv /\ LoadImage => IInv'
<1>. SUFFICES ASSUME IInv, LoadImage PROVE IInv'
  OBVIOUS
<1>1. PICK file \in Files, allocated \in BOOLEAN :
        /\ command' = [command EXCEPT
             !.status = LoadStatus(file, allocated),
             !.sourceWidth  = IF file.opens /\ file.header > 0 THEN file.width ELSE @,
             !.sourceHeight = IF file.opens /\ file.header = 2 THEN file.height ELSE @,
             !.sourceSize   = IF file.opens /\ file.header = 2 THEN FileSize(file) ELSE @]
        /\ pointer' = [pointer EXCEPT !["source"] = IF allocated THEN "block" ELSE @]
        /\ heap' = [heap EXCEPT !["source"] = IF allocated THEN @ + 1 ELSE @]
  BY DEF LoadImage
<1>2. /\ LoadStatus(file, allocated) \in 0 .. 5
      /\ LoadStatus(file, allocated) = 0 => allocated
  BY ScalerAppAssumption DEF LoadStatus
<1>3. command' \in Command /\ command'.status = LoadStatus(file, allocated)
  <2>1. file.width \in Ints /\ file.height \in Ints /\ FileSize(file) \in Ints
    <3>1. file.width \in Ints /\ file.height \in Ints
      BY ScalerAppAssumption
    <3>. QED  BY <3>1, ProductInt, IntAssumption DEF FileSize, Ints
  <2>2. command \in Command
    BY DEF IInv, TypeOK
  <2>3. LoadStatus(file, allocated) \in 0 .. 16
    BY <1>2
  <2>. QED  BY <1>1, <2>1, <2>2, <2>3 DEF Command
<1>4. pc = "load" /\ pc' = "loaded" /\ UNCHANGED service
  BY DEF LoadImage
<1>5. HeapInv'
  BY <1>1, <1>2, <1>3, <1>4 DEF IInv, TypeOK, HeapInv, Passed, AtWork, Images
<1>6. TypeOK'
  BY <1>1, <1>3, <1>4 DEF service, IInv, TypeOK, Images
<1>. QED
  BY <1>4, <1>5, <1>6 DEF service, IInv, PartInv, CallInv, Passed, AtWork

\* The part that is scaled is an int part.
LEMMA PartOfCommand == ASSUME command \in Command PROVE Part \in Command
<1>1. 0 \in Ints
  BY IntAssumption DEF Ints
<1>. QED  BY <1>1 DEF Part, Command

\* What is rejected keeps its images; what is let through has all three, unless
\* the status tells which allocation has failed.
LEMMA PrepareIInv == IInv /\ PrepareCommand => IInv'
<1>. SUFFICES ASSUME IInv, PrepareCommand PROVE IInv'
  OBVIOUS
<1>. DEFINE rejection == PrepareStatus(command.xScale, command.yScale)
<1>1. pc = "prepare" /\ pc' = "prepared" /\ UNCHANGED service
  BY DEF PrepareCommand
<1>2. command \in Command /\ Part \in Command
  BY PartOfCommand DEF IInv, TypeOK
<1>3. CASE rejection # 0
  <2>1. rejection \in 0 .. 16
    BY DEF PrepareStatus
  <2>2. /\ command' = [(IF command.xScale \in validScales /\ command.yScale \in validScales
                        THEN Part ELSE command) EXCEPT !.status = rejection]
        /\ UNCHANGED <<pointer, heap>>
    BY <1>3 DEF PrepareCommand
  <2>3. command' \in Command /\ command'.status # 0
    BY <1>2, <1>3, <2>1, <2>2 DEF Command
  <2>. QED
    BY <1>1, <2>2, <2>3 DEF service, IInv, TypeOK, PartInv, HeapInv, CallInv, Passed, AtWork
<1>4. CASE rejection = 0
  <2>1. /\ command.xScale \in validScales /\ command.yScale \in validScales
        /\ StartInside(Part) /\ EndInside(Part)
    BY <1>4 DEF PrepareStatus
  <2>. DEFINE width  == DestinationLength(Part.w, command.xScale)
              height == DestinationLength(Part.h, command.yScale)
              size   == Wrap(width * height)
  <2>2. PICK allocated \in SUBSET {"reference", "destination"} :
          /\ command' = [Part EXCEPT !.destinationWidth = width, !.destinationHeight = height,
                                     !.destinationSize = size,
                                     !.status = AllocationStatus(allocated)]
          /\ pointer' = [i \in Images |-> IF i \in allocated THEN "block" ELSE pointer[i]]
          /\ heap' = [i \in Images |-> IF i \in allocated THEN heap[i] + 1 ELSE heap[i]]
    BY <1>4 DEF PrepareCommand
  <2>3. width \in Ints /\ height \in Ints /\ size \in Ints
    <3>1. Part.w \in Int /\ Part.h \in Int
      BY <1>2, IntAssumption DEF Command, Ints
    <3>2. width \in Ints /\ height \in Ints
      BY <2>1, <3>1, LengthInt
    <3>3. width \in Int /\ height \in Int
      BY <3>2, IntAssumption DEF Ints
    <3>. QED  BY <3>2, <3>3, ProductInt
  <2>4. /\ AllocationStatus(allocated) \in 0 .. 16
        /\ AllocationStatus(allocated) = 0 => allocated = {"reference", "destination"}
    <3>1. AllocationStatus(allocated) \in {0, 10, 11}
      BY DEF AllocationStatus
    <3>2. ASSUME AllocationStatus(allocated) = 0
          PROVE  "reference" \in allocated /\ "destination" \in allocated
      BY <3>2 DEF AllocationStatus
    <3>3. AllocationStatus(allocated) \in 0 .. 16
      BY <3>1
    <3>. QED  BY <3>2, <3>3, Zenon
  <2>5. command' \in Command /\ command'.status = AllocationStatus(allocated)
    BY <1>2, <2>2, <2>3, <2>4 DEF Command
  <2>6. TypeOK'
    BY <1>1, <2>2, <2>5 DEF service, IInv, TypeOK
  <2>7. /\ command'.x = Part.x /\ command'.y = Part.y /\ command'.w = Part.w /\ command'.h = Part.h
        /\ command'.sourceWidth = Part.sourceWidth /\ command'.sourceHeight = Part.sourceHeight
    BY <1>2, <2>2 DEF Command
  <2>8. StartInside(command') /\ EndInside(command')
    BY <2>1, <2>7 DEF StartInside, EndInside
  <2>9. HeapInv'
    BY <1>1, <2>2, <2>4, <2>5 DEF IInv, TypeOK, HeapInv, Passed, AtWork, Images
  <2>. QED
    BY <1>1, <2>6, <2>8, <2>9 DEF service, IInv, PartInv, CallInv
<1>. QED  BY <1>3, <1>4

\* Cleanup frees what is pointed to, whichever images these are.
LEMMA CleanupIInv ==
  ASSUME IInv, Cleanup, pc' = "read", command' = NoCommand PROVE IInv'
<1>1. command' \in Command
  BY IntAssumption DEF NoCommand, NewCommand, Command, Ints
<1>2. \A i \in Images : heap'[i] = 0 /\ pointer'[i] = "NULL"
  BY DEF Cleanup, IInv, TypeOK, HeapInv
<1>3. TypeOK'
  BY <1>1, <1>2 DEF Cleanup, Release, IInv, TypeOK
<1>4. HeapInv'
  BY <1>2 DEF HeapInv, Passed, AtWork
<1>. QED
  BY <1>3, <1>4 DEF Cleanup, Release, IInv, PartInv, CallInv, Passed, AtWork

\* After an error the command is cleaned up, else all that the next step needs is there.
LEMMA CheckIInv == IInv /\ CheckCommand => IInv'
<1>. SUFFICES ASSUME IInv, CheckCommand PROVE IInv'
  OBVIOUS
<1>1. CASE command.status # 0
  BY <1>1, CleanupIInv DEF CheckCommand
<1>2. CASE command.status = 0
  BY <1>2 DEF CheckCommand, service, IInv, TypeOK, PartInv, HeapInv, CallInv, CommandRequest,
              Passed, AtWork
<1>. QED  BY <1>1, <1>2

\* So is a command that has ended.
LEMMA EndIInv == IInv /\ EndCommand => IInv'
BY CleanupIInv DEF EndCommand

\* What happens to a program that has written beyond a buffer is left open.
LEMMA OverrunsIInv == IInv /\ ScaleSWOverruns => IInv'
BY DEF ScaleSWOverruns, service, IInv, TypeOK, PartInv, HeapInv, CallInv, Passed, AtWork

\* A scaler is called with the part of the command.
LEMMA CallIInv == IInv /\ CallScaler => IInv'
BY DEF CallScaler, Call, IInv, TypeOK, PartInv, HeapInv, CallInv, CommandRequest, Passed, AtWork

\* What a scaler reports becomes the status of the command.
LEMMA EndScalerIInv == IInv /\ EndScaler => IInv'
<1>. SUFFICES ASSUME IInv, EndScaler PROVE IInv'
  OBVIOUS
<1>1. /\ command' \in Command
      /\ HardwareError => command'.status = 16
      /\ ~HardwareError => command' = command
  BY DEF EndScaler, IInv, TypeOK, Command
<1>2. \A f \in {"x", "y", "w", "h", "xScale", "yScale", "sourceWidth", "sourceHeight"} :
        command'[f] = command[f]
  BY DEF EndScaler, IInv, TypeOK, Command
<1>3. PartInv' /\ CommandRequest' = CommandRequest
  BY <1>2 DEF EndScaler, AfterScaler, IInv, PartInv, StartInside, EndInside, CommandRequest,
              Passed, AtWork
<1>4. TypeOK' /\ HeapInv'
  BY <1>1 DEF EndScaler, AfterScaler, service, IInv, TypeOK, HeapInv, Passed, AtWork
<1>5. CallInv'
  BY <1>1, <1>3 DEF EndScaler, AfterScaler, HardwareError, service, IInv, CallInv
<1>. QED  BY <1>3, <1>4, <1>5 DEF IInv

\* Saving changes nothing but the status.
LEMMA SaveIInv == IInv /\ SaveImage => IInv'
<1>. SUFFICES ASSUME IInv, SaveImage PROVE IInv'
  OBVIOUS
<1>1. command' \in Command
  BY DEF SaveImage, IInv, TypeOK, Command
<1>2. \A f \in {"x", "y", "w", "h", "xScale", "yScale", "sourceWidth", "sourceHeight"} :
        command'[f] = command[f]
  BY DEF SaveImage, IInv, TypeOK, Command
<1>3. PartInv' /\ CommandRequest' = CommandRequest
  BY <1>2 DEF SaveImage, IInv, PartInv, StartInside, EndInside, CommandRequest, Passed, AtWork
<1>. QED
  BY <1>1, <1>3 DEF SaveImage, service, IInv, TypeOK, HeapInv, CallInv, Passed, AtWork

\* The benchmark leaves the command and its source image alone.
LEMMA BenchmarkIInv == IInv /\ (BenchmarkCall \/ EndBenchmark) => IInv'
BY DEF BenchmarkCall, EndBenchmark, Call, service, IInv, TypeOK, PartInv, HeapInv, CallInv, Passed,
       AtWork

\* The service works only while it is called or starts up, and a call that ends
\* without an error has scaled.
LEMMA ServerIInv == IInv /\ Server => IInv'
<1>. SUFFICES ASSUME IInv, Server PROVE IInv'
  OBVIOUS
<1>1. pc' = pc /\ UNCHANGED <<command, pointer, heap>> /\ request' = request
  BY DEF Server, Serve, Initialize, Refuse, Scale, Overwrite, Overrun, Check
<1>2. PartInv' /\ HeapInv' /\ CommandRequest' = CommandRequest
  BY <1>1 DEF IInv, PartInv, HeapInv, Passed, AtWork, CommandRequest
<1>3. TypeOK'
  BY <1>1 DEF Server, Serve, Initialize, Refuse, Scale, Overwrite, Overrun, Check, IInv, TypeOK
<1>4. CallInv'
  BY <1>1, <1>2 DEF Server, Serve, Initialize, Refuse, Scale, Overwrite, Overrun, Check, IInv, TypeOK, CallInv
<1>. QED  BY <1>2, <1>3, <1>4 DEF IInv

\* All steps together.
LEMMA NextIInv == IInv /\ [Next]_vars => IInv'
<1>. SUFFICES ASSUME IInv, [Next]_vars PROVE IInv'
  OBVIOUS
<1>1. CASE Main
  BY <1>1, StartIInv, LoadIInv, PrepareIInv, CheckIInv, EndIInv, OverrunsIInv, CallIInv, EndScalerIInv,
     SaveIInv
  DEF Main
<1>2. CASE ParseCommand \/ BenchmarkCall \/ EndBenchmark \/ Server
  BY <1>2, ParseIInv, BenchmarkIInv, ServerIInv
<1>3. CASE UNCHANGED vars
  BY <1>3 DEF vars, service, IInv, TypeOK, PartInv, HeapInv, CallInv, CommandRequest, Passed, AtWork
<1>. QED  BY <1>1, <1>2, <1>3 DEF Next, Spin

\* Hence in every state.
LEMMA InvariantHolds == Spec => []IInv
BY InitIInv, NextIInv, PTL DEF Spec

-----------------------------------------------------------------------------
\* Whatever is typed in and whatever the files hold, the part that a command at work
\* scales starts and ends in its image: a sum that overflows is rejected
\* (main.c:186-192).  A negative width or height gets through (see MCHwDriver).
THEOREM PartStaysInside == Spec => []PartInside
<1>1. IInv => PartInside
  <2>. SUFFICES ASSUME IInv, AtWork PROVE PartInside
    BY DEF PartInside
  <2>1. command \in Command /\ StartInside(command) /\ EndInside(command)
    BY DEF IInv, TypeOK, PartInv, Passed
  <2>2. command.x + command.w \in 1 .. command.sourceWidth
    BY <2>1, EndDoesNotWrap DEF Command, StartInside, EndInside
  <2>3. command.y + command.h \in 1 .. command.sourceHeight
    BY <2>1, EndDoesNotWrap DEF Command, StartInside, EndInside
  <2>. QED
    BY <2>1, <2>2, <2>3 DEF PartInside, StartInside
<1>. QED  BY <1>1, InvariantHolds, PTL

\* The variables keep their types, a command at work has its three images, and no
\* command leaves one on the heap, whichever of its steps has failed
\* (main.c:200-205, 283-306).
THEOREM HeapSound == Spec => []ImagesOnHeap
<1>1. IInv => ImagesOnHeap
  BY DEF IInv, HeapInv, ImagesOnHeap, Passed
<1>. QED  BY <1>1, InvariantHolds, PTL

\* What is reported as saved is the scaled image of its own command
\* (main.c:296-302).
THEOREM SavesOwnImage == Spec => []SavesScaledImage
<1>1. IInv => SavesScaledImage
  BY DEF IInv, CallInv, SavesScaledImage
<1>. QED  BY <1>1, InvariantHolds, PTL

-----------------------------------------------------------------------------
(* The sizes of the buffers. *)

SizeInv ==
  /\ Passed \/ pc = "prepare" \/ (pc = "loaded" /\ command.status = 0) =>
       command.sourceSize = Wrap(command.sourceWidth * command.sourceHeight)
  /\ Passed =>
       /\ command.xScale \in validScales /\ command.yScale \in validScales
       /\ command.destinationWidth  = DestinationLength(command.w, command.xScale)
       /\ command.destinationHeight = DestinationLength(command.h, command.yScale)
       /\ command.destinationSize =
            Wrap(command.destinationWidth * command.destinationHeight)

\* What prepareCommand computes with C's division is the number of destination
\* positions, where that is an int.
LEMMA LengthMatches ==
  ASSUME NEW n \in Int, n > 0, n + 3 < IntLimit, NEW scale \in validScales,
         DestLen(AxisOf(scale), n) < IntLimit
  PROVE  DestinationLength(n, scale) = DestLen(AxisOf(scale), n)
<1>1. CASE scale > 0
  <2>1. scale = 1 \/ scale = 2 \/ scale = 3 \/ scale = 4
    BY <1>1 DEF validScales
  <2>2. DestLen(AxisOf(scale), n) = n * scale
    BY <1>1 DEF DestLen, AxisOf
  <2>3. n * scale \in Ints
    BY <2>1, <2>2, IntAssumption DEF Ints
  <2>. QED  BY <1>1, <2>2, <2>3, WrapOfInt DEF DestinationLength
<1>2. CASE ~(scale > 0)
  <2>1. scale = -1 \/ scale = -2 \/ scale = -3 \/ scale = -4
    BY <1>2 DEF validScales
  <2>2. n - scale - 1 >= 0 /\ n - scale - 1 = n + (-scale) - 1 /\ n - scale - 1 \in Ints
    BY <2>1, IntAssumption DEF Ints
  <2>3. DestinationLength(n, scale) = (n + (-scale) - 1) \div (-scale)
    BY <1>2, <2>2, WrapOfInt DEF DestinationLength, Quotient
  <2>. QED  BY <1>2, <2>3 DEF DestLen, AxisOf
<1>. QED  BY <1>1, <1>2

\* Where there are pixels, each side of the scaled part has some.
LEMMA SomePixels ==
  ASSUME NEW n \in Int, n > 0, NEW scale \in validScales
  PROVE  DestLen(AxisOf(scale), n) \in Int /\ DestLen(AxisOf(scale), n) >= 1
<1>1. scale \in Int
  BY DEF validScales
<1>2. CASE scale > 0
  <2>1. scale = 1 \/ scale = 2 \/ scale = 3 \/ scale = 4
    BY <1>2 DEF validScales
  <2>2. DestLen(AxisOf(scale), n) = n * scale
    BY <1>2 DEF DestLen, AxisOf
  <2>. QED  BY <2>1, <2>2
<1>3. CASE ~(scale > 0)
  <2>1. scale = -1 \/ scale = -2 \/ scale = -3 \/ scale = -4
    BY <1>3 DEF validScales
  <2>2. DestLen(AxisOf(scale), n) = (n + (-scale) - 1) \div (-scale)
    BY <1>3 DEF DestLen, AxisOf
  <2>. QED  BY <2>1, <2>2
<1>. QED  BY <1>2, <1>3

\* No side is longer than their product.
LEMMA SideOfProduct ==
  ASSUME NEW a \in Int, NEW b \in Int, a >= 1, b >= 1 PROVE a <= a * b /\ b <= a * b
<1>1. a * b - a = a * (b - 1) /\ a * b - b = (a - 1) * b
  OBVIOUS
<1>2. a * (b - 1) >= 0 /\ (a - 1) * b >= 0 /\ a * b \in Int
  OBVIOUS
<1>. QED  BY <1>1, <1>2

\* A step that keeps the sizes, and does not let another command through, keeps SizeInv.
LEMMA SizesKept ==
  ASSUME SizeInv, Passed' => Passed,
         pc' = "prepare" => pc = "prepare" \/ (pc = "loaded" /\ command.status = 0), pc' # "loaded",
         \A f \in {"xScale", "yScale", "w", "h", "sourceWidth", "sourceHeight", "sourceSize",
                   "destinationWidth", "destinationHeight", "destinationSize"} :
           command'[f] = command[f]
  PROVE  SizeInv'
BY DEF SizeInv, DestinationLength, Wrap, Quotient

\* Loading an image gives it the size that the file says.
LEMMA LoadSizes ==
  ASSUME IInv, LoadImage PROVE SizeInv'
<1>1. PICK file \in Files, allocated \in BOOLEAN :
        command' = [command EXCEPT
             !.status = LoadStatus(file, allocated),
             !.sourceWidth  = IF file.opens /\ file.header > 0 THEN file.width ELSE @,
             !.sourceHeight = IF file.opens /\ file.header = 2 THEN file.height ELSE @,
             !.sourceSize   = IF file.opens /\ file.header = 2 THEN FileSize(file) ELSE @]
  BY DEF LoadImage
<1>2. command'.status = 0 => file.opens /\ file.header = 2
  <2>1. command'.status = LoadStatus(file, allocated)
    BY <1>1 DEF IInv, TypeOK, Command
  <2>2. file.header \in 0 .. 2
    BY ScalerAppAssumption
  <2>. QED  BY <2>1, <2>2 DEF LoadStatus
<1>3. command'.status = 0 =>
        command'.sourceSize = Wrap(command'.sourceWidth * command'.sourceHeight)
  BY <1>1, <1>2 DEF FileSize, IInv, TypeOK, Command
<1>4. pc' = "loaded" /\ ~Passed'
  BY DEF LoadImage, Passed, AtWork
<1>. QED  BY <1>3, <1>4 DEF SizeInv, Wrap

\* prepareCommand computes the lengths from the part that it lets through.
LEMMA PrepareSizes ==
  ASSUME IInv, SizeInv, PrepareCommand PROVE SizeInv'
<1>. DEFINE rejection == PrepareStatus(command.xScale, command.yScale)
<1>1. command \in Command /\ Part \in Command
  BY PartOfCommand DEF IInv, TypeOK
<1>2. /\ Part.sourceWidth = command.sourceWidth /\ Part.sourceHeight = command.sourceHeight
      /\ Part.sourceSize = command.sourceSize
      /\ Part.xScale = command.xScale /\ Part.yScale = command.yScale
  BY <1>1 DEF Part, Command
<1>3. CASE rejection # 0
  <2>1. command' = [(IF command.xScale \in validScales /\ command.yScale \in validScales
                      THEN Part ELSE command) EXCEPT !.status = rejection]
    BY <1>3 DEF PrepareCommand
  <2>2. command'.status # 0
    BY <1>1, <1>3, <2>1 DEF Command
  <2>3. ~Passed' /\ pc' = "prepared"
    BY <2>2 DEF PrepareCommand, Passed, AtWork
  <2>. QED  BY <2>3 DEF SizeInv
<1>4. CASE rejection = 0
  <2>1. command.xScale \in validScales /\ command.yScale \in validScales
    BY <1>4 DEF PrepareStatus
  <2>. DEFINE width  == DestinationLength(Part.w, command.xScale)
              height == DestinationLength(Part.h, command.yScale)
              size   == Wrap(width * height)
  <2>2. PICK s : command' = [Part EXCEPT !.destinationWidth = width, !.destinationHeight = height,
                                         !.destinationSize = size, !.status = s]
    BY <1>4 DEF PrepareCommand
  <2>3. /\ command'.sourceWidth = Part.sourceWidth /\ command'.sourceHeight = Part.sourceHeight
        /\ command'.sourceSize = Part.sourceSize
        /\ command'.xScale = Part.xScale /\ command'.yScale = Part.yScale
        /\ command'.w = Part.w /\ command'.h = Part.h
        /\ command'.destinationWidth = width /\ command'.destinationHeight = height
        /\ command'.destinationSize = size
    BY <1>1, <2>2 DEF Command
  <2>4. command.sourceSize = Wrap(command.sourceWidth * command.sourceHeight)
    BY DEF PrepareCommand, SizeInv
  <2>. QED  BY <1>2, <2>1, <2>3, <2>4 DEF SizeInv, DestinationLength, Wrap, Quotient
<1>. QED  BY <1>3, <1>4

\* SizeInv is inductive relative to IInv.
LEMMA NextSizes ==
  ASSUME IInv, SizeInv, [Next]_vars PROVE SizeInv'
<1>1. CASE Start \/ ScaleSWOverruns \/ CallScaler \/ BenchmarkCall \/ EndBenchmark
  <2>1. /\ command' = command /\ (Passed' => Passed)
        /\ pc' \notin {"prepare", "loaded"}
    BY <1>1 DEF Start, ScaleSWOverruns, CallScaler, BenchmarkCall, EndBenchmark, Passed, AtWork
  <2>. QED  BY <2>1, SizesKept
<1>2. CASE Server \/ UNCHANGED vars
  <2>1. command' = command /\ pc' = pc
    BY <1>2 DEF Server, vars
  <2>. QED  BY <2>1 DEF SizeInv, Passed, AtWork, DestinationLength, Wrap, Quotient
<1>3. CASE LoadImage
  BY <1>3, LoadSizes
<1>4. CASE PrepareCommand
  BY <1>4, PrepareSizes
<1>5. CASE ParseCommand \/ EndCommand \/ (CheckCommand /\ command.status # 0)
  BY <1>5 DEF ParseCommand, EndCommand, CheckCommand, SizeInv, Passed, AtWork
<1>6. CASE CheckCommand /\ command.status = 0
  <2>1. /\ command' = command /\ (Passed' => Passed) /\ pc' # "loaded"
        /\ pc' = "prepare" => pc = "loaded"
    BY <1>6 DEF CheckCommand, Passed, AtWork
  <2>. QED  BY <1>6, <2>1, SizesKept
<1>7. CASE EndScaler \/ SaveImage
  <2>1. \A f \in {"xScale", "yScale", "w", "h", "sourceWidth", "sourceHeight", "sourceSize",
                  "destinationWidth", "destinationHeight", "destinationSize"} :
          command'[f] = command[f]
    BY <1>7 DEF EndScaler, SaveImage, IInv, TypeOK, Command
  <2>2. (Passed' => Passed) /\ pc' \notin {"prepare", "loaded"}
    BY <1>7 DEF EndScaler, AfterScaler, SaveImage, Passed, AtWork
  <2>. QED  BY <2>1, <2>2, SizesKept
<1>. QED
  BY <1>1, <1>2, <1>3, <1>4, <1>5, <1>6, <1>7 DEF Next, Main, Spin

\* The source buffer has room for the image and the two destination buffers for exactly
\* the pixels of the scaled part, and scaleSW stays inside them, for images and parts of
\* every size whose number of pixels is an int (main.c:154-155, 194-202).
THEOREM BuffersSuffice == Spec => []BufferMatchesPart
<1>1. Init => SizeInv
  BY DEF Init, SizeInv, Passed, AtWork
<1>2. IInv /\ SizeInv /\ [Next]_vars => SizeInv'
  BY NextSizes
<1>3. IInv /\ SizeInv => BufferMatchesPart
  <2>. SUFFICES ASSUME IInv, SizeInv, AtWork, SizesAreInts
                PROVE  BuffersHoldImages /\ (command.w > 0 => ~Overruns)
    BY DEF BufferMatchesPart
  <2>1. command \in Command /\ Passed
    BY DEF IInv, TypeOK, Passed
  <2>2. StartInside(command) /\ EndInside(command)
    BY <2>1 DEF IInv, PartInv
  <2>3. /\ command.w \in Int /\ command.h \in Int
        /\ command.w <= command.sourceWidth /\ command.h <= command.sourceHeight
    <3>1. command.x + command.w \in 1 .. command.sourceWidth
      BY <2>1, <2>2, EndDoesNotWrap DEF Command, StartInside, EndInside
    <3>2. command.y + command.h \in 1 .. command.sourceHeight
      BY <2>1, <2>2, EndDoesNotWrap DEF Command, StartInside, EndInside
    <3>. QED  BY <2>1, <2>2, <3>1, <3>2, IntAssumption DEF Command, StartInside, Ints
  <2>4. command.sourceSize = command.sourceWidth * command.sourceHeight
    BY <2>1, WrapOfInt DEF SizeInv, SizesAreInts
  <2>5. ASSUME command.w > 0, command.h > 0
        PROVE  /\ command.destinationWidth = scaledWidth /\ command.destinationHeight = scaledHeight
               /\ command.destinationSize = scaledWidth * scaledHeight
               /\ scaledWidth >= 1
    <3>1. /\ scaledWidth \in Int /\ scaledWidth >= 1
          /\ scaledHeight \in Int /\ scaledHeight >= 1
      BY <2>1, <2>3, <2>5, SomePixels DEF SizeInv, scaledWidth, scaledHeight
    <3>2. scaledWidth * scaledHeight \in Ints
      BY DEF SizesAreInts
    <3>3. scaledWidth < IntLimit /\ scaledHeight < IntLimit
      BY <3>1, <3>2, SideOfProduct, IntAssumption DEF Ints
    <3>4. command.w + 3 < IntLimit /\ command.h + 3 < IntLimit
      BY <2>1, <2>3, IntAssumption DEF SizesAreInts, Command, Ints
    <3>5. command.destinationWidth = scaledWidth /\ command.destinationHeight = scaledHeight
      BY <2>1, <2>3, <2>5, <3>3, <3>4, LengthMatches DEF SizeInv, scaledWidth, scaledHeight
    <3>. QED  BY <2>1, <3>1, <3>2, <3>5, WrapOfInt DEF SizeInv
  <2>6. command.w > 0 => ~Overruns
    <3>. SUFFICES ASSUME command.w > 0, Overruns PROVE FALSE
      OBVIOUS
    <3>1. command.h > 0
      BY DEF Overruns
    <3>2. scaledWidth * scaledHeight \in Int
      BY IntAssumption DEF SizesAreInts, Ints
    <3>3. command.destinationSize = scaledWidth * scaledHeight
      BY <2>5, <3>1
    <3>4. command.destinationWidth >= 1 /\ command.destinationWidth \in Int
      BY <2>1, <2>5, <3>1, IntAssumption DEF Command, Ints
    <3>. QED  BY <3>2, <3>3, <3>4 DEF Overruns
  <2>. QED  BY <2>4, <2>5, <2>6 DEF BuffersHoldImages
<1>. QED  BY <1>1, <1>2, <1>3, InvariantHolds, PTL DEF Spec
=============================================================================
