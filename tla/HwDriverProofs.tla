--------------------------- MODULE HwDriverProofs ---------------------------
(* Theorems about the hardware scaler for every buffer size and all jobs. *)
EXTENDS HwDriver, TLAPS

\* A scaled length is no more than four times as long, and no longer when it is
\* scaled down.
LEMMA Lengths ==
  ASSUME NEW scale \in Factors, NEW n \in Nat
  PROVE  /\ DestLen(AxisOf(scale), n) \in Nat
         /\ DestLen(AxisOf(scale), n) <= 4 * n
         /\ scale < 0 => DestLen(AxisOf(scale), n) <= n
<1>0. scale \in (-4 .. 4) \ {0}  BY DEF Factors
<1>1. CASE scale > 0
  <2>1. DestLen(AxisOf(scale), n) = n * scale  BY <1>1 DEF DestLen, AxisOf
  <2>2. scale \in 1 .. 4  BY <1>1 DEF Factors
  <2>3. scale = 1 \/ scale = 2 \/ scale = 3 \/ scale = 4  BY <2>2
  <2> QED  BY <1>1, <2>1, <2>3
<1>2. CASE ~(scale > 0)
  <2>1. scale = -1 \/ scale = -2 \/ scale = -3 \/ scale = -4  BY <1>2 DEF Factors
  <2>2. ~AxisOf(scale).up /\ AxisOf(scale).scale = -scale
    BY <1>0, <1>2 DEF AxisOf
  <2> HIDE DEF AxisOf
  <2>3. CASE scale = -1  BY <2>2, <2>3 DEF DestLen
  <2>4. CASE scale = -2  BY <2>2, <2>4 DEF DestLen
  <2>5. CASE scale = -3  BY <2>2, <2>5 DEF DestLen
  <2>6. CASE scale = -4  BY <2>2, <2>6 DEF DestLen
  <2> QED  BY <2>1, <2>3, <2>4, <2>5, <2>6
<1> QED  BY <1>1, <1>2 DEF Factors

\* What is left of an int in an alt_u16.
LEMMA LengthType ==
  ASSUME NEW n \in Int
  PROVE  /\ AsLength(n) \in Nat
         /\ AsLength(n) < LengthMod
         /\ n \in 0 .. LengthMod - 1 => AsLength(n) = n
<1>1. LengthMod \in Nat /\ LengthMod > 0  BY DriverAssumption
<1> QED  BY <1>1 DEF AsLength

\* The sides as the program computes them: those of the scaled part, and of a
\* part that goes backwards nothing.
LEMMA Sides ==
  ASSUME NEW scale \in Factors, NEW n \in Int
  PROVE  /\ DestSide(AxisOf(scale), n) \in Int
         /\ n >= 0 => DestSide(AxisOf(scale), n) = DestLen(AxisOf(scale), n)
         /\ n < 0 => DestSide(AxisOf(scale), n) <= 0
<1>0. scale \in (-4 .. 4) \ {0}  BY DEF Factors
<1>1. CASE scale > 0
  <2>1. AxisOf(scale).up /\ AxisOf(scale).scale = scale
    BY <1>0, <1>1 DEF AxisOf
  <2>2. scale = 1 \/ scale = 2 \/ scale = 3 \/ scale = 4  BY <1>0, <1>1
  <2> HIDE DEF AxisOf
  <2> QED  BY <2>1, <2>2 DEF DestSide, DestLen
<1>2. CASE ~(scale > 0)
  <2>1. scale = -1 \/ scale = -2 \/ scale = -3 \/ scale = -4  BY <1>0, <1>2
  <2>2. ~AxisOf(scale).up /\ AxisOf(scale).scale = -scale
    BY <1>0, <1>2 DEF AxisOf
  <2> HIDE DEF AxisOf
  <2>3. CASE scale = -1  BY <2>2, <2>3 DEF DestSide, DestLen, Quotient
  <2>4. CASE scale = -2  BY <2>2, <2>4 DEF DestSide, DestLen, Quotient
  <2>5. CASE scale = -3  BY <2>2, <2>5 DEF DestSide, DestLen, Quotient
  <2>6. CASE scale = -4  BY <2>2, <2>6 DEF DestSide, DestLen, Quotient
  <2> QED  BY <2>1, <2>3, <2>4, <2>5, <2>6
<1> QED  BY <1>1, <1>2

\* The lines of any job, those of a part that goes backwards included.
LEMMA Dimensions ==
  ASSUME job \in Job
  PROVE  /\ destinationWidth \in Int /\ destinationHeight \in Int
         /\ RxLines \in Nat
         /\ RxLines <= 4 * Count(job.height)
         /\ TxLines \in Nat
         /\ TxLines <= Count(job.height)
         /\ RxFirst = TxLines + 1
<1>1. /\ job.width \in Int /\ job.height \in Int /\ Count(job.height) \in Nat
      /\ job.xScale \in Factors /\ job.yScale \in Factors
  BY DEF Job, Count
<1>2. destinationWidth \in Int /\ destinationHeight \in Int
  BY <1>1, Sides DEF destinationWidth, destinationHeight, xAxis, yAxis
<1>3. RxLines \in Nat /\ RxLines <= 4 * Count(job.height)
  <2>1. CASE job.height >= 0
    <3>1. job.height \in Nat /\ Count(job.height) = job.height  BY <1>1, <2>1 DEF Count
    <3> QED  BY <1>1, <1>2, <2>1, <3>1, Sides, Lengths DEF RxLines, Count, destinationHeight, yAxis
  <2>2. CASE job.height < 0
    <3>1. destinationHeight <= 0  BY <1>1, <2>2, Sides DEF destinationHeight, yAxis
    <3> QED  BY <1>1, <1>2, <2>2, <3>1 DEF RxLines, Count
  <2> QED  BY <1>1, <2>1, <2>2
<1>4. TxLines \in Nat /\ TxLines <= Count(job.height)
  BY <1>1, Lengths DEF TxLines, SkipsLines, yAxis
<1> QED  BY <1>2, <1>3, <1>4 DEF RxFirst

\* The sides and the lines of a part that does not go backwards.
LEMMA SizedDimensions ==
  ASSUME job \in Job, Sized
  PROVE  /\ job.width \in Nat /\ job.height \in Nat
         /\ destinationWidth \in Nat /\ destinationHeight \in Nat
         /\ destinationWidth = DestLen(xAxis, job.width)
         /\ destinationHeight = DestLen(yAxis, job.height)
         /\ destinationWidth <= 4 * job.width
         /\ RxLines = destinationHeight
         /\ TxLines = IF SkipsLines THEN destinationHeight ELSE job.height
<1>1. /\ job.width \in Nat /\ job.height \in Nat
      /\ job.xScale \in Factors /\ job.yScale \in Factors
  BY DEF Job, Sized
<1>2. /\ destinationWidth = DestLen(xAxis, job.width)
      /\ destinationHeight = DestLen(yAxis, job.height)
  BY <1>1, Sides DEF destinationWidth, destinationHeight, xAxis, yAxis
<1>3. /\ destinationWidth \in Nat /\ destinationHeight \in Nat
      /\ destinationWidth <= 4 * job.width
  BY <1>1, <1>2, Lengths DEF xAxis, yAxis
<1>4. Count(job.height) = job.height /\ Count(destinationHeight) = destinationHeight
  BY <1>1, <1>3 DEF Count
<1> QED  BY <1>1, <1>2, <1>3, <1>4 DEF RxLines, TxLines

\* A part that goes backwards has no place in the destination.
LEMMA Backwards ==
  ASSUME job \in Job, ~Sized
  PROVE  Buffer = {}
<1>1. /\ job.width \in Int /\ job.height \in Int /\ (job.width < 0 \/ job.height < 0)
      /\ job.xScale \in Factors /\ job.yScale \in Factors
  BY DEF Job, Sized
<1>2. /\ destinationWidth \in Int /\ destinationHeight \in Int
      /\ destinationWidth <= 0 \/ destinationHeight <= 0
  BY <1>1, Sides DEF destinationWidth, destinationHeight, xAxis, yAxis
<1> QED  BY <1>2 DEF Buffer

\* Lengths that fit in a descriptor and in a register are kept.
LEMMA SizedRegisters ==
  ASSUME job \in Job, Sized, job.width <= BufferSize, job.height <= BufferSize
  PROVE  /\ AsLength(job.width) = job.width
         /\ AsLength(destinationWidth) = destinationWidth
         /\ \A r \in RegisterValues :
              r = [width |-> job.width,
                   height |-> IF SkipsLines THEN destinationHeight ELSE job.height,
                   xUpscale |-> job.xScale > 0, xScale |-> Encode(job.xScale),
                   yUpscale |-> job.yScale > 0,
                   yScale |-> IF SkipsLines THEN 0 ELSE Encode(job.yScale)]
<1> DEFINE h == IF SkipsLines THEN destinationHeight ELSE job.height
           high == (job.width \div LengthMod) % LengthMod
<1>1. BufferSize \in Nat /\ LengthMod \in Nat /\ LengthMod > 4 * BufferSize
  BY DriverAssumption
<1>2. /\ job.width \in Nat /\ job.height \in Nat
      /\ destinationWidth \in Nat /\ destinationWidth <= 4 * BufferSize
      /\ h \in Nat /\ h <= job.height
  <2>1. h = TxLines  BY SizedDimensions
  <2>2. Count(job.height) = job.height  BY SizedDimensions DEF Count
  <2> QED  BY <1>1, <2>1, <2>2, Dimensions, SizedDimensions
<1>3. /\ AsLength(job.width) = job.width /\ AsLength(destinationWidth) = destinationWidth
      /\ AsLength(h) = h
  BY <1>1, <1>2, LengthType
<1>4. high = 0
  <2>1. job.width \div LengthMod = 0  BY <1>1, <1>2
  <2> QED  BY <1>1, <2>1
<1>5. \A n \in HeightFields(h) : n = h
  BY <1>1, <1>2, <1>4 DEF HeightFields
<1> HIDE DEF high
<1>6. ASSUME NEW r \in RegisterValues
      PROVE  /\ r = [width |-> r.width, height |-> r.height, xUpscale |-> r.xUpscale,
                     xScale |-> r.xScale, yUpscale |-> r.yUpscale, yScale |-> r.yScale]
             /\ r.width \in {job.width} /\ r.height \in HeightFields(h)
             /\ r.xUpscale \in {job.xScale > 0} /\ r.xScale \in {Encode(job.xScale)}
             /\ r.yUpscale \in {job.yScale > 0}
             /\ r.yScale \in {IF SkipsLines THEN 0 ELSE Encode(job.yScale)}
  <2> HIDE DEF h
  <2>1. r \in [width : {job.width}, height : HeightFields(h), xUpscale : {job.xScale > 0},
               xScale : {Encode(job.xScale)}, yUpscale : {job.yScale > 0},
               yScale : {IF SkipsLines THEN 0 ELSE Encode(job.yScale)}]
    BY <1>3, <1>6 DEF RegisterValues, h
  <2> QED  BY <2>1
<1> QED  BY <1>3, <1>5, <1>6

\* The line numbers of the job.
LEMMA Lines ==
  ASSUME job \in Job, NEW i \in Nat
  PROVE  TxLine(i) \in Nat
<1>1. job.y \in Nat /\ job.yScale \in Factors  BY DEF Job
<1>2. CASE SkipsLines
  <2>1. job.yScale \in {-1, -2, -3, -4}  BY <1>1, <1>2 DEF SkipsLines, Factors
  <2>2. TxLine(i) = job.y + i * (-job.yScale)  BY <1>2 DEF TxLine
  <2> QED  BY <1>1, <2>1, <2>2
<1>3. CASE ~SkipsLines  BY <1>1, <1>3 DEF TxLine
<1> QED  BY <1>2, <1>3

\* What goes into the registers fits, the height not cut down.
LEMMA RegistersType ==
  ASSUME job \in Job, NEW r \in RegisterValues
  PROVE  /\ r \in [width : Nat, height : Nat, xUpscale : BOOLEAN, xScale : 0 .. 3,
                   yUpscale : BOOLEAN, yScale : 0 .. 3]
         /\ r.width = AsLength(job.width)
         /\ r.height >= AsLength(IF SkipsLines THEN destinationHeight ELSE job.height)
<1>1. /\ job.width \in Int /\ job.height \in Int
      /\ job.xScale \in Factors /\ job.yScale \in Factors
  BY DEF Job
<1>2. \A scale \in Factors : Encode(scale) \in 0 .. 3  BY DEF Encode, Factors
<1>3. AsLength(job.width) \in Nat  BY <1>1, LengthType
<1>4. (job.xScale > 0) \in BOOLEAN /\ (job.yScale > 0) \in BOOLEAN  OBVIOUS
<1> DEFINE low == AsLength(IF SkipsLines THEN destinationHeight ELSE job.height)
<1>5. \A n \in HeightFields(low) : n \in Nat /\ n >= low
  BY DriverAssumption DEF HeightFields
<1>6. (IF SkipsLines THEN 0 ELSE Encode(job.yScale)) \in 0 .. 3  BY <1>1, <1>2
<1> HIDE DEF Factors, Encode, low
<1>7. r \in [width : {AsLength(job.width)}, height : HeightFields(low),
             xUpscale : {job.xScale > 0}, xScale : {Encode(job.xScale)},
             yUpscale : {job.yScale > 0},
             yScale : {IF SkipsLines THEN 0 ELSE Encode(job.yScale)}]
  BY DEF RegisterValues, low
<1>8. /\ r.width \in {AsLength(job.width)} /\ r.height \in HeightFields(low)
      /\ r.xUpscale \in {job.xScale > 0} /\ r.xScale \in {Encode(job.xScale)}
      /\ r.yUpscale \in {job.yScale > 0}
      /\ r.yScale \in {IF SkipsLines THEN 0 ELSE Encode(job.yScale)}
      /\ r = [width |-> r.width, height |-> r.height, xUpscale |-> r.xUpscale,
              xScale |-> r.xScale, yUpscale |-> r.yUpscale, yScale |-> r.yScale]
  BY <1>7
<1>9. /\ r.width \in Nat /\ r.height \in Nat /\ r.xUpscale \in BOOLEAN /\ r.xScale \in 0 .. 3
      /\ r.yUpscale \in BOOLEAN /\ r.yScale \in 0 .. 3
  BY <1>1, <1>2, <1>3, <1>4, <1>5, <1>6, <1>8
<1>10. r.width = AsLength(job.width) /\ r.height >= low  BY <1>5, <1>8
<1> QED  BY <1>8, <1>9, <1>10 DEF low

-----------------------------------------------------------------------------
LEMMA InitInv ==  Init => DriverInv
<1> SUFFICES ASSUME Init PROVE DriverInv
  OBVIOUS
<1>1. PoolSize \in Nat  BY DriverAssumption DEF PoolSize
<1>2. TypeOK
  BY <1>1, DriverAssumption DEF Init, TypeOK, Idle, Descriptor, Job, Factors, Engines, Positions, EngineState, Origin
<1>3. \A e \in Engines : EngineInv(e)
  BY DEF Init, EngineInv, Started, Idle, Engines
<1> QED  BY <1>2, <1>3 DEF Init, DriverInv, FlagsInv, JobInv, Transferring, ChainInv, Constructed, Started

\* No start finds its engine busy.
LEMMA NeverBusyStep ==
  ASSUME DriverInv, [Next]_vars
  PROVE  status' \notin {4, 5}
<1>1. CASE CallHW
  BY <1>1 DEF DriverInv, CallHW, EnterCall, driver, accelerator, EngineInv, Started, Busy, Engines
<1>2. CASE InitHW
  BY <1>2 DEF DriverInv, InitHW, driver, accelerator, EngineInv, Started, Busy, Engines
<1>3. CASE CheckHW
  BY <1>3 DEF DriverInv, CheckHW, Return, driver, accelerator, EngineInv, Started, Busy, Engines
<1>4. CASE CallHSCD
  BY <1>4 DEF DriverInv, CallHSCD, EnterCall, driver, accelerator, EngineInv, Started, Busy, Engines
<1>5. CASE CheckSize
  BY <1>5 DEF DriverInv, CheckSize, driver, accelerator, EngineInv, Started, Busy, Engines
<1>6. CASE WriteRegisters
  BY <1>6 DEF DriverInv, WriteRegisters, driver, accelerator, EngineInv, Started, Busy, Engines
<1>7. CASE ConstructDescriptors
  BY <1>7 DEF DriverInv, ConstructDescriptors, driver, accelerator, EngineInv, Started, Busy, Engines
<1>8. CASE ResetFlags
  BY <1>8 DEF DriverInv, ResetFlags, driver, accelerator, EngineInv, Started, Busy, Engines
<1>9. CASE StartTx
  BY <1>9 DEF DriverInv, StartTx, Start, driver, accelerator, EngineInv, Started, Busy, Engines
<1>10. CASE StartRx
  BY <1>10 DEF DriverInv, StartRx, Start, driver, accelerator, EngineInv, Started, Busy, Engines
<1>11. CASE Wait
  BY <1>11 DEF DriverInv, Wait, driver, accelerator, EngineInv, Started, Busy, Engines
<1>12. CASE StopTx
  BY <1>12 DEF DriverInv, StopTx, Stop, driver, accelerator, EngineInv, Started, Busy, Engines
<1>13. CASE StopRx
  BY <1>13 DEF DriverInv, StopRx, Stop, driver, accelerator, EngineInv, Started, Busy, Engines
<1>14. ASSUME NEW e \in Engines, Interrupt(e) PROVE status' \notin {4, 5}
  BY <1>14 DEF DriverInv, Interrupt, driver, accelerator, EngineInv, Started, Busy, Engines
<1>15. ASSUME NEW e \in Engines, Fetch(e) PROVE status' \notin {4, 5}
  BY <1>15 DEF DriverInv, Fetch, driver, accelerator, EngineInv, Started, Busy, Engines
<1>16. ASSUME NEW e \in Engines, EndChain(e) PROVE status' \notin {4, 5}
  BY <1>16 DEF DriverInv, EndChain, driver, accelerator, EngineInv, Started, Busy, Engines
<1>17. ASSUME NEW e \in Engines, Retire(e) PROVE status' \notin {4, 5}
  BY <1>17 DEF DriverInv, Retire, driver, accelerator, EngineInv, Started, Busy, Engines
<1>18. CASE ReadWord
  BY <1>18 DEF DriverInv, ReadWord, driver, accelerator, EngineInv, Started, Busy, Engines
<1>19. CASE TakeWord
  BY <1>19 DEF DriverInv, TakeWord, driver, accelerator, EngineInv, Started, Busy, Engines
<1>20. CASE GiveWord
  BY <1>20 DEF DriverInv, GiveWord, driver, accelerator, EngineInv, Started, Busy, Engines
<1>21. CASE UNCHANGED vars
  BY <1>21 DEF DriverInv, vars, driver, accelerator, EngineInv, Started, Busy, Engines
<1> QED
  BY <1>1, <1>2, <1>3, <1>4, <1>5, <1>6, <1>7, <1>8, <1>9, <1>10, <1>11, <1>12, <1>13, <1>14, <1>15, <1>16, <1>17, <1>18, <1>19, <1>20, <1>21
  DEF Next, Processor, Engine, Spin, Stopped

\* The completion counts at each place of the processor.
LEMMA FlagsStep ==
  ASSUME DriverInv, [Next]_vars, pc' # "undefined"
  PROVE  FlagsInv'
<1>1. CASE CallHW
  BY <1>1 DEF DriverInv, CallHW, EnterCall, driver, accelerator, FlagsInv, EngineInv, Started, AllDone, Engines, TypeOK
<1>2. CASE InitHW
  BY <1>2 DEF DriverInv, InitHW, driver, accelerator, FlagsInv, EngineInv, Started, AllDone, Engines, TypeOK
<1>3. CASE CheckHW
  BY <1>3 DEF DriverInv, CheckHW, Return, driver, accelerator, FlagsInv, EngineInv, Started, AllDone, Engines, TypeOK
<1>4. CASE CallHSCD
  BY <1>4 DEF DriverInv, CallHSCD, EnterCall, driver, accelerator, FlagsInv, EngineInv, Started, AllDone, Engines, TypeOK
<1>5. CASE CheckSize
  BY <1>5 DEF DriverInv, CheckSize, driver, accelerator, FlagsInv, EngineInv, Started, AllDone, Engines, TypeOK
<1>6. CASE WriteRegisters
  BY <1>6 DEF DriverInv, WriteRegisters, driver, accelerator, FlagsInv, EngineInv, Started, AllDone, Engines, TypeOK
<1>7. CASE ConstructDescriptors
  BY <1>7 DEF DriverInv, ConstructDescriptors, driver, accelerator, FlagsInv, EngineInv, Started, AllDone, Engines, TypeOK
<1>8. CASE ResetFlags
  BY <1>8 DEF DriverInv, ResetFlags, driver, accelerator, FlagsInv, EngineInv, Started, AllDone, Engines, TypeOK
<1>9. CASE StartTx
  BY <1>9 DEF DriverInv, StartTx, Start, driver, accelerator, FlagsInv, EngineInv, Started, AllDone, Engines, TypeOK
<1>10. CASE StartRx
  BY <1>10 DEF DriverInv, StartRx, Start, driver, accelerator, FlagsInv, EngineInv, Started, AllDone, Engines, TypeOK
<1>11. CASE Wait
  BY <1>11 DEF DriverInv, Wait, driver, accelerator, FlagsInv, EngineInv, Started, AllDone, Engines, TypeOK
<1>12. CASE StopTx
  BY <1>12 DEF DriverInv, StopTx, Stop, driver, accelerator, FlagsInv, EngineInv, Started, AllDone, Engines, TypeOK
<1>13. CASE StopRx
  BY <1>13 DEF DriverInv, StopRx, Stop, driver, accelerator, FlagsInv, EngineInv, Started, AllDone, Engines, TypeOK
<1>14. ASSUME NEW e \in Engines, Interrupt(e) PROVE FlagsInv'
  BY <1>14 DEF DriverInv, Interrupt, driver, accelerator, FlagsInv, EngineInv, Started, AllDone, Engines, TypeOK
<1>15. ASSUME NEW e \in Engines, Fetch(e) PROVE FlagsInv'
  BY <1>15 DEF DriverInv, Fetch, driver, accelerator, FlagsInv, EngineInv, Started, AllDone, Engines, TypeOK
<1>16. ASSUME NEW e \in Engines, EndChain(e) PROVE FlagsInv'
  BY <1>16 DEF DriverInv, EndChain, driver, accelerator, FlagsInv, EngineInv, Started, AllDone, Engines, TypeOK
<1>17. ASSUME NEW e \in Engines, Retire(e) PROVE FlagsInv'
  BY <1>17 DEF DriverInv, Retire, driver, accelerator, FlagsInv, EngineInv, Started, AllDone, Engines, TypeOK
<1>18. CASE ReadWord
  BY <1>18 DEF DriverInv, ReadWord, driver, accelerator, FlagsInv, EngineInv, Started, AllDone, Engines, TypeOK
<1>19. CASE TakeWord
  BY <1>19 DEF DriverInv, TakeWord, driver, accelerator, FlagsInv, EngineInv, Started, AllDone, Engines, TypeOK
<1>20. CASE GiveWord
  BY <1>20 DEF DriverInv, GiveWord, driver, accelerator, FlagsInv, EngineInv, Started, AllDone, Engines, TypeOK
<1>21. CASE UNCHANGED vars
  BY <1>21 DEF DriverInv, vars, driver, accelerator, FlagsInv, EngineInv, Started, AllDone, Engines, TypeOK
<1> QED
  BY <1>1, <1>2, <1>3, <1>4, <1>5, <1>6, <1>7, <1>8, <1>9, <1>10, <1>11, <1>12, <1>13, <1>14, <1>15, <1>16, <1>17, <1>18, <1>19, <1>20, <1>21
  DEF Next, Processor, Engine, Spin, Stopped

\* Moving a word changes the place of the engine in its line and nothing else.
LEMMA MoveEffect ==
  ASSUME dma \in [Engines -> EngineState], NEW e \in Engines, dma' = MoveWord(e)
  PROVE  \A f \in Engines :
           /\ dma'[f].run = dma[f].run
           /\ dma'[f].busy = dma[f].busy
           /\ dma'[f].completed = dma[f].completed
           /\ dma'[f].written = dma[f].written
           /\ dma'[f].irq = dma[f].irq
           /\ dma'[f].next = dma[f].next
<1> DEFINE p == <<dma[e].pos[1], dma[e].pos[2] + 1>>
           l == Count(dma[e].left - 1)
<1>1. dma' = [dma EXCEPT ![e] = [dma[e] EXCEPT !.pos = p, !.left = l]]
  BY DEF MoveWord
<1> HIDE DEF p, l
<1>2. dma'[e] = [dma[e] EXCEPT !.pos = p, !.left = l] /\ \A f \in Engines \ {e} : dma'[f] = dma[f]
  BY <1>1
<1> QED
  BY <1>2 DEF EngineState

\* Engines start at rest, complete, interrupt once and are at rest again.
LEMMA EngineStep ==
  ASSUME DriverInv, [Next]_vars, pc' # "undefined"
  PROVE  \A f \in Engines : EngineInv(f)'
<1>1. CASE CallHW
  BY <1>1 DEF DriverInv, CallHW, EnterCall, driver, accelerator, EngineInv, Started, FlagsInv, Engines
<1>2. CASE InitHW
  BY <1>2 DEF DriverInv, InitHW, driver, accelerator, EngineInv, Started, FlagsInv, Engines
<1>3. CASE CheckHW
  BY <1>3 DEF DriverInv, CheckHW, Return, driver, accelerator, EngineInv, Started, FlagsInv, Engines
<1>4. CASE CallHSCD
  BY <1>4 DEF DriverInv, CallHSCD, EnterCall, driver, accelerator, EngineInv, Started, FlagsInv, Engines
<1>5. CASE CheckSize
  BY <1>5 DEF DriverInv, CheckSize, driver, accelerator, EngineInv, Started, FlagsInv, Engines
<1>6. CASE WriteRegisters
  BY <1>6 DEF DriverInv, WriteRegisters, driver, accelerator, EngineInv, Started, FlagsInv, Engines
<1>7. CASE ConstructDescriptors
  BY <1>7 DEF DriverInv, ConstructDescriptors, driver, accelerator, EngineInv, Started, FlagsInv, Engines
<1>8. CASE ResetFlags
  BY <1>8 DEF DriverInv, ResetFlags, driver, accelerator, EngineInv, Started, FlagsInv, Engines
<1>9. CASE StartTx
  <2>1. ~dma["tx"].run /\ ~dma["tx"].busy /\ ~dma["tx"].irq /\ done["tx"] = 0
    BY <1>9 DEF DriverInv, StartTx, EngineInv, FlagsInv, Started, Engines
  <2>2. /\ dma' = [dma EXCEPT !["tx"] = [@ EXCEPT !.run = TRUE, !.completed = FALSE, !.next = 0]]
        /\ pc = "starttx" /\ pc' = "startrx" /\ done' = done
    BY <1>9, <2>1 DEF StartTx, Start, Busy
  <2>3. dma \in [Engines -> EngineState]
    BY DEF DriverInv, TypeOK
  <2>4. dma'["rx"] = dma["rx"] /\ dma'["tx"].run /\ ~dma'["tx"].busy /\ ~dma'["tx"].irq
    BY <2>1, <2>2, <2>3 DEF Engines, EngineState
  <2> QED
    BY <2>1, <2>2, <2>4 DEF DriverInv, EngineInv, Started, Engines
<1>10. CASE StartRx
  <2>1. ~dma["rx"].run /\ ~dma["rx"].busy /\ ~dma["rx"].irq /\ done["rx"] = 0
    BY <1>10 DEF DriverInv, StartRx, EngineInv, FlagsInv, Started, Engines
  <2>2. /\ dma' = [dma EXCEPT !["rx"] = [@ EXCEPT !.run = TRUE, !.completed = FALSE, !.next = RxFirst]]
        /\ pc = "startrx" /\ pc' = "wait" /\ done' = done
    BY <1>10, <2>1 DEF StartRx, Start, Busy
  <2>3. dma \in [Engines -> EngineState]
    BY DEF DriverInv, TypeOK
  <2>4. dma'["tx"] = dma["tx"] /\ dma'["rx"].run /\ ~dma'["rx"].busy /\ ~dma'["rx"].irq
    BY <2>1, <2>2, <2>3 DEF Engines, EngineState
  <2> QED
    BY <2>1, <2>2, <2>4 DEF DriverInv, EngineInv, Started, Engines
<1>11. CASE Wait
  BY <1>11 DEF DriverInv, Wait, driver, accelerator, EngineInv, Started, FlagsInv, Engines
<1>12. CASE StopTx
  BY <1>12 DEF DriverInv, StopTx, Stop, driver, accelerator, EngineInv, Started, FlagsInv, Engines, TypeOK
<1>13. CASE StopRx
  BY <1>13 DEF DriverInv, StopRx, Stop, driver, accelerator, EngineInv, Started, FlagsInv, Engines, TypeOK
<1>14. ASSUME NEW e \in Engines, Interrupt(e) PROVE \A f \in Engines : EngineInv(f)'
  BY <1>14 DEF DriverInv, Interrupt, driver, accelerator, EngineInv, Started, FlagsInv, Engines, TypeOK
<1>15. ASSUME NEW e \in Engines, Fetch(e) PROVE \A f \in Engines : EngineInv(f)'
  BY <1>15 DEF DriverInv, Fetch, driver, accelerator, EngineInv, Started, FlagsInv, Engines, TypeOK, Ready
<1>16. ASSUME NEW e \in Engines, EndChain(e) PROVE \A f \in Engines : EngineInv(f)'
  BY <1>16 DEF DriverInv, EndChain, driver, accelerator, EngineInv, Started, FlagsInv, Engines, TypeOK, Ready
<1>17. ASSUME NEW e \in Engines, Retire(e) PROVE \A f \in Engines : EngineInv(f)'
  BY <1>17 DEF DriverInv, Retire, driver, accelerator, EngineInv, Started, FlagsInv, Engines, TypeOK
<1>18. CASE ReadWord
  <2>1. dma' = MoveWord("tx") /\ dma["tx"].busy /\ pc' = pc /\ done' = done
    BY <1>18 DEF ReadWord, driver
  <2>2. dma \in [Engines -> EngineState] /\ "tx" \in Engines
    BY DEF DriverInv, TypeOK, Engines
  <2> QED
    BY <2>1, <2>2, MoveEffect DEF DriverInv, EngineInv, Started, Engines
<1>19. CASE TakeWord
  BY <1>19 DEF DriverInv, TakeWord, Advance, driver, accelerator, EngineInv, Started, FlagsInv, Engines
<1>20. CASE GiveWord
  <2>1. dma' = MoveWord("rx") /\ dma["rx"].busy /\ pc' = pc /\ done' = done
    BY <1>20 DEF GiveWord, driver
  <2>2. dma \in [Engines -> EngineState] /\ "rx" \in Engines
    BY DEF DriverInv, TypeOK, Engines
  <2> QED
    BY <2>1, <2>2, MoveEffect DEF DriverInv, EngineInv, Started, Engines
<1>21. CASE UNCHANGED vars
  BY <1>21 DEF DriverInv, vars, driver, accelerator, EngineInv, Started, FlagsInv, Engines
<1> QED
  BY <1>1, <1>2, <1>3, <1>4, <1>5, <1>6, <1>7, <1>8, <1>9, <1>10, <1>11, <1>12, <1>13, <1>14, <1>15, <1>16, <1>17, <1>18, <1>19, <1>20, <1>21
  DEF Next, Processor, Engine, Spin, Stopped

\* No transfer without the size check.
LEMMA JobStep ==
  ASSUME DriverInv, [Next]_vars
  PROVE  JobInv'
<1>1. CASE CallHW
  BY <1>1 DEF DriverInv, CallHW, EnterCall, driver, accelerator, JobInv, Transferring
<1>2. CASE InitHW
  BY <1>2 DEF DriverInv, InitHW, driver, accelerator, JobInv, Transferring
<1>3. CASE CheckHW
  BY <1>3 DEF DriverInv, CheckHW, Return, driver, accelerator, JobInv, Transferring
<1>4. CASE CallHSCD
  BY <1>4 DEF DriverInv, CallHSCD, EnterCall, driver, accelerator, JobInv, Transferring
<1>5. CASE CheckSize
  BY <1>5, DriverAssumption DEF DriverInv, CheckSize, driver, accelerator, JobInv, Transferring, TypeOK, Job
<1>6. CASE WriteRegisters
  BY <1>6 DEF DriverInv, WriteRegisters, driver, accelerator, JobInv, Transferring
<1>7. CASE ConstructDescriptors
  BY <1>7 DEF DriverInv, ConstructDescriptors, driver, accelerator, JobInv, Transferring
<1>8. CASE ResetFlags
  BY <1>8 DEF DriverInv, ResetFlags, driver, accelerator, JobInv, Transferring
<1>9. CASE StartTx
  BY <1>9 DEF DriverInv, StartTx, Start, driver, accelerator, JobInv, Transferring
<1>10. CASE StartRx
  BY <1>10 DEF DriverInv, StartRx, Start, driver, accelerator, JobInv, Transferring
<1>11. CASE Wait
  BY <1>11 DEF DriverInv, Wait, driver, accelerator, JobInv, Transferring
<1>12. CASE StopTx
  BY <1>12 DEF DriverInv, StopTx, Stop, driver, accelerator, JobInv, Transferring
<1>13. CASE StopRx
  BY <1>13 DEF DriverInv, StopRx, Stop, driver, accelerator, JobInv, Transferring
<1>14. ASSUME NEW e \in Engines, Interrupt(e) PROVE JobInv'
  BY <1>14 DEF DriverInv, Interrupt, driver, accelerator, JobInv, Transferring
<1>15. ASSUME NEW e \in Engines, Fetch(e) PROVE JobInv'
  BY <1>15 DEF DriverInv, Fetch, driver, accelerator, JobInv, Transferring
<1>16. ASSUME NEW e \in Engines, EndChain(e) PROVE JobInv'
  BY <1>16 DEF DriverInv, EndChain, driver, accelerator, JobInv, Transferring
<1>17. ASSUME NEW e \in Engines, Retire(e) PROVE JobInv'
  BY <1>17 DEF DriverInv, Retire, driver, accelerator, JobInv, Transferring
<1>18. CASE ReadWord
  BY <1>18 DEF DriverInv, ReadWord, MoveWord, driver, accelerator, JobInv, Transferring
<1>19. CASE TakeWord
  BY <1>19 DEF DriverInv, TakeWord, Advance, driver, accelerator, JobInv, Transferring
<1>20. CASE GiveWord
  BY <1>20 DEF DriverInv, GiveWord, MoveWord, Advance, driver, accelerator, JobInv, Transferring
<1>21. CASE UNCHANGED vars
  BY <1>21 DEF DriverInv, vars, driver, accelerator, JobInv, Transferring
<1> QED
  BY <1>1, <1>2, <1>3, <1>4, <1>5, <1>6, <1>7, <1>8, <1>9, <1>10, <1>11, <1>12, <1>13, <1>14, <1>15, <1>16, <1>17, <1>18, <1>19, <1>20, <1>21
  DEF Next, Processor, Engine, Spin, Stopped

\* The descriptors of a job depend on the job and the scaler only.
LEMMA SameJob ==
  ASSUME UNCHANGED <<job, op>>
  PROVE  /\ TxLines' = TxLines
         /\ RxFirst' = RxFirst
         /\ RxLines' = RxLines
         /\ destinationHeight' = destinationHeight
         /\ destinationWidth' = destinationWidth
BY DEF TxLines, RxLines, RxFirst, SkipsLines, destinationHeight, destinationWidth, xAxis, yAxis

\* Both chains of a job that passed the size check lie in the pool.
LEMMA ChainsFit ==
  ASSUME TypeOK, job.width <= BufferSize, job.height <= BufferSize
  PROVE  /\ TxLines \in 0 .. PoolSize - 1
         /\ RxFirst + RxLines \in 0 .. PoolSize - 3
<1>1. job \in Job  BY DEF TypeOK
<1>2. BufferSize \in Nat  BY DriverAssumption
<1>3. Count(job.height) \in Nat /\ Count(job.height) <= BufferSize
  BY <1>1, <1>2 DEF Job, Count
<1> QED  BY <1>1, <1>2, <1>3, Dimensions DEF PoolSize

\* Stop descriptors stay, and no engine goes past its own.
LEMMA ChainStep ==
  ASSUME DriverInv, [Next]_vars, pc' # "undefined"
  PROVE  ChainInv'
<1>1. CASE CallHW
  BY <1>1 DEF DriverInv, CallHW, EnterCall, driver, accelerator, ChainInv, Constructed, Started
<1>2. CASE InitHW
  BY <1>2, SameJob DEF DriverInv, InitHW, driver, accelerator, ChainInv, Constructed, Started
<1>3. CASE CheckHW
  BY <1>3, SameJob DEF DriverInv, CheckHW, Return, driver, accelerator, ChainInv, Constructed, Started
<1>4. CASE CallHSCD
  BY <1>4 DEF DriverInv, CallHSCD, EnterCall, driver, accelerator, ChainInv, Constructed, Started
<1>5. CASE CheckSize
  BY <1>5, SameJob DEF DriverInv, CheckSize, driver, accelerator, ChainInv, Constructed, Started, TypeOK
<1>6. CASE WriteRegisters
  BY <1>6, SameJob DEF DriverInv, WriteRegisters, driver, accelerator, ChainInv, Constructed, Started, TypeOK, JobInv, Transferring
<1>7. CASE ConstructDescriptors
  <2>1. /\ pc = "descriptors" /\ pc' \in {"flags", "registers", "undefined"}
        /\ UNCHANGED <<job, op, dma>>
    BY <1>7 DEF ConstructDescriptors, driver
  <2>2. job.width <= BufferSize /\ job.height <= BufferSize /\ job \in Job
    BY <2>1 DEF DriverInv, JobInv, Transferring, TypeOK
  <2>3. TypeOK /\ DOMAIN desc = 0 .. PoolSize - 1 /\ PoolSize \in Nat
    BY DriverAssumption DEF DriverInv, TypeOK, PoolSize
  <2> DEFINE n == TxLines
             s == RxFirst + RxLines
  <2>4. /\ n \in 0 .. PoolSize - 1 /\ s \in 0 .. PoolSize - 3
        /\ RxFirst = n + 1 /\ RxLines \in Nat
    BY <2>2, <2>3, ChainsFit, Dimensions
  <2> DEFINE R(d) == d \in RxFirst .. RxFirst + RxLines - 1
             S(d) == [desc[d] EXCEPT !.own = FALSE]
             A(d) == Descriptor(TRUE, <<d - RxFirst, 0>>, AsLength(destinationWidth))
             B(d) == Descriptor(TRUE, <<TxLine(d), job.x>>, AsLength(job.width))
  <2>5. desc' = [d \in DOMAIN desc |-> CASE R(d) -> A(d)
                                         [] d = s -> S(d)
                                         [] d < RxFirst /\ d < n -> B(d)
                                         [] d < RxFirst /\ d >= n -> S(d)
                                         [] OTHER -> desc[d]]
    BY <1>7 DEF ConstructDescriptors
  <2>6. ~R(n) /\ n # s /\ n < RxFirst /\ n >= n /\ ~(n < n) /\ ~R(s) /\ ~(s < RxFirst)
    <3> HIDE DEF n
    <3> QED  BY <2>4
  <2> HIDE DEF n, s, R, S, A, B
  <2>7. desc'[n] = S(n)
    BY <2>5, <2>6, <2>3, <2>4
  <2>8. desc'[s] = S(s)
    BY <2>5, <2>6, <2>3, <2>4
  <2>9. ~desc'[n].own /\ ~desc'[s].own
    BY <2>3, <2>4, <2>7, <2>8 DEF TypeOK, S
  <2> QED
    BY <2>1, <2>9, SameJob DEF ChainInv, Constructed, Started, n, s
<1>8. CASE ResetFlags
  BY <1>8, SameJob DEF DriverInv, ResetFlags, driver, accelerator, ChainInv, Constructed, Started
<1>9. CASE StartTx
  <2>1. ~dma["tx"].run /\ ~dma["tx"].busy /\ pc = "starttx"
    BY <1>9 DEF DriverInv, StartTx, EngineInv, Started, Engines
  <2>2. /\ dma' = [dma EXCEPT !["tx"] = [@ EXCEPT !.run = TRUE, !.completed = FALSE, !.next = 0]]
        /\ pc' = "startrx" /\ UNCHANGED <<job, op, desc>>
    BY <1>9, <2>1 DEF StartTx, Start, Busy
  <2>3. dma \in [Engines -> EngineState] /\ job \in Job
    BY DEF DriverInv, TypeOK
  <2>4. dma'["rx"] = dma["rx"] /\ dma'["tx"].next = 0
    BY <2>2, <2>3 DEF Engines, EngineState
  <2> QED
    BY <2>1, <2>2, <2>3, <2>4, SameJob, Dimensions DEF DriverInv, ChainInv, Constructed, Started
<1>10. CASE StartRx
  <2>1. ~dma["rx"].run /\ ~dma["rx"].busy /\ pc = "startrx"
    BY <1>10 DEF DriverInv, StartRx, EngineInv, Started, Engines
  <2>2. /\ dma' = [dma EXCEPT !["rx"] = [@ EXCEPT !.run = TRUE, !.completed = FALSE, !.next = RxFirst]]
        /\ pc' = "wait" /\ UNCHANGED <<job, op, desc>>
    BY <1>10, <2>1 DEF StartRx, Start, Busy
  <2>3. dma \in [Engines -> EngineState] /\ job \in Job
    BY DEF DriverInv, TypeOK
  <2>4. dma'["tx"] = dma["tx"] /\ dma'["rx"].next = RxFirst
    BY <2>2, <2>3 DEF Engines, EngineState
  <2> QED
    BY <2>1, <2>2, <2>3, <2>4, SameJob, Dimensions DEF DriverInv, ChainInv, Constructed, Started
<1>11. CASE Wait
  BY <1>11, SameJob DEF DriverInv, Wait, driver, accelerator, ChainInv, Constructed, Started
<1>12. CASE StopTx
  <2>1. dma'["rx"] = dma["rx"] /\ pc = "stoptx" /\ pc' = "stoprx" /\ UNCHANGED <<job, op, desc>>
    BY <1>12 DEF StopTx, Stop, driver, DriverInv, TypeOK, Engines
  <2> QED
    BY <2>1, SameJob DEF DriverInv, ChainInv, Constructed, Started
<1>13. CASE StopRx
  BY <1>13, SameJob DEF DriverInv, StopRx, Stop, driver, accelerator, ChainInv, Constructed, Started
<1>14. ASSUME NEW e \in Engines, Interrupt(e) PROVE ChainInv'
  BY <1>14, SameJob DEF DriverInv, Interrupt, driver, accelerator, ChainInv, Constructed, Started, TypeOK, Engines
<1>15. ASSUME NEW e \in Engines, Fetch(e) PROVE ChainInv'
  <2>1. /\ dma[e].run /\ desc[dma[e].next].own
        /\ dma' = [dma EXCEPT ![e].busy = TRUE, ![e].next = @ + 1,
                              ![e].pos = desc[dma[e].next].pos, ![e].left = desc[dma[e].next].len]
        /\ UNCHANGED <<job, op, desc, pc>>
    BY <1>15 DEF Fetch, Ready, driver
  <2>2. Started(e) /\ Constructed
    BY <2>1 DEF DriverInv, EngineInv, Started, Constructed
  <2>3. dma'[e].next = dma[e].next + 1 /\ \A f \in Engines \ {e} : dma'[f] = dma[f]
    BY <2>1 DEF DriverInv, TypeOK, EngineState
  <2>4. /\ dma[e].next # TxLines /\ dma[e].next # RxFirst + RxLines
        /\ dma[e].next \in Nat
    <3>1. dma[e].next # TxLines /\ dma[e].next # RxFirst + RxLines
      BY <2>1, <2>2 DEF DriverInv, ChainInv
    <3>2. dma[e] \in EngineState /\ PoolSize \in Nat
      BY DriverAssumption DEF DriverInv, TypeOK, PoolSize
    <3> QED
      BY <3>1, <3>2 DEF EngineState
  <2>5. TxLines \in Nat /\ RxFirst \in Nat /\ RxLines \in Nat
    BY Dimensions DEF DriverInv, TypeOK
  <2>6. (Constructed => ~desc[TxLines].own /\ ~desc[RxFirst + RxLines].own)'
    BY <2>1, <2>2, SameJob DEF DriverInv, ChainInv, Constructed
  <2>7. CASE e = "tx"
    <3>1. dma[e].next <= TxLines
      BY <1>15, <2>2, <2>7 DEF Fetch, Ready, DriverInv, ChainInv
    <3>2. dma'[e].next <= TxLines
      BY <2>3, <2>4, <2>5, <3>1
    <3>3. dma'["rx"] = dma["rx"]
      BY <2>3, <2>7 DEF Engines
    <3> QED
      BY <2>1, <2>6, <2>7, <3>2, <3>3, SameJob DEF DriverInv, ChainInv, Started
  <2>8. CASE e = "rx"
    <3>1. dma[e].next \in RxFirst .. RxFirst + RxLines
      BY <1>15, <2>2, <2>8 DEF Fetch, Ready, DriverInv, ChainInv
    <3>2. dma'[e].next \in RxFirst .. RxFirst + RxLines
      BY <2>3, <2>4, <2>5, <3>1
    <3>3. dma'["tx"] = dma["tx"]
      BY <2>3, <2>8 DEF Engines
    <3> QED
      BY <2>1, <2>6, <2>8, <3>2, <3>3, SameJob DEF DriverInv, ChainInv, Started
  <2> QED
    BY <1>15, <2>7, <2>8 DEF Engines
<1>16. ASSUME NEW e \in Engines, EndChain(e) PROVE ChainInv'
  BY <1>16, SameJob DEF DriverInv, EndChain, driver, accelerator, ChainInv, Constructed, Started, TypeOK, Engines
<1>17. ASSUME NEW e \in Engines, Retire(e) PROVE ChainInv'
  BY <1>17, SameJob DEF DriverInv, Retire, driver, accelerator, ChainInv, Constructed, Started, TypeOK, Engines
<1>18. CASE ReadWord
  <2>1. dma' = MoveWord("tx") /\ UNCHANGED <<job, op, desc, pc>>
    BY <1>18 DEF ReadWord, driver
  <2>2. dma \in [Engines -> EngineState] /\ "rx" \in Engines /\ "tx" \in Engines
    BY DEF DriverInv, TypeOK, Engines
  <2> QED
    BY <2>1, <2>2, MoveEffect, SameJob DEF DriverInv, ChainInv, Constructed, Started
<1>19. CASE TakeWord
  BY <1>19, SameJob DEF DriverInv, TakeWord, Advance, driver, accelerator, ChainInv, Constructed, Started
<1>20. CASE GiveWord
  <2>1. dma' = MoveWord("rx") /\ UNCHANGED <<job, op, desc>> /\ pc' = pc
    BY <1>20 DEF GiveWord, driver
  <2>2. dma \in [Engines -> EngineState] /\ "rx" \in Engines /\ "tx" \in Engines
    BY DEF DriverInv, TypeOK, Engines
  <2> QED
    BY <2>1, <2>2, MoveEffect, SameJob DEF DriverInv, ChainInv, Constructed, Started
<1>21. CASE UNCHANGED vars
  BY <1>21, SameJob DEF DriverInv, vars, driver, accelerator, ChainInv, Constructed, Started
<1> QED
  BY <1>1, <1>2, <1>3, <1>4, <1>5, <1>6, <1>7, <1>8, <1>9, <1>10, <1>11, <1>12, <1>13, <1>14, <1>15, <1>16, <1>17, <1>18, <1>19, <1>20, <1>21
  DEF Next, Processor, Engine, Spin, Stopped

\* A word moved leaves the engine in its type.
LEMMA MoveType ==
  ASSUME dma \in [Engines -> EngineState], NEW e \in Engines
  PROVE  MoveWord(e) \in [Engines -> EngineState]
<1> DEFINE p == <<dma[e].pos[1], dma[e].pos[2] + 1>>
           l == Count(dma[e].left - 1)
<1>1. dma[e] \in EngineState
  OBVIOUS
<1>2. p \in Positions /\ l \in Nat
  BY <1>1 DEF EngineState, Positions, Count
<1>3. MoveWord(e) = [dma EXCEPT ![e] = [dma[e] EXCEPT !.pos = p, !.left = l]]
  BY DEF MoveWord
<1> HIDE DEF p, l
<1>4. [dma[e] EXCEPT !.pos = p, !.left = l] \in EngineState
  BY <1>1, <1>2 DEF EngineState
<1> QED
  BY <1>3, <1>4

\* The counters and the words that are left in the FIFO keep their types.
LEMMA AdvanceType ==
  ASSUME TypeOK, NEW t \in [row : Nat, col : Nat], NEW r \in [row : Nat, col : Nat], Advance(t, r)
  PROVE  /\ tx' \in [row : Nat, col : Nat]
         /\ rx' \in [row : Nat, col : Nat]
         /\ sent' \in Seq(Positions)
<1>1. Origin \in [row : Nat, col : Nat]  BY DEF Origin
<1>2. Number(t) \in Nat
  <2>1. t.row \in Nat /\ t.col \in Nat /\ registers.width \in Nat  BY DEF TypeOK
  <2>2. \A a, b, c \in Nat : a * b + c \in Nat  OBVIOUS
  <2> QED  BY <2>1, <2>2 DEF Number
<1>3. sent \in Seq(Positions)  BY DEF TypeOK
<1>4. SubSeq(sent, Number(t) + 1, Len(sent)) \in Seq(Positions)  BY <1>2, <1>3
<1> QED  BY <1>1, <1>3, <1>4 DEF Advance

\* Every variable keeps its type.
LEMMA TypeStep ==
  ASSUME DriverInv, [Next]_vars
  PROVE  TypeOK'
<1> USE DEF DriverInv
<1>0. TypeOK /\ BufferSize \in Nat /\ MaxJobs \in Nat /\ Jobs \subseteq Job /\ PoolSize \in Nat
  BY DriverAssumption DEF PoolSize
<1>1. CASE CallHW
  BY <1>0, <1>1 DEF TypeOK, CallHW, EnterCall, driver, accelerator
<1>2. CASE InitHW
  BY <1>0, <1>2 DEF TypeOK, InitHW, driver, accelerator
<1>3. CASE CheckHW
  BY <1>0, <1>3 DEF TypeOK, CheckHW, Return, driver, accelerator
<1>4. CASE CallHSCD
  BY <1>0, <1>4 DEF TypeOK, CallHSCD, EnterCall, driver, accelerator
<1>5. CASE CheckSize
  BY <1>0, <1>5 DEF TypeOK, CheckSize, driver, accelerator
<1>6. CASE WriteRegisters
  <2>1. registers' \in RegisterValues /\ job \in Job
    BY <1>0, <1>6 DEF TypeOK, WriteRegisters
  <2>2. registers' \in [width : Nat, height : Nat, xUpscale : BOOLEAN, xScale : 0 .. 3,
                        yUpscale : BOOLEAN, yScale : 0 .. 3]
    BY <2>1, RegistersType
  <2> QED
    BY <1>0, <1>6, <2>2 DEF TypeOK, WriteRegisters, driver
<1>7. CASE ConstructDescriptors
  <2> DEFINE D == [own : BOOLEAN, pos : Positions, len : Nat]
  <2>1. job \in Job /\ desc \in [0 .. PoolSize - 1 -> D]
    BY <1>0 DEF TypeOK
  <2>2. /\ job.x \in Nat /\ job.width \in Int
        /\ RxFirst \in Nat /\ RxLines \in Nat
        /\ AsLength(job.width) \in Nat /\ AsLength(destinationWidth) \in Nat
    <3>1. job.x \in Nat /\ job.width \in Int  BY <2>1 DEF Job
    <3>2. destinationWidth \in Int /\ TxLines \in Nat /\ RxFirst = TxLines + 1 /\ RxLines \in Nat
      BY <2>1, Dimensions
    <3> HIDE DEF D
    <3>3. AsLength(job.width) \in Nat /\ AsLength(destinationWidth) \in Nat
      BY <3>1, <3>2, LengthType
    <3> QED  BY <3>1, <3>2, <3>3
  <2> HIDE DEF D
  <2>3. desc' \in [0 .. PoolSize - 1 -> D]
    <3> DEFINE s == RxFirst + RxLines
               R(d) == d \in RxFirst .. RxFirst + RxLines - 1
               S(d) == [desc[d] EXCEPT !.own = FALSE]
               A(d) == Descriptor(TRUE, <<d - RxFirst, 0>>, AsLength(destinationWidth))
               B(d) == Descriptor(TRUE, <<TxLine(d), job.x>>, AsLength(job.width))
               C(d) == CASE R(d) -> A(d)
                         [] d = s -> S(d)
                         [] d < RxFirst /\ d < TxLines -> B(d)
                         [] d < RxFirst /\ d >= TxLines -> S(d)
                         [] OTHER -> desc[d]
    <3>1. desc' = [d \in 0 .. PoolSize - 1 |-> C(d)]
      BY <1>7, <2>1 DEF ConstructDescriptors
    <3>2. ASSUME NEW d \in 0 .. PoolSize - 1 PROVE C(d) \in D
      <4>1. desc[d] \in D /\ d \in Nat
        BY <2>1
      <4>2. S(d) \in D
        BY <4>1 DEF D
      <4>3. R(d) => A(d) \in D
        BY <4>1, <2>2 DEF D, Descriptor, Positions
      <4>4. B(d) \in D
        BY <4>1, <2>1, <2>2, Lines DEF D, Descriptor, Positions
      <4> HIDE DEF R, S, A, B, s
      <4> QED
        BY <4>1, <4>2, <4>3, <4>4
    <3> HIDE DEF C
    <3> QED
      BY <3>1, <3>2
  <2> QED
    BY <1>0, <1>7, <2>3 DEF TypeOK, D, ConstructDescriptors, driver, accelerator
<1>8. CASE ResetFlags
  BY <1>0, <1>8 DEF TypeOK, ResetFlags, driver, accelerator
<1>9. CASE StartTx
  <2>1. dma \in [Engines -> EngineState] /\ "tx" \in Engines
    BY <1>0 DEF TypeOK, Engines
  <2>2. 0 \in 0 .. PoolSize
    BY <1>0, <1>9, ChainsFit, Dimensions DEF JobInv, Transferring, StartTx, TypeOK
  <2>3. dma' \in [Engines -> EngineState]
    <3> DEFINE v == [dma["tx"] EXCEPT !.run = TRUE, !.completed = FALSE, !.next = 0]
    <3>1. v \in EngineState
      BY <2>1, <2>2 DEF EngineState
    <3>2. dma' = dma \/ dma' = [dma EXCEPT !["tx"] = v]
      BY <1>9 DEF StartTx, Start
    <3> QED
      BY <2>1, <3>1, <3>2
  <2> QED
    BY <1>0, <1>9, <2>3 DEF TypeOK, StartTx, Start, driver, accelerator
<1>10. CASE StartRx
  <2>1. dma \in [Engines -> EngineState] /\ "rx" \in Engines
    BY <1>0 DEF TypeOK, Engines
  <2>2. RxFirst \in 0 .. PoolSize
    <3>1. job.width <= BufferSize /\ job.height <= BufferSize /\ job \in Job
      BY <1>0, <1>10 DEF JobInv, Transferring, StartRx, TypeOK
    <3>2. /\ RxFirst + RxLines \in 0 .. PoolSize - 3
          /\ RxFirst \in Nat /\ RxLines \in Nat
      BY <1>0, <3>1, ChainsFit, Dimensions
    <3> QED
      BY <1>0, <3>2
  <2>3. dma' \in [Engines -> EngineState]
    <3> DEFINE v == [dma["rx"] EXCEPT !.run = TRUE, !.completed = FALSE, !.next = RxFirst]
    <3>1. v \in EngineState
      BY <2>1, <2>2 DEF EngineState
    <3>2. dma' = dma \/ dma' = [dma EXCEPT !["rx"] = v]
      BY <1>10 DEF StartRx, Start
    <3> QED
      BY <2>1, <3>1, <3>2
  <2> QED
    BY <1>0, <1>10, <2>3 DEF TypeOK, StartRx, Start, driver, accelerator
<1>11. CASE Wait
  BY <1>0, <1>11 DEF TypeOK, Wait, driver, accelerator
<1>12. CASE StopTx
  <2>1. dma' \in [Engines -> EngineState]
    <3> DEFINE v == [dma["tx"] EXCEPT !.run = FALSE, !.completed = FALSE]
    <3>1. dma \in [Engines -> EngineState] /\ "tx" \in Engines
      BY <1>0 DEF TypeOK, Engines
    <3>2. v \in EngineState
      BY <3>1 DEF EngineState
    <3>3. dma' = [dma EXCEPT !["tx"] = v]
      BY <1>12 DEF StopTx, Stop
    <3> QED
      BY <3>1, <3>2, <3>3
  <2> QED
    BY <1>0, <1>12, <2>1 DEF TypeOK, StopTx, Stop, driver, accelerator
<1>13. CASE StopRx
  <2>1. dma' \in [Engines -> EngineState]
    <3> DEFINE v == [dma["rx"] EXCEPT !.run = FALSE, !.completed = FALSE]
    <3>1. dma \in [Engines -> EngineState] /\ "rx" \in Engines
      BY <1>0 DEF TypeOK, Engines
    <3>2. v \in EngineState
      BY <3>1 DEF EngineState
    <3>3. dma' = [dma EXCEPT !["rx"] = v]
      BY <1>13 DEF StopRx, Stop
    <3> QED
      BY <3>1, <3>2, <3>3
  <2> QED
    BY <1>0, <1>13, <2>1 DEF TypeOK, StopRx, Stop, driver, accelerator
<1>14. ASSUME NEW e \in Engines, Interrupt(e) PROVE TypeOK'
  <2>1. dma' \in [Engines -> EngineState]
    BY <1>0, <1>14 DEF TypeOK, Interrupt, EngineState
  <2> QED
    BY <1>0, <1>14, <2>1 DEF TypeOK, Interrupt, driver, accelerator
<1>15. ASSUME NEW e \in Engines, Fetch(e) PROVE TypeOK'
  <2>1. Started(e) /\ Transferring /\ dma[e].run
    BY <1>15 DEF Fetch, Ready, EngineInv, Started, Transferring
  <2>2. dma[e].next \in 0 .. PoolSize - 1
    <3>1. job.width <= BufferSize /\ job.height <= BufferSize /\ job \in Job
      BY <1>0, <2>1 DEF JobInv, TypeOK
    <3>2. /\ RxFirst + RxLines \in 0 .. PoolSize - 3 /\ TxLines \in 0 .. PoolSize - 1
          /\ RxFirst \in Nat /\ RxLines \in Nat
      BY <1>0, <3>1, ChainsFit, Dimensions
    <3>3. dma[e].next \in 0 .. PoolSize
      BY <1>0, <1>15 DEF TypeOK, EngineState
    <3>4. dma[e].next <= TxLines \/ dma[e].next \in RxFirst .. RxFirst + RxLines
      BY <1>15, <2>1 DEF Fetch, Ready, ChainInv, Engines
    <3> QED
      BY <1>0, <3>2, <3>3, <3>4
  <2>3. dma' \in [Engines -> EngineState]
    BY <1>0, <1>15, <2>2 DEF TypeOK, Fetch, EngineState
  <2> QED
    BY <1>0, <1>15, <2>3 DEF TypeOK, Fetch, driver, accelerator
<1>16. ASSUME NEW e \in Engines, EndChain(e) PROVE TypeOK'
  <2>1. dma' \in [Engines -> EngineState]
    <3> DEFINE v == [dma[e] EXCEPT !.completed = TRUE, !.written = FALSE,
                              !.irq = dma[e].irq \/ dma[e].written]
    <3>1. dma \in [Engines -> EngineState]
      BY <1>0 DEF TypeOK
    <3>2. v \in EngineState
      BY <1>16, <3>1 DEF EngineState
    <3>3. dma' = [dma EXCEPT ![e] = v]
      BY <1>16 DEF EndChain
    <3> QED
      BY <1>16, <3>1, <3>2, <3>3
  <2> QED
    BY <1>0, <1>16, <2>1 DEF TypeOK, EndChain, driver, accelerator
<1>17. ASSUME NEW e \in Engines, Retire(e) PROVE TypeOK'
  <2>1. dma' \in [Engines -> EngineState]
    <3> DEFINE v == [dma[e] EXCEPT !.busy = FALSE, !.written = TRUE]
    <3>1. dma \in [Engines -> EngineState]
      BY <1>0 DEF TypeOK
    <3>2. v \in EngineState
      BY <1>17, <3>1 DEF EngineState
    <3>3. dma' = [dma EXCEPT ![e] = v]
      BY <1>17 DEF Retire
    <3> QED
      BY <1>17, <3>1, <3>2, <3>3
  <2> QED
    BY <1>0, <1>17, <2>1 DEF TypeOK, Retire, driver, accelerator
<1>18. CASE ReadWord
  <2>1. dma["tx"] \in EngineState /\ dma' = MoveWord("tx")
    BY <1>0, <1>18 DEF TypeOK, Engines, ReadWord
  <2>2. dma' \in [Engines -> EngineState]
    BY <1>0, <2>1, MoveType DEF TypeOK, Engines
  <2>3. sent' \in Seq(Positions)
    BY <1>0, <1>18, <2>1 DEF TypeOK, ReadWord, EngineState
  <2> QED
    BY <1>0, <1>18, <2>2, <2>3 DEF TypeOK, ReadWord, driver
<1>19. CASE TakeWord
  <2>1. NextPos(tx, registers.width) \in [row : Nat, col : Nat]
    BY <1>0 DEF TypeOK, NextPos
  <2>2. /\ tx' \in [row : Nat, col : Nat] /\ rx' \in [row : Nat, col : Nat]
        /\ sent' \in Seq(Positions)
    BY <1>0, <1>19, <2>1, AdvanceType DEF TypeOK, TakeWord
  <2> QED
    BY <1>0, <1>19, <2>2 DEF TypeOK, TakeWord, driver
<1>20. CASE GiveWord
  <2>1. dma["rx"] \in EngineState /\ dma' = MoveWord("rx")
    BY <1>0, <1>20 DEF TypeOK, Engines, GiveWord
  <2>2. dma' \in [Engines -> EngineState]
    BY <1>0, <2>1, MoveType DEF TypeOK, Engines
  <2>3. NextPos(rx, frameWidth) \in [row : Nat, col : Nat]
    BY <1>0 DEF TypeOK, NextPos
  <2>4. /\ tx' \in [row : Nat, col : Nat] /\ rx' \in [row : Nat, col : Nat]
        /\ sent' \in Seq(Positions)
    BY <1>0, <1>20, <2>3, AdvanceType DEF TypeOK, GiveWord
  <2> QED
    BY <1>0, <1>20, <2>2, <2>4 DEF TypeOK, GiveWord, driver
<1>21. CASE UNCHANGED vars
  BY <1>0, <1>21 DEF TypeOK, vars, driver, accelerator
<1> QED
  BY <1>1, <1>2, <1>3, <1>4, <1>5, <1>6, <1>7, <1>8, <1>9, <1>10, <1>11, <1>12, <1>13, <1>14, <1>15, <1>16, <1>17, <1>18, <1>19, <1>20, <1>21
  DEF Next, Processor, Engine, Spin, Stopped

-----------------------------------------------------------------------------
LEMMA NextInv ==  DriverInv /\ [Next]_vars => DriverInv'
<1> SUFFICES ASSUME DriverInv, [Next]_vars PROVE DriverInv'
  OBVIOUS
<1> QED
  BY NeverBusyStep, FlagsStep, EngineStep, JobStep, ChainStep, TypeStep DEF DriverInv

\* At each place of the processor each engine is where it must be: within its
\* chain, and complete before it has been counted.
THEOREM DriverInvHolds ==  Spec => []DriverInv
<1> QED  BY InitInv, NextInv, PTL DEF Spec

\* Each variable has its type: no register, descriptor index or flag leaves the
\* range that hw_impl.c and the driver give it.
THEOREM TypeCorrect ==  Spec => []TypeOK
<1>1. DriverInv => TypeOK  BY DEF DriverInv
<1> QED  BY <1>1, DriverInvHolds, PTL

\* alt_avalon_sgdma_do_async_transfer never finds its engine busy
\* (hw_impl.c:146-147).
THEOREM EnginesFree ==  Spec => []NeverBusy
<1>1. DriverInv => NeverBusy  BY DEF DriverInv, NeverBusy
<1> QED  BY <1>1, DriverInvHolds, PTL

\* No engine moves a word and no interrupt is pending while the processor
\* changes what they use, or is in its caller (hw_impl.c:113-154).
THEOREM Quiet ==  Spec => []QuietOutsideTransfer
<1>1. DriverInv => QuietOutsideTransfer
  BY DEF DriverInv, QuietOutsideTransfer, Outside, EngineInv, Started, Busy, Engines
<1> QED  BY <1>1, DriverInvHolds, PTL

\* The pool of hw_impl.c:80 holds the descriptors of every image that passes the
\* size check, the two stop descriptors included.
THEOREM PoolSuffices ==  Spec => []DescriptorsFit
<1>1. DriverInv => DescriptorsFit
  <2> SUFFICES ASSUME DriverInv, pc = "descriptors"
               PROVE  RxFirst + RxLines < PoolSize - (IF spare THEN 1 ELSE 0)
    BY DEF DescriptorsFit
  <2>1. RxFirst + RxLines \in 0 .. PoolSize - 3 /\ spare \in BOOLEAN
    BY ChainsFit DEF DriverInv, JobInv, Transferring, TypeOK
  <2>2. PoolSize \in Nat  BY DriverAssumption DEF PoolSize
  <2> QED  BY <2>1, <2>2
<1> QED  BY <1>1, DriverInvHolds, PTL
------------------------------------------------------------------------------
(* The data that the driver moves: the descriptors place the engines, the
   engines' places say what has been streamed, the streams say where the next
   word belongs, and so the buffer fills with the scaled image. *)

\* Positions before one another in raster order are so by their numbers.
LEMMA NumberGrows ==
  ASSUME NEW w \in Nat, NEW r \in Nat, NEW s \in Nat, NEW c \in 0 .. w - 1, NEW d \in Nat, r < s
  PROVE  r * w + c < s * w + d
<1>1. PICK k \in Nat : s = (r + 1) + k
  <2>1. s - (r + 1) \in Nat /\ s = (r + 1) + (s - (r + 1))  OBVIOUS
  <2> QED  BY <2>1
<1>2. s * w = r * w + w + k * w
  BY <1>1
<1>3. k * w \in Nat /\ r * w \in Nat
  <2>1. \A a, b \in Nat : a * b \in Nat  OBVIOUS
  <2> QED  BY <2>1
<1> QED
  BY <1>2, <1>3

\* A number stands for one position only.
LEMMA NumberUnique ==
  ASSUME NEW w \in Nat, NEW r \in Nat, NEW s \in Nat, NEW c \in 0 .. w - 1, NEW d \in 0 .. w - 1,
         r * w + c = s * w + d
  PROVE  r = s /\ c = d
<1>1. r * w \in Nat /\ s * w \in Nat
  <2>1. \A a, b \in Nat : a * b \in Nat  OBVIOUS
  <2> QED  BY <2>1
<1>2. CASE r < s
  BY <1>1, <1>2, NumberGrows
<1>3. CASE s < r
  BY <1>1, <1>3, NumberGrows
<1>4. CASE r = s
  BY <1>1, <1>4
<1> QED
  BY <1>2, <1>3, <1>4

\* The next position has the next number.
LEMMA NumberNext ==
  ASSUME NEW w \in Nat, NEW p \in [row : Nat, col : Nat], p.col < w
  PROVE  LET q == NextPos(p, w)
         IN  /\ q \in [row : Nat, col : Nat]
             /\ q.col < w
             /\ q.row * w + q.col = p.row * w + p.col + 1
<1>1. p.row \in Nat /\ p.col \in Nat  OBVIOUS
<1>2. (p.row + 1) * w = p.row * w + w  BY <1>1
<1>3. p.row * w \in Nat
  <2>1. \A a, b \in Nat : a * b \in Nat  OBVIOUS
  <2> QED  BY <1>1, <2>1
<1>4. CASE p.col + 1 < w
  <2>1. NextPos(p, w) = [row |-> p.row, col |-> p.col + 1]
    BY <1>4 DEF NextPos
  <2> QED  BY <1>1, <1>3, <1>4, <2>1
<1>5. CASE ~(p.col + 1 < w)
  <2>1. NextPos(p, w) = [row |-> p.row + 1, col |-> 0]
    BY <1>5 DEF NextPos
  <2>2. p.col + 1 = w  BY <1>1, <1>5
  <2> QED  BY <1>1, <1>2, <1>3, <2>1, <2>2
<1> QED  BY <1>4, <1>5

\* A product of counts is a count, and of positive counts is positive.
LEMMA Products ==
  ASSUME NEW a \in Nat, NEW b \in Nat
  PROVE  /\ a * b \in Nat
         /\ a > 0 /\ b > 0 => a * b > 0
         /\ \A c \in Nat : a <= c => a * b <= c * b
<1>1. \A x, y \in Nat : x * y \in Nat  OBVIOUS
<1>2. a > 0 /\ b > 0 => a * b > 0
  <2> SUFFICES ASSUME a > 0, b > 0 PROVE a * b > 0  OBVIOUS
  <2>1. a * b = (a - 1) * b + b /\ a - 1 \in Nat  OBVIOUS
  <2> QED  BY <1>1, <2>1
<1>3. ASSUME NEW c \in Nat, a <= c PROVE a * b <= c * b
  <2>1. c * b = a * b + (c - a) * b /\ c - a \in Nat  BY <1>3
  <2> QED  BY <1>1, <2>1
<1> QED  BY <1>1, <1>2, <1>3

\* A scaled line has pixels if the line has, and each shows one of them.
LEMMA AxisBounds ==
  ASSUME NEW axis \in Axis, NEW n \in Nat
  PROVE  /\ DestLen(axis, n) \in Nat
         /\ DestLen(axis, n) > 0 <=> n > 0
         /\ \A d \in 0 .. DestLen(axis, n) - 1 : SrcOf(axis, d) \in 0 .. n - 1
<1>1. axis.scale = 1 \/ axis.scale = 2 \/ axis.scale = 3 \/ axis.scale = 4
  BY DEF Axis
<1>2. axis.up \in BOOLEAN
  BY DEF Axis
<1>3. CASE axis.scale = 1
  BY <1>2, <1>3 DEF SrcOf, DestLen
<1>4. CASE axis.scale = 2
  BY <1>2, <1>4 DEF SrcOf, DestLen
<1>5. CASE axis.scale = 3
  BY <1>2, <1>5 DEF SrcOf, DestLen
<1>6. CASE axis.scale = 4
  BY <1>2, <1>6 DEF SrcOf, DestLen
<1>. QED  BY <1>1, <1>3, <1>4, <1>5, <1>6

\* Both axes of a job are those of a factor.
LEMMA JobAxes ==
  ASSUME job \in Job
  PROVE  /\ xAxis \in Axis /\ yAxis \in Axis
         /\ job.x \in Nat /\ job.y \in Nat
<1>1. job.xScale \in Factors /\ job.yScale \in Factors  BY DEF Job
<1>2. \A s \in Factors : AxisOf(s) \in Axis
  <2> SUFFICES ASSUME NEW s \in Factors PROVE AxisOf(s) \in Axis  OBVIOUS
  <2>1. (s > 0) \in BOOLEAN /\ (IF s > 0 THEN s ELSE -s) \in 1 .. 4  BY DEF Factors
  <2> QED  BY <2>1 DEF AxisOf, Axis
<1> QED  BY <1>1, <1>2 DEF xAxis, yAxis, Job

\* The frame that the registers announce is the image that is transmitted and
\* received, and shows the lines that the driver has not left out.
LEMMA FrameOfJob ==
  ASSUME job \in Job, Sized, job.width <= BufferSize, job.height <= BufferSize,
         registers \in RegisterValues
  PROVE  /\ registers.width = job.width
         /\ registers.height = TxLines
         /\ frameWidth = destinationWidth
         /\ frameHeight = destinationHeight
         /\ frameAxis.x = xAxis
         /\ \A r \in 0 .. destinationHeight - 1 :
              /\ SrcOf(frameAxis.y, r) \in 0 .. TxLines - 1
              /\ TxLine(SrcOf(frameAxis.y, r)) = job.y + SrcOf(yAxis, r)
<1>1. /\ job.x \in Nat /\ job.y \in Nat /\ job.width \in Nat /\ job.height \in Nat
      /\ xAxis \in Axis /\ yAxis \in Axis
      /\ destinationWidth \in Nat /\ destinationHeight \in Nat
      /\ destinationWidth = DestLen(xAxis, job.width)
      /\ destinationHeight = DestLen(yAxis, job.height)
      /\ TxLines = IF SkipsLines THEN destinationHeight ELSE job.height
  BY JobAxes, SizedDimensions
<1>. HIDE DEF destinationWidth, destinationHeight
<1>0. registers = [width |-> job.width,
                   height |-> IF SkipsLines THEN destinationHeight ELSE job.height,
                   xUpscale |-> job.xScale > 0, xScale |-> Encode(job.xScale),
                   yUpscale |-> job.yScale > 0,
                   yScale |-> IF SkipsLines THEN 0 ELSE Encode(job.yScale)]
  BY SizedRegisters
<1>2. \A s \in Factors : [up |-> s > 0, scale |-> Encode(s) + 1] = AxisOf(s)
  <2> SUFFICES ASSUME NEW s \in Factors
               PROVE  [up |-> s > 0, scale |-> Encode(s) + 1] = AxisOf(s)
    OBVIOUS
  <2>1. Encode(s) + 1 = IF s > 0 THEN s ELSE -s  BY DEF Encode, Factors
  <2> QED  BY <2>1 DEF AxisOf
<1>3. job.xScale \in Factors /\ job.yScale \in Factors  BY DEF Job
<1>4. frameAxis.x = xAxis
  BY <1>0, <1>2, <1>3 DEF frameAxis, xAxis
<1>5. registers.width = job.width /\ registers.height = IF SkipsLines THEN destinationHeight ELSE job.height
  BY <1>0
<1>6. registers.height = TxLines
  BY <1>1, <1>5
<1>7. frameWidth = destinationWidth
  BY <1>1, <1>4, <1>5 DEF frameWidth
<1>8. CASE SkipsLines
  <2>1. ~frameAxis.y.up /\ frameAxis.y.scale = 1
    <3>1. ~(job.yScale > 0)  BY <1>3, <1>8 DEF SkipsLines, Factors
    <3>2. ~registers.yUpscale /\ registers.yScale = 0  BY <1>0, <1>8, <3>1
    <3> QED  BY <3>2 DEF frameAxis
  <2>2. frameHeight = destinationHeight /\ destinationHeight \in Nat
    <3>1. destinationHeight \in Nat  BY <1>1
    <3> HIDE DEF frameAxis
    <3>2. registers.height = destinationHeight  BY <1>5, <1>8
    <3> QED  BY <2>1, <3>1, <3>2 DEF frameHeight, DestLen
  <2>3. ASSUME NEW r \in 0 .. destinationHeight - 1
        PROVE  SrcOf(frameAxis.y, r) = r /\ TxLine(r) = job.y + SrcOf(yAxis, r)
    <3>1. r \in Nat  BY <2>2
    <3>2. SrcOf(frameAxis.y, r) = r  BY <2>1, <3>1 DEF SrcOf
    <3>3. ~(job.yScale > 0)  BY <1>3, <1>8 DEF SkipsLines, Factors
    <3>4. SrcOf(yAxis, r) = r * (-job.yScale)  BY <3>3 DEF SrcOf, yAxis, AxisOf
    <3> QED  BY <1>8, <3>2, <3>4 DEF TxLine
  <2>4. TxLines = destinationHeight  BY <1>1, <1>8
  <2> QED  BY <1>4, <1>5, <1>6, <1>7, <2>2, <2>3, <2>4
<1>9. CASE ~SkipsLines
  <2>1. frameAxis.y = yAxis
    BY <1>0, <1>2, <1>3, <1>9 DEF frameAxis, yAxis
  <2>2. frameHeight = destinationHeight /\ TxLines = job.height
    BY <1>1, <1>5, <1>9, <2>1 DEF frameHeight
  <2>3. \A i : TxLine(i) = job.y + i  BY <1>9 DEF TxLine
  <2>4. \A r \in 0 .. destinationHeight - 1 : SrcOf(yAxis, r) \in 0 .. job.height - 1
    BY <1>1, AxisBounds
  <2> QED  BY <1>4, <1>5, <1>6, <1>7, <2>1, <2>2, <2>3, <2>4
<1> QED  BY <1>8, <1>9

\* The lines to transmit are lines of the part, some if it has any.
LEMMA LinesInPart ==
  ASSUME job \in Job, Sized
  PROVE  /\ TxLines > 0 <=> job.height > 0
         /\ destinationHeight > 0 <=> job.height > 0
         /\ destinationWidth > 0 <=> job.width > 0
         /\ \A d \in 0 .. TxLines - 1 : TxLine(d) \in job.y .. job.y + job.height - 1
<1>1. /\ job.x \in Nat /\ job.y \in Nat /\ job.width \in Nat /\ job.height \in Nat
      /\ xAxis \in Axis /\ yAxis \in Axis
      /\ destinationWidth = DestLen(xAxis, job.width)
      /\ destinationHeight = DestLen(yAxis, job.height)
      /\ TxLines = IF SkipsLines THEN destinationHeight ELSE job.height
  BY JobAxes, SizedDimensions
<1>2. /\ destinationHeight > 0 <=> job.height > 0
      /\ destinationWidth > 0 <=> job.width > 0
      /\ \A d \in 0 .. destinationHeight - 1 : SrcOf(yAxis, d) \in 0 .. job.height - 1
  BY <1>1, AxisBounds
<1>3. CASE SkipsLines
  <2>1. TxLines = destinationHeight  BY <1>1, <1>3
  <2>2. ~(job.yScale > 0)  BY <1>3 DEF SkipsLines, Job, Factors
  <2>3. ASSUME NEW d \in 0 .. TxLines - 1 PROVE TxLine(d) \in job.y .. job.y + job.height - 1
    <3>1. TxLine(d) = job.y + SrcOf(yAxis, d)  BY <1>3, <2>2 DEF TxLine, SrcOf, yAxis, AxisOf
    <3> QED  BY <1>1, <1>2, <2>1, <3>1
  <2> QED  BY <1>2, <2>1, <2>3
<1>4. CASE ~SkipsLines
  <2>1. TxLines = job.height /\ \A i : TxLine(i) = job.y + i  BY <1>1, <1>4 DEF TxLine
  <2> QED  BY <1>1, <1>2, <2>1
<1> QED  BY <1>3, <1>4

-----------------------------------------------------------------------------
\* A state in which no part that goes backwards is being transferred, or has
\* been written beyond its buffer.
Regular == DriverInv /\ TransferInv /\ ~Lost /\ pc # "undefined"

\* What the types say of the registers of an engine and of the job.
LEMMA Typed ==
  ASSUME Regular
  PROVE  /\ TypeOK /\ DriverInv /\ job \in Job
         /\ TxLines \in Nat /\ RxLines \in Nat
         /\ destinationWidth \in Int /\ destinationHeight \in Int
         /\ RxFirst = TxLines + 1
         /\ job.x \in Nat /\ job.y \in Nat /\ job.width \in Int /\ job.height \in Int
         /\ \A e \in Engines : dma[e].next \in Nat /\ dma[e].left \in Nat /\ dma[e].pos \in Positions
         /\ "tx" \in Engines /\ "rx" \in Engines
<1>1. TypeOK /\ DriverInv /\ job \in Job
  BY DEF Regular, DriverInv, TypeOK
<1>2. PoolSize \in Nat
  BY DriverAssumption DEF PoolSize
<1>3. \A e \in Engines : dma[e] \in EngineState
  BY <1>1 DEF TypeOK
<1>4. \A e \in Engines : dma[e].next \in Nat /\ dma[e].left \in Nat /\ dma[e].pos \in Positions
  BY <1>2, <1>3 DEF EngineState
<1>5. job.width \in Int /\ job.height \in Int
  BY <1>1 DEF Job
<1> QED
  BY <1>1, <1>4, <1>5, Dimensions, JobAxes DEF Engines

\* In a regular state the part that is transferred does not go backwards.
LEMMA Forwards ==
  ASSUME Regular, Transferring
  PROVE  /\ Sized
         /\ job.width \in Nat /\ job.height \in Nat
         /\ job.width <= BufferSize /\ job.height <= BufferSize
         /\ destinationWidth \in Nat /\ destinationHeight \in Nat
         /\ RxLines = destinationHeight
         /\ AsLength(job.width) = job.width
         /\ AsLength(destinationWidth) = destinationWidth
<1>1. Sized /\ job.width <= BufferSize /\ job.height <= BufferSize
  BY DEF Regular, Lost, DriverInv, JobInv
<1> QED  BY <1>1, Typed, SizedDimensions, SizedRegisters

\* A started engine, and descriptors or registers in use, are a transfer.
LEMMA InTransfer ==
  /\ \A e \in Engines : Started(e) => Transferring
  /\ Started("tx") \/ Started("rx") \/ Constructed \/ Prepared \/ Running => Transferring
BY DEF Started, Constructed, Prepared, Running, Transferring, Engines

\* It has lines to transmit and to receive if it has pixels.
LEMMA SomeLines ==
  ASSUME Regular, Transferring
  PROVE  /\ TxLines > 0 <=> job.height > 0
         /\ RxLines > 0 <=> job.height > 0
         /\ destinationWidth > 0 <=> job.width > 0
         /\ \A d \in 0 .. TxLines - 1 : TxLine(d) \in job.y .. job.y + job.height - 1
BY Typed, Forwards, LinesInPart

\* A word is given only to an engine that is within a line of the destination.
LEMMA Gives ==
  ASSUME Regular, GiveWord
  PROVE  pc = "wait" /\ pc' = pc /\ dma["rx"].left > 0
<1>1. /\ dma["rx"].busy /\ (dma["rx"].left > 0 \/ desc[dma["rx"].next - 1].len = 0)
      /\ pc' = IF dma["rx"].pos \in DOMAIN destination THEN pc ELSE "undefined"
      /\ rx.row < frameHeight /\ Precedes(DuePos, tx)
  BY DEF GiveWord
<1>2. Started("rx") /\ ~dma["rx"].completed
  BY <1>1 DEF Regular, DriverInv, EngineInv, Engines
<1>3. pc = "wait"
  BY <1>2 DEF Started, Regular, DriverInv, EngineInv, FlagsInv, Engines
<1>4. /\ Transferring /\ Constructed /\ Running
  BY <1>3 DEF Transferring, Constructed, Running
<1>5. ~Resting
  <2> SUFFICES ASSUME Resting PROVE FALSE  OBVIOUS
  <2>1. tx.row = 0 /\ tx.col = 0 /\ rx.row = 0 /\ rx.col = 0  BY DEF Resting, Origin
  <2>2. \A axis : axis.scale \in 1 .. 4 => SrcOf(axis, 0) = 0
    BY DEF SrcOf
  <2>3. frameAxis.x.scale \in 1 .. 4 /\ frameAxis.y.scale \in 1 .. 4
    <3>1. registers.xScale \in 0 .. 3 /\ registers.yScale \in 0 .. 3  BY Typed DEF TypeOK
    <3> QED  BY <3>1 DEF frameAxis
  <2>4. DuePos.row = 0 /\ DuePos.col = 0
    <3> HIDE DEF frameAxis
    <3> QED  BY <2>1, <2>2, <2>3 DEF DuePos
  <2> QED  BY <1>1, <2>1, <2>4 DEF Precedes
<1>6. job.width > 0
  BY <1>4, <1>5 DEF Regular, TransferInv, StreamInv, Streaming
<1>7. destinationWidth > 0 /\ destinationWidth \in Nat /\ RxLines = destinationHeight
  BY <1>4, <1>6, Forwards, SomeLines
<1> DEFINE d == dma["rx"].next - 1 - RxFirst
<1>8. d \in 0 .. RxLines - 1 /\ RxFirst + d = dma["rx"].next - 1
  <2>1. dma["rx"].next > RxFirst
    BY <1>1, <1>2 DEF Regular, TransferInv, EndInv, Engines, First
  <2>2. dma["rx"].next \in RxFirst .. RxFirst + RxLines
    BY <1>2 DEF Regular, DriverInv, ChainInv
  <2> QED  BY <2>1, <2>2, Typed
<1> HIDE DEF d
<1>9. desc[dma["rx"].next - 1].len = destinationWidth
  <2>1. desc[RxFirst + d] = Descriptor(TRUE, <<d, 0>>, destinationWidth)
    BY <1>4, <1>8 DEF Regular, TransferInv, DescriptorsInv
  <2> QED  BY <1>8, <2>1 DEF Descriptor
<1>10. dma["rx"].left > 0  BY <1>1, <1>7, <1>9
<1>11. dma["rx"].pos = <<RxRow, RxCol>> /\ dma["rx"].left <= destinationWidth
  BY <1>2, <1>10 DEF Regular, TransferInv, PlacesInv
<1>12. RxRow \in 0 .. destinationHeight - 1 /\ RxCol \in 0 .. destinationWidth - 1
  <2>1. RxRow = d /\ RxCol = destinationWidth - dma["rx"].left
    BY <1>10, Typed DEF d, RxRow, RxCol
  <2> QED  BY <1>7, <1>8, <1>10, <1>11, <2>1, Typed
<1>13. DOMAIN destination = Buffer
  BY <1>4 DEF Regular, TransferInv, DestinationInv
<1> QED  BY <1>1, <1>3, <1>10, <1>11, <1>12, <1>13 DEF Buffer

\* What a step of the processor leaves alone.
LEMMA ProcessorFrame ==
  ASSUME InitHW \/ CheckHW \/ CheckSize \/ ResetFlags \/ Wait
  PROVE  UNCHANGED <<job, op, desc, dma, registers, tx, rx, sent, destination>>
BY DEF InitHW, CheckHW, CheckSize, ResetFlags, Wait, driver, accelerator

\* What a step of an engine leaves alone.
LEMMA EngineFrame ==
  ASSUME (\E e \in Engines : Engine(e)) \/ UNCHANGED vars
  PROVE  /\ UNCHANGED <<pc, job, op, status, mallocPtr, desc, registers, tx, rx, sent, destination>>
<1>1. ASSUME NEW e \in Engines, Interrupt(e) \/ Fetch(e) \/ EndChain(e) \/ Retire(e)
      PROVE  UNCHANGED <<pc, job, op, status, mallocPtr, desc, registers, tx, rx, sent, destination>>
  BY <1>1 DEF Interrupt, Fetch, EndChain, Retire, driver, accelerator
<1>2. CASE UNCHANGED vars
  BY <1>2 DEF vars, driver, accelerator
<1> QED
  BY <1>1, <1>2 DEF Engine

\* What starting or stopping an engine leaves alone.
LEMMA StartStopFrame ==
  ASSUME StartTx \/ StartRx \/ StopTx \/ StopRx
  PROVE  UNCHANGED <<job, op, desc, registers, tx, rx, sent, destination>>
BY DEF StartTx, StartRx, StopTx, StopRx, Start, Stop, driver, accelerator

\* What the transfer of a word leaves alone.
LEMMA WordFrame ==
  ASSUME ReadWord \/ TakeWord \/ GiveWord
  PROVE  /\ UNCHANGED <<job, op, status, mallocPtr, desc, registers, done>>
         /\ Regular => pc' = pc
BY Gives DEF ReadWord, TakeWord, GiveWord, driver

\* The descriptors, and what they say, stay while a call has them.
LEMMA ConstructedStep ==
  ASSUME Regular, [Next]_vars, ~CallHW, ~CallHSCD, ~ConstructDescriptors
  PROVE  UNCHANGED <<job, op, desc>> /\ (Constructed' => Constructed)
<1>1. CASE InitHW \/ CheckHW \/ CheckSize \/ ResetFlags \/ Wait
  BY <1>1, ProcessorFrame DEF InitHW, CheckHW, CheckSize, ResetFlags, Wait, Return,
       Constructed, DriverInv, TypeOK
<1>2. CASE (\E e \in Engines : Engine(e)) \/ UNCHANGED vars
  BY <1>2, EngineFrame DEF Constructed
<1>3. CASE StartTx \/ StartRx \/ StopTx \/ StopRx
  BY <1>3, StartStopFrame DEF StartTx, StartRx, StopTx, StopRx, Start, Constructed
<1>4. CASE ReadWord \/ TakeWord \/ GiveWord
  BY <1>4, WordFrame DEF Constructed
<1>5. CASE WriteRegisters
  BY <1>5 DEF WriteRegisters, driver, Constructed, Regular, DriverInv, JobInv, Transferring, TypeOK
<1> QED
  BY <1>1, <1>2, <1>3, <1>4, <1>5 DEF Next, Processor, Spin, Stopped

\* What TxLine names depends on the job and the scaler only.
LEMMA SameLines ==
  ASSUME UNCHANGED <<job, op>>
  PROVE  \A d : TxLine(d)' = TxLine(d)
BY DEF TxLine, SkipsLines

\* The descriptors are those of the job.
LEMMA DescriptorsStep ==
  ASSUME Regular, [Next]_vars, ~Lost'
  PROVE  DescriptorsInv'
<1>1. CASE CallHW \/ CallHSCD
  BY <1>1 DEF CallHW, CallHSCD, EnterCall, DescriptorsInv, Constructed
<1>2. CASE ConstructDescriptors
  <2>1. /\ pc = "descriptors" /\ UNCHANGED <<job, op>>
    BY <1>2 DEF ConstructDescriptors, driver
  <2>2. job.width <= BufferSize /\ job.height <= BufferSize /\ job \in Job
    BY <2>1 DEF Regular, TransferInv, DriverInv, JobInv, Transferring, TypeOK
  <2>3. TypeOK /\ DOMAIN desc = 0 .. PoolSize - 1 /\ PoolSize \in Nat
    BY DriverAssumption DEF Regular, TransferInv, DriverInv, TypeOK, PoolSize
  <2> DEFINE n == TxLines
             h == RxLines
             f == RxFirst
             R(d) == d \in f .. f + h - 1
             S(d) == [desc[d] EXCEPT !.own = FALSE]
             A(d) == Descriptor(TRUE, <<d - f, 0>>, destinationWidth)
             B(d) == Descriptor(TRUE, <<TxLine(d), job.x>>, job.width)
  <2>4. /\ n \in 0 .. PoolSize - 1 /\ f + h \in 0 .. PoolSize - 3
        /\ f = n + 1 /\ h \in Nat
    BY <2>2, <2>3, ChainsFit, Dimensions
  <2>5. desc' = [d \in DOMAIN desc |-> CASE R(d) -> A(d)
                                         [] d = f + h -> S(d)
                                         [] d < f /\ d < n -> B(d)
                                         [] d < f /\ d >= n -> S(d)
                                         [] OTHER -> desc[d]]
    <3>1. AsLength(job.width) = job.width /\ AsLength(destinationWidth) = destinationWidth
      BY <2>1, Forwards DEF Transferring
    <3> QED  BY <1>2, <3>1 DEF ConstructDescriptors
  <2> HIDE DEF n, h, f, A, B, S
  <2>6. ASSUME NEW d \in 0 .. n - 1 PROVE desc'[d] = B(d)
    <3>1. ~R(d) /\ d # f + h /\ d < f /\ d < n /\ d \in DOMAIN desc  BY <2>3, <2>4
    <3> HIDE DEF R
    <3> QED  BY <2>3, <2>4, <2>5, <3>1
  <2>7. ASSUME NEW d \in 0 .. h - 1 PROVE desc'[f + d] = A(f + d) /\ (f + d) - f = d
    <3>1. R(f + d) /\ f + d \in DOMAIN desc /\ (f + d) - f = d  BY <2>3, <2>4
    <3> HIDE DEF R
    <3> QED  BY <2>3, <2>4, <2>5, <3>1
  <2>8. /\ \A d \in 0 .. TxLines - 1 : desc'[d] = Descriptor(TRUE, <<TxLine(d), job.x>>, job.width)
        /\ \A d \in 0 .. RxLines - 1 :
             desc'[RxFirst + d] = Descriptor(TRUE, <<d, 0>>, destinationWidth)
    BY <2>6, <2>7 DEF n, h, f, A, B
  <2> HIDE DEF R
  <2>9. \A d : TxLine(d)' = TxLine(d)  BY <2>1, SameLines
  <2> QED  BY <2>1, <2>8, <2>9, SameJob DEF DescriptorsInv, Descriptor
<1>3. CASE ~CallHW /\ ~CallHSCD /\ ~ConstructDescriptors
  <2>1. UNCHANGED <<job, op, desc>> /\ (Constructed' => Constructed)
    BY <1>3, ConstructedStep DEF Regular, TransferInv
  <2>2. \A d : TxLine(d)' = TxLine(d)  BY <2>1, SameLines
  <2> QED  BY <2>1, <2>2, SameJob DEF Regular, TransferInv, DescriptorsInv, Descriptor
<1> QED  BY <1>1, <1>2, <1>3

\* What goes into the registers depends on the job and the scaler only.
LEMMA SameRegisters ==
  ASSUME UNCHANGED <<job, op>>
  PROVE  RegisterValues' = RegisterValues
BY SameJob DEF RegisterValues, HeightFields, AsLength, SkipsLines, Encode

\* The registers hold the job from their write to the end of the transfer.
LEMMA RegistersStep ==
  ASSUME Regular, [Next]_vars, ~Lost'
  PROVE  RegistersInv'
<1> DEFINE R == Prepared \/ Running \/ pc \in {"stoptx", "stoprx"}
<1>1. CASE CallHW \/ CallHSCD
  BY <1>1 DEF CallHW, CallHSCD, EnterCall, RegistersInv, Prepared, Running
<1>2. CASE WriteRegisters
  <2>1. registers' \in RegisterValues /\ UNCHANGED <<job, op>>
    BY <1>2 DEF WriteRegisters, driver
  <2>2. RegisterValues' = RegisterValues
    BY <2>1, SameRegisters
  <2> QED  BY <2>1, <2>2 DEF RegistersInv
<1>3. ASSUME UNCHANGED <<job, op, registers>>, R' => R PROVE RegistersInv'
  <2>1. RegisterValues' = RegisterValues
    BY <1>3, SameRegisters
  <2> QED  BY <1>3, <2>1 DEF Regular, TransferInv, RegistersInv
<1>4. CASE InitHW \/ CheckHW \/ CheckSize \/ ResetFlags \/ Wait
  <2>1. R' => R
    BY <1>4, ProcessorFrame DEF InitHW, CheckHW, CheckSize, ResetFlags, Wait, Return,
         Prepared, Running
  <2> QED  BY <1>3, <1>4, <2>1, ProcessorFrame
<1>5. CASE (\E e \in Engines : Engine(e)) \/ UNCHANGED vars
  BY <1>3, <1>5, EngineFrame DEF Prepared, Running
<1>6. CASE StartTx \/ StartRx \/ StopTx \/ StopRx
  <2>1. R' => R
    BY <1>6, StartStopFrame DEF StartTx, StartRx, StopTx, StopRx, Start, Prepared, Running
  <2> QED  BY <1>3, <1>6, <2>1, StartStopFrame
<1>7. CASE ReadWord \/ TakeWord \/ GiveWord
  BY <1>3, <1>7, WordFrame DEF Prepared, Running
<1>8. CASE ConstructDescriptors
  <2>1. UNCHANGED <<job, op, registers>> /\ (R' => R)
    BY <1>8 DEF ConstructDescriptors, driver, accelerator, Prepared, Running
  <2> QED  BY <1>3, <2>1
<1> QED
  BY <1>1, <1>2, <1>4, <1>5, <1>6, <1>7, <1>8 DEF Next, Processor, Spin, Stopped

-----------------------------------------------------------------------------
\* What each step of an engine does to its registers.
LEMMA InterruptEffect ==
  ASSUME TypeOK, NEW e \in Engines, Interrupt(e)
  PROVE  /\ dma'[e] = [dma[e] EXCEPT !.irq = FALSE] /\ \A f \in Engines \ {e} : dma'[f] = dma[f]
         /\ dma[e].irq /\ done' = [done EXCEPT ![e] = @ + 1]
BY DEF TypeOK, Interrupt

\* A fetch takes the place and the length from the descriptor.
LEMMA FetchEffect ==
  ASSUME TypeOK, NEW e \in Engines, Fetch(e)
  PROVE  /\ dma'[e].run = dma[e].run /\ dma'[e].busy /\ dma'[e].completed = dma[e].completed
         /\ dma'[e].written = dma[e].written /\ dma'[e].irq = dma[e].irq
         /\ dma'[e].next = dma[e].next + 1
         /\ dma'[e].pos = desc[dma[e].next].pos /\ dma'[e].left = desc[dma[e].next].len
         /\ \A f \in Engines \ {e} : dma'[f] = dma[f]
         /\ Ready(e) /\ desc[dma[e].next].own /\ done' = done
<1>1. /\ Ready(e) /\ desc[dma[e].next].own /\ done' = done
      /\ dma' = [dma EXCEPT ![e].busy = TRUE, ![e].next = @ + 1,
                            ![e].pos = desc[dma[e].next].pos, ![e].left = desc[dma[e].next].len]
  BY DEF Fetch
<1>2. dma \in [Engines -> EngineState]  BY DEF TypeOK
<1> QED  BY <1>1, <1>2 DEF EngineState

\* The end of the chain, where the descriptor before was written back.
LEMMA EndChainEffect ==
  ASSUME TypeOK, NEW e \in Engines, EndChain(e)
  PROVE  /\ dma'[e].run = dma[e].run /\ dma'[e].busy = dma[e].busy /\ dma'[e].completed
         /\ ~dma'[e].written /\ (dma'[e].irq <=> dma[e].irq \/ dma[e].written)
         /\ dma'[e].next = dma[e].next
         /\ dma'[e].pos = dma[e].pos /\ dma'[e].left = dma[e].left
         /\ \A f \in Engines \ {e} : dma'[f] = dma[f]
         /\ Ready(e) /\ ~desc[dma[e].next].own /\ done' = done
<1>1. /\ Ready(e) /\ ~desc[dma[e].next].own /\ done' = done
      /\ dma' = [dma EXCEPT ![e] = [dma[e] EXCEPT !.completed = TRUE, !.written = FALSE,
                                                  !.irq = dma[e].irq \/ dma[e].written]]
  BY DEF EndChain
<1>2. dma \in [Engines -> EngineState]  BY DEF TypeOK
<1>3. /\ dma'[e] = [dma[e] EXCEPT !.completed = TRUE, !.written = FALSE,
                                  !.irq = dma[e].irq \/ dma[e].written]
      /\ \A f \in Engines \ {e} : dma'[f] = dma[f]
  BY <1>1, <1>2
<1> QED  BY <1>1, <1>2, <1>3 DEF EngineState

\* A descriptor is written back when its last word has moved.
LEMMA RetireEffect ==
  ASSUME TypeOK, NEW e \in Engines, Retire(e)
  PROVE  /\ dma'[e].run = dma[e].run /\ ~dma'[e].busy /\ dma'[e].completed = dma[e].completed
         /\ dma'[e].written /\ dma'[e].irq = dma[e].irq
         /\ dma'[e].next = dma[e].next
         /\ dma'[e].pos = dma[e].pos /\ dma'[e].left = dma[e].left
         /\ \A f \in Engines \ {e} : dma'[f] = dma[f]
         /\ dma[e].busy /\ dma[e].left = 0 /\ (e = "rx" => desc[dma[e].next - 1].len > 0)
         /\ done' = done
<1>1. /\ dma[e].busy /\ dma[e].left = 0 /\ (e = "rx" => desc[dma[e].next - 1].len > 0)
      /\ done' = done
      /\ dma' = [dma EXCEPT ![e].busy = FALSE, ![e].written = TRUE]
  BY DEF Retire
<1>2. dma \in [Engines -> EngineState]  BY DEF TypeOK
<1> QED  BY <1>1, <1>2 DEF EngineState

\* A word takes the engine one column on.
LEMMA MoveWordEffect ==
  ASSUME TypeOK, NEW e \in Engines, dma' = MoveWord(e)
  PROVE  /\ dma'[e].run = dma[e].run /\ dma'[e].busy = dma[e].busy
         /\ dma'[e].completed = dma[e].completed /\ dma'[e].written = dma[e].written
         /\ dma'[e].irq = dma[e].irq /\ dma'[e].next = dma[e].next
         /\ dma'[e].pos = <<dma[e].pos[1], dma[e].pos[2] + 1>> 
         /\ dma'[e].left = Count(dma[e].left - 1)
         /\ dma[e].left > 0 => dma'[e].left = dma[e].left - 1
         /\ \A f \in Engines \ {e} : dma'[f] = dma[f]
<1> DEFINE p == <<dma[e].pos[1], dma[e].pos[2] + 1>>
           l == Count(dma[e].left - 1)
<1>1. dma' = [dma EXCEPT ![e] = [dma[e] EXCEPT !.pos = p, !.left = l]]
  BY DEF MoveWord
<1> HIDE DEF p, l
<1>2. dma'[e] = [dma[e] EXCEPT !.pos = p, !.left = l] /\ \A f \in Engines \ {e} : dma'[f] = dma[f]
  BY <1>1 DEF TypeOK
<1>3. dma[e] \in EngineState  BY DEF TypeOK
<1>4. l \in Nat /\ (dma[e].left > 0 => l = dma[e].left - 1)
  BY <1>3 DEF EngineState, Count, l
<1> QED
  BY <1>2, <1>3, <1>4 DEF EngineState, p, l

\* A start finds the engine idle and sets it at the head of its chain.
LEMMA StartEffect ==
  ASSUME TypeOK, NEW e \in Engines, NEW first, NEW error, NEW next, Start(e, first, error, next), ~Busy(e)
  PROVE  /\ dma'[e].run /\ dma'[e].busy = dma[e].busy /\ ~dma'[e].completed
         /\ dma'[e].written = dma[e].written /\ dma'[e].irq = dma[e].irq
         /\ dma'[e].next = first /\ dma'[e].pos = dma[e].pos /\ dma'[e].left = dma[e].left
         /\ \A f \in Engines \ {e} : dma'[f] = dma[f]
         /\ pc' = next /\ UNCHANGED <<done, status>>
<1>1. /\ dma' = [dma EXCEPT ![e].run = TRUE, ![e].completed = FALSE, ![e].next = first]
      /\ pc' = next /\ UNCHANGED <<done, status>>
  BY DEF Start
<1>2. dma \in [Engines -> EngineState]  BY DEF TypeOK
<1> QED  BY <1>1, <1>2 DEF EngineState

\* A stop leaves the completions counted.
LEMMA StopEffect ==
  ASSUME TypeOK, NEW e \in Engines, Stop(e)
  PROVE  /\ ~dma'[e].run /\ dma'[e].busy = dma[e].busy /\ ~dma'[e].completed
         /\ dma'[e].written = dma[e].written /\ dma'[e].irq = dma[e].irq
         /\ dma'[e].next = dma[e].next /\ dma'[e].pos = dma[e].pos /\ dma'[e].left = dma[e].left
         /\ \A f \in Engines \ {e} : dma'[f] = dma[f]
         /\ done' = done
<1>1. /\ dma' = [dma EXCEPT ![e].run = FALSE, ![e].completed = FALSE]
      /\ done' = done
  BY DEF Stop
<1>2. dma \in [Engines -> EngineState]  BY DEF TypeOK
<1> QED  BY <1>1, <1>2 DEF EngineState

\* No start finds its engine busy, so each start starts.
LEMMA StartsAtRest ==
  ASSUME DriverInv
  PROVE  /\ StartTx => ~Busy("tx") /\ ~dma["tx"].busy /\ ~dma["tx"].irq /\ done["tx"] = 0
         /\ StartRx => ~Busy("rx") /\ ~dma["rx"].busy /\ ~dma["rx"].irq /\ done["rx"] = 0
BY DEF DriverInv, StartTx, StartRx, EngineInv, FlagsInv, Started, Busy, Engines

\* The receive engine's place in memory depends on its registers.
LEMMA SamePlaces ==
  ASSUME UNCHANGED <<job, op, dma>>
  PROVE  RxRow' = RxRow /\ RxCol' = RxCol /\ TxCount' = TxCount
BY SameJob DEF RxRow, RxCol, TxCount

\* Only a start or a stop changes whether an engine is started.
LEMMA StartedStep ==
  ASSUME Regular, [Next]_vars, ~StartTx, ~StartRx, ~StopTx, ~StopRx
  PROVE  \A e \in Engines : Started(e)' <=> Started(e)
<1>1. CASE InitHW \/ CheckHW \/ CheckSize \/ ResetFlags \/ Wait
  BY <1>1 DEF InitHW, CheckHW, CheckSize, ResetFlags, Wait, Return, Started, Engines
<1>2. CASE (\E e \in Engines : Engine(e)) \/ UNCHANGED vars
  BY <1>2, EngineFrame DEF Started
<1>3. CASE ReadWord \/ TakeWord \/ GiveWord
  BY <1>3, WordFrame DEF Started
<1>4. CASE WriteRegisters \/ ConstructDescriptors \/ CallHW \/ CallHSCD
  BY <1>4 DEF WriteRegisters, ConstructDescriptors, CallHW, CallHSCD, EnterCall, Started,
       Engines
<1> QED
  BY <1>1, <1>2, <1>3, <1>4 DEF Next, Processor, Spin, Stopped

\* Steps that leave engines and flags alone.
LEMMA AtRestFrame ==
  ASSUME \/ InitHW \/ CheckHW \/ CheckSize \/ Wait \/ WriteRegisters \/ ConstructDescriptors
         \/ CallHW \/ CallHSCD \/ TakeWord \/ UNCHANGED vars
  PROVE  UNCHANGED <<dma, done>>
<1>1. CASE InitHW \/ CheckHW \/ CheckSize \/ Wait \/ UNCHANGED vars
  BY <1>1 DEF InitHW, CheckHW, CheckSize, Wait, vars
<1>2. CASE WriteRegisters \/ ConstructDescriptors \/ CallHW \/ CallHSCD \/ TakeWord
  BY <1>2 DEF WriteRegisters, ConstructDescriptors, CallHW, CallHSCD, EnterCall, TakeWord
<1> QED  BY <1>1, <1>2

-----------------------------------------------------------------------------
\* An engine fetches a line of the job, in its order.
LEMMA FetchedTx ==
  ASSUME Regular, Fetch("tx")
  PROVE  /\ Started("tx") /\ Constructed
         /\ dma["tx"].next \in 0 .. TxLines - 1
         /\ dma'["tx"].pos = <<TxLine(dma["tx"].next), job.x>>
         /\ dma'["tx"].left = job.width
         /\ dma'["tx"].next = dma["tx"].next + 1
<1>1. Ready("tx") /\ desc[dma["tx"].next].own /\ dma'["tx"].next = dma["tx"].next + 1
      /\ dma'["tx"].pos = desc[dma["tx"].next].pos /\ dma'["tx"].left = desc[dma["tx"].next].len
  BY Typed, FetchEffect
<1>2. Started("tx")
  BY <1>1 DEF Ready, Regular, TransferInv, DriverInv, EngineInv, Engines
<1>3. Constructed
  BY <1>2 DEF Started, Constructed
<1>4. dma["tx"].next <= TxLines /\ ~desc[TxLines].own
  BY <1>2, <1>3 DEF Regular, TransferInv, DriverInv, ChainInv
<1>5. dma["tx"].next \in 0 .. TxLines - 1
  BY <1>1, <1>4, Typed
<1>6. desc[dma["tx"].next] = Descriptor(TRUE, <<TxLine(dma["tx"].next), job.x>>, job.width)
  BY <1>3, <1>5 DEF Regular, TransferInv, DescriptorsInv
<1> QED
  BY <1>1, <1>2, <1>3, <1>5, <1>6 DEF Descriptor

\* The descriptors of the receive engine are the lines of the result in order.
LEMMA FetchedRx ==
  ASSUME Regular, Fetch("rx")
  PROVE  /\ Started("rx") /\ Constructed
         /\ dma["rx"].next - RxFirst \in 0 .. RxLines - 1
         /\ dma'["rx"].pos = <<dma["rx"].next - RxFirst, 0>>
         /\ dma'["rx"].left = destinationWidth
         /\ dma'["rx"].next = dma["rx"].next + 1
<1>1. Ready("rx") /\ desc[dma["rx"].next].own /\ dma'["rx"].next = dma["rx"].next + 1
      /\ dma'["rx"].pos = desc[dma["rx"].next].pos /\ dma'["rx"].left = desc[dma["rx"].next].len
  BY Typed, FetchEffect
<1>2. Started("rx")
  BY <1>1 DEF Ready, Regular, TransferInv, DriverInv, EngineInv, Engines
<1>3. Constructed
  BY <1>2 DEF Started, Constructed
<1>4. dma["rx"].next \in RxFirst .. RxFirst + RxLines /\ ~desc[RxFirst + RxLines].own
  BY <1>2, <1>3 DEF Regular, TransferInv, DriverInv, ChainInv
<1> DEFINE d == dma["rx"].next - RxFirst
<1>5. d \in 0 .. RxLines - 1 /\ RxFirst + d = dma["rx"].next
  BY <1>1, <1>4, Typed
<1> HIDE DEF d
<1>6. desc[RxFirst + d] = Descriptor(TRUE, <<d, 0>>, destinationWidth)
  BY <1>3, <1>5 DEF Regular, TransferInv, DescriptorsInv
<1> QED
  BY <1>1, <1>2, <1>3, <1>5, <1>6 DEF Descriptor, d

\* The engines are in the middle of the lines that memory has them in.
LEMMA PlacesStep ==
  ASSUME Regular, [Next]_vars, ~Lost'
  PROVE  PlacesInv'
<1> DEFINE
      Left(e) == ~(Started(e) /\ dma[e].busy) => dma[e].left = 0
      Tx == Started("tx") /\ dma["tx"].left > 0 =>
              /\ dma["tx"].next \in 1 .. TxLines /\ dma["tx"].left <= job.width
              /\ dma["tx"].pos = <<TxLine(dma["tx"].next - 1), job.x + job.width - dma["tx"].left>>
      Rx == Started("rx") /\ dma["rx"].left > 0 =>
              /\ dma["rx"].next > RxFirst /\ dma["rx"].left <= destinationWidth
              /\ dma["rx"].pos = <<RxRow, RxCol>>
<1>1. /\ TypeOK /\ DriverInv /\ \A e \in Engines : Left(e)
      /\ Tx /\ Rx
  BY Typed DEF Regular, TransferInv, PlacesInv
<1>2. SUFFICES (\A e \in Engines : Left(e)') /\ Tx' /\ Rx'
  BY DEF PlacesInv
<1>3. ASSUME NEW e \in Engines, dma'[e] = dma[e], UNCHANGED <<job, op>>, Started(e)' <=> Started(e)
      PROVE  Left(e)' /\ (e = "tx" => Tx') /\ (e = "rx" => Rx')
  <2>1. Left(e)'  BY <1>1, <1>3
  <2>2. CASE e = "tx"
    BY <1>1, <1>3, <2>1, <2>2, SameJob, SameLines
  <2>3. CASE e = "rx"
    <3>1. RxRow' = RxRow /\ RxCol' = RxCol
      BY <1>3, <2>3, SameJob DEF RxRow, RxCol
    <3> QED  BY <1>1, <1>3, <2>1, <2>3, <3>1, SameJob
  <2> QED  BY <2>1, <2>2, <2>3 DEF Engines
<1>4. CASE CallHW \/ CallHSCD
  <2>1. UNCHANGED dma /\ \A e \in Engines : ~Started(e) /\ ~Started(e)'
    BY <1>4 DEF CallHW, CallHSCD, EnterCall, Started
  <2> QED  BY <1>1, <2>1 DEF Engines
<1>5. CASE InitHW \/ CheckHW \/ CheckSize \/ Wait \/ WriteRegisters \/ ConstructDescriptors
           \/ TakeWord \/ ResetFlags \/ UNCHANGED vars
  <2>1. UNCHANGED <<job, op, dma>>
    BY <1>5 DEF InitHW, CheckHW, CheckSize, Wait, WriteRegisters, ConstructDescriptors,
         TakeWord, ResetFlags, vars, driver
  <2>2. \A e \in Engines : Started(e)' <=> Started(e)
    BY <1>1, <1>5, StartedStep DEF CheckHW, CheckSize, InitHW, ResetFlags, Wait,
         WriteRegisters, ConstructDescriptors, TakeWord, StartTx, StartRx, StopTx, StopRx, vars, Started, Engines, Return
  <2> QED  BY <1>1, <1>3, <2>1, <2>2 DEF Engines
<1>6. CASE StartTx \/ StartRx
  <2>1. PICK e \in Engines : /\ \A f \in Engines \ {e} : dma'[f] = dma[f]
                             /\ dma'[e].left = dma[e].left /\ dma'[e].busy = dma[e].busy /\ ~dma[e].busy
                             /\ \A f \in Engines \ {e} : Started(f)' <=> Started(f)
    <3>1. CASE StartTx
      <4>1. Start("tx", 0, 4, "startrx") /\ ~Busy("tx") /\ ~dma["tx"].busy /\ pc = "starttx"
        BY <1>1, <3>1, StartsAtRest DEF StartTx
      <4>2. /\ dma'["tx"].busy = dma["tx"].busy /\ dma'["tx"].left = dma["tx"].left
            /\ \A f \in Engines \ {"tx"} : dma'[f] = dma[f]
            /\ pc' = "startrx"
        BY <1>1, <4>1, StartEffect DEF Engines
      <4> QED  BY <4>1, <4>2 DEF Engines, Started
    <3>2. CASE StartRx
      <4>1. Start("rx", RxFirst, 5, "wait") /\ ~Busy("rx") /\ ~dma["rx"].busy /\ pc = "startrx"
        BY <1>1, <3>2, StartsAtRest DEF StartRx
      <4>2. /\ dma'["rx"].busy = dma["rx"].busy /\ dma'["rx"].left = dma["rx"].left
            /\ \A f \in Engines \ {"rx"} : dma'[f] = dma[f]
            /\ pc' = "wait"
        BY <1>1, <4>1, StartEffect DEF Engines
      <4> QED  BY <4>1, <4>2 DEF Engines, Started
    <3> QED  BY <1>6, <3>1, <3>2
  <2>2. UNCHANGED <<job, op>>  BY <1>6, StartStopFrame
  <2>3. \A f \in Engines \ {e} : Left(f)' /\ (f = "tx" => Tx') /\ (f = "rx" => Rx')
    BY <1>3, <2>1, <2>2
  <2>4. dma'[e].left = 0  BY <1>1, <2>1
  <2> QED  BY <2>3, <2>4 DEF Engines
<1>7. CASE StopTx \/ StopRx
  <2>1. PICK e \in Engines : Stop(e) /\ ~Started(e)' /\ \A f \in Engines \ {e} : Started(f)' <=> Started(f)
    BY <1>7 DEF StopTx, StopRx, Started, Engines
  <2>2. UNCHANGED <<job, op>>  BY <1>7, StartStopFrame
  <2>3. /\ dma'[e].left = dma[e].left /\ dma'[e].busy = dma[e].busy
        /\ \A f \in Engines \ {e} : dma'[f] = dma[f]
    BY <1>1, <2>1, StopEffect
  <2>4. \A f \in Engines \ {e} : Left(f)' /\ (f = "tx" => Tx') /\ (f = "rx" => Rx')
    BY <1>3, <2>1, <2>2, <2>3
  <2>5. Left(e)'
    <3>1. ~dma[e].busy
      BY <1>1, <1>7 DEF StopTx, StopRx, DriverInv, EngineInv, FlagsInv, Started, Engines
    <3> QED  BY <1>1, <2>3, <3>1
  <2> QED  BY <2>1, <2>4, <2>5 DEF Engines
<1>8. ASSUME NEW e \in Engines, Engine(e)
      PROVE  (\A f \in Engines : Left(f)') /\ Tx' /\ Rx'
  <2>1. UNCHANGED <<pc, job, op>> /\ \A f \in Engines : Started(f)' <=> Started(f)
    BY <1>8, EngineFrame DEF Started
  <2>2. ASSUME \A f \in Engines \ {e} : dma'[f] = dma[f],
               Left(e)' /\ (e = "tx" => Tx') /\ (e = "rx" => Rx')
        PROVE  (\A f \in Engines : Left(f)') /\ Tx' /\ Rx'
    BY <1>3, <2>1, <2>2 DEF Engines
  <2>3. ASSUME dma'[e].next = dma[e].next, dma'[e].pos = dma[e].pos, dma'[e].left = dma[e].left,
               Left(e)', \A f \in Engines \ {e} : dma'[f] = dma[f]
        PROVE  (\A f \in Engines : Left(f)') /\ Tx' /\ Rx'
    <3>1. CASE e = "tx"
      BY <1>1, <2>1, <2>2, <2>3, <3>1, SameJob, SameLines
    <3>2. CASE e = "rx"
      <4>1. RxRow' = RxRow /\ RxCol' = RxCol
        BY <2>1, <2>3, <3>2, SameJob DEF RxRow, RxCol
      <4> QED  BY <1>1, <2>1, <2>2, <2>3, <3>2, <4>1, SameJob
    <3> QED  BY <3>1, <3>2 DEF Engines
  <2>4. CASE Interrupt(e)
    <3>1. dma'[e] = [dma[e] EXCEPT !.irq = FALSE] /\ \A f \in Engines \ {e} : dma'[f] = dma[f]
      BY <1>1, <2>4, InterruptEffect
    <3>2. dma[e] \in EngineState  BY <1>1 DEF TypeOK
    <3>3. /\ dma'[e].next = dma[e].next /\ dma'[e].pos = dma[e].pos
          /\ dma'[e].left = dma[e].left /\ dma'[e].busy = dma[e].busy
      BY <3>1, <3>2 DEF EngineState
    <3> QED  BY <1>1, <2>1, <2>3, <3>1, <3>3
  <2>5. CASE EndChain(e)
    BY <1>1, <2>1, <2>3, <2>5, EndChainEffect
  <2>6. CASE Retire(e)
    BY <1>1, <2>3, <2>6, RetireEffect
  <2>7. CASE Fetch(e) /\ e = "tx"
    <3>1. /\ dma["tx"].next \in 0 .. TxLines - 1
          /\ dma'["tx"].pos = <<TxLine(dma["tx"].next), job.x>>
          /\ dma'["tx"].left = job.width /\ dma'["tx"].next = dma["tx"].next + 1
          /\ dma'["tx"].busy /\ dma'["rx"] = dma["rx"]
      BY <1>1, <2>7, FetchedTx, FetchEffect DEF Engines
    <3>2. TxLine(dma["tx"].next - 1)' = TxLine(dma["tx"].next)
      BY <2>1, <3>1, Typed, SameLines
    <3>3. Tx'
      BY <2>1, <3>1, <3>2, Typed, SameJob
    <3>4. Left("tx")'
      <4>1. Started("tx")'  BY <2>1, <2>7, FetchedTx DEF Engines
      <4> QED  BY <3>1, <4>1
    <3> QED  BY <2>2, <2>7, <3>1, <3>3, <3>4 DEF Engines
  <2>8. CASE Fetch(e) /\ e = "rx"
    <3>1. /\ dma["rx"].next - RxFirst \in 0 .. RxLines - 1
          /\ dma'["rx"].pos = <<dma["rx"].next - RxFirst, 0>>
          /\ dma'["rx"].left = destinationWidth /\ dma'["rx"].next = dma["rx"].next + 1
          /\ dma'["rx"].busy /\ dma'["tx"] = dma["tx"]
      BY <1>1, <2>8, FetchedRx, FetchEffect DEF Engines
    <3>2. dma'["rx"].left > 0 => RxRow' = dma["rx"].next - RxFirst /\ RxCol' = 0
      BY <2>1, <3>1, Typed, SameJob DEF RxRow, RxCol
    <3>3. Rx'
      BY <2>1, <3>1, <3>2, Typed, SameJob
    <3>4. Left("rx")'
      <4>1. Started("rx")'  BY <2>1, <2>8, FetchedRx DEF Engines
      <4> QED  BY <3>1, <4>1
    <3> QED  BY <2>2, <2>8, <3>1, <3>3, <3>4 DEF Engines
  <2> QED  BY <1>8, <2>4, <2>5, <2>6, <2>7, <2>8 DEF Engine, Engines
<1>9. CASE ReadWord
  <2>1. /\ UNCHANGED <<pc, job, op>> /\ dma' = MoveWord("tx") /\ dma["tx"].busy /\ dma["tx"].left > 0
    BY <1>9, WordFrame DEF ReadWord
  <2>2. \A f \in Engines : Started(f)' <=> Started(f)
    BY <2>1 DEF Started
  <2>3. /\ dma'["tx"].busy /\ dma'["tx"].next = dma["tx"].next /\ dma'["tx"].left = dma["tx"].left - 1
        /\ dma'["tx"].pos = <<dma["tx"].pos[1], dma["tx"].pos[2] + 1>>
        /\ dma'["rx"] = dma["rx"]
    BY <1>1, <2>1, MoveWordEffect DEF Engines
  <2>4. TxLine(dma["tx"].next - 1)' = TxLine(dma["tx"].next - 1)
    BY <2>1, <2>3, SameLines
  <2>5. Tx'
    BY <1>1, <2>1, <2>2, <2>3, <2>4, Typed, SameJob
  <2>6. Left("tx")'
    <3>1. Started("tx")'  BY <1>1, <2>1, <2>2 DEF Engines
    <3> QED  BY <2>3, <3>1
  <2> QED  BY <1>3, <2>1, <2>2, <2>3, <2>5, <2>6 DEF Engines
<1>10. CASE GiveWord
  <2>1. /\ UNCHANGED <<pc, job, op>> /\ dma' = MoveWord("rx") /\ dma["rx"].busy /\ dma["rx"].left > 0
    BY <1>10, WordFrame, Gives DEF GiveWord
  <2>2. \A f \in Engines : Started(f)' <=> Started(f)
    BY <2>1 DEF Started
  <2>3. /\ dma'["rx"].busy /\ dma'["rx"].next = dma["rx"].next /\ dma'["rx"].left = dma["rx"].left - 1
        /\ dma'["rx"].pos = <<dma["rx"].pos[1], dma["rx"].pos[2] + 1>>
        /\ dma'["tx"] = dma["tx"]
    BY <1>1, <2>1, MoveWordEffect DEF Engines
  <2>4. dma'["rx"].left > 0 => RxRow' = RxRow /\ RxCol' = RxCol + 1
    BY <2>1, <2>3, Typed, SameJob DEF RxRow, RxCol
  <2>5. Rx'
    BY <1>1, <2>1, <2>2, <2>3, <2>4, Typed, SameJob
  <2>6. Left("rx")'
    <3>1. Started("rx")'  BY <1>1, <2>1, <2>2 DEF Engines
    <3> QED  BY <2>3, <3>1
  <2> QED  BY <1>3, <2>1, <2>2, <2>3, <2>5, <2>6 DEF Engines
<1> QED
  BY <1>2, <1>4, <1>5, <1>6, <1>7, <1>8, <1>9, <1>10 DEF Next, Processor, Spin, Stopped

\* A chain ends at its stop descriptor and is counted once it has.
LEMMA EndStep ==
  ASSUME Regular, [Next]_vars, ~Lost'
  PROVE  EndInv'
<1> DEFINE
      End(e) == IF Started(e)
        THEN /\ dma[e].completed => ~desc[dma[e].next].own /\ ~dma[e].written
             /\ dma[e].busy \/ dma[e].written \/ dma[e].irq \/ done[e] # 0 => dma[e].next > First(e)
             /\ dma[e].written \/ dma[e].irq \/ done[e] # 0 => (e = "rx" => job.width > 0)
        ELSE ~dma[e].written
<1>1. TypeOK /\ DriverInv /\ (\A e \in Engines : End(e) /\ EngineInv(e) /\ dma[e] \in EngineState)
  BY Typed DEF Regular, TransferInv, DriverInv, EndInv, TypeOK
<1>2. SUFFICES \A e \in Engines : End(e)'
  BY DEF EndInv
<1>3. ASSUME NEW e \in Engines, dma'[e] = dma[e], done'[e] = done[e], UNCHANGED <<job, op>>,
             Started(e)' <=> Started(e), UNCHANGED desc \/ ~Started(e)
      PROVE  End(e)'
  BY <1>1, <1>3, SameJob DEF First
<1>4. CASE CallHW \/ CallHSCD
  <2>1. UNCHANGED dma /\ \A e \in Engines : ~Started(e)' /\ ~Started(e)
    BY <1>4 DEF CallHW, CallHSCD, EnterCall, Started, Engines
  <2> QED  BY <1>1, <2>1
<1>5. CASE InitHW \/ CheckHW \/ CheckSize \/ Wait \/ WriteRegisters \/ ConstructDescriptors
           \/ TakeWord \/ UNCHANGED vars
  <2>1. UNCHANGED <<job, op, dma, done>> /\ \A e \in Engines : UNCHANGED desc \/ ~Started(e)
    BY <1>5 DEF InitHW, CheckHW, CheckSize, Wait, WriteRegisters, ConstructDescriptors,
         TakeWord, vars, driver, Started, Engines
  <2>2. \A e \in Engines : Started(e)' <=> Started(e)
    BY <1>1, <1>5, StartedStep DEF CheckHW, CheckSize, InitHW, Wait, WriteRegisters,
         ConstructDescriptors, TakeWord, StartTx, StartRx, StopTx, StopRx, vars, Started, Engines, Return
  <2> QED  BY <1>1, <1>3, <2>1, <2>2
<1>6. CASE ResetFlags
  <2>1. UNCHANGED dma /\ \A e \in Engines : ~Started(e)' /\ ~Started(e)
    BY <1>6 DEF ResetFlags, Started, Engines
  <2> QED  BY <1>1, <2>1
<1>7. CASE StartTx
  <2>1. Start("tx", 0, 4, "startrx") /\ ~Busy("tx") /\ ~dma["tx"].busy /\ ~dma["tx"].irq
        /\ done["tx"] = 0 /\ pc = "starttx"
    BY <1>1, <1>7, StartsAtRest DEF StartTx
  <2>2. /\ ~dma'["tx"].completed /\ dma'["tx"].written = dma["tx"].written
        /\ dma'["tx"].irq = dma["tx"].irq /\ dma'["tx"].busy = dma["tx"].busy
        /\ dma'["rx"] = dma["rx"] /\ pc' = "startrx" /\ UNCHANGED done
    BY <1>1, <2>1, StartEffect DEF Engines
  <2>3. ~dma["tx"].written  BY <1>1, <2>1 DEF Started, Engines
  <2>4. End("tx")'  BY <2>1, <2>2, <2>3
  <2>5. UNCHANGED <<job, op, desc>>  BY <1>7, StartStopFrame
  <2>6. End("rx")'  BY <1>3, <2>1, <2>2, <2>5 DEF Started, Engines
  <2> QED  BY <2>4, <2>6 DEF Engines
<1>8. CASE StartRx
  <2>1. Start("rx", RxFirst, 5, "wait") /\ ~Busy("rx") /\ ~dma["rx"].busy /\ ~dma["rx"].irq
        /\ done["rx"] = 0 /\ pc = "startrx"
    BY <1>1, <1>8, StartsAtRest DEF StartRx
  <2>2. /\ ~dma'["rx"].completed /\ dma'["rx"].written = dma["rx"].written
        /\ dma'["rx"].irq = dma["rx"].irq /\ dma'["rx"].busy = dma["rx"].busy
        /\ dma'["tx"] = dma["tx"] /\ pc' = "wait" /\ UNCHANGED done
    BY <1>1, <2>1, StartEffect DEF Engines
  <2>3. ~dma["rx"].written  BY <1>1, <2>1 DEF Started, Engines
  <2>4. End("rx")'  BY <2>1, <2>2, <2>3
  <2>5. UNCHANGED <<job, op, desc>>  BY <1>8, StartStopFrame
  <2>6. End("tx")'  BY <1>3, <2>1, <2>2, <2>5 DEF Started, Engines
  <2> QED  BY <2>4, <2>6 DEF Engines
<1>9. CASE StopTx \/ StopRx
  <2>1. PICK e \in Engines : /\ Stop(e) /\ Started(e) /\ ~Started(e)' /\ done[e] # 0
                             /\ \A f \in Engines \ {e} : Started(f)' <=> Started(f)
    BY <1>1, <1>9 DEF StopTx, StopRx, Started, Engines, DriverInv, FlagsInv
  <2>2. UNCHANGED <<job, op, desc>>  BY <1>9, StartStopFrame
  <2>3. /\ dma'[e].written = dma[e].written /\ UNCHANGED done
        /\ \A f \in Engines \ {e} : dma'[f] = dma[f]
    BY <1>1, <2>1, StopEffect
  <2>4. ~dma[e].written  BY <1>1, <2>1 DEF EngineInv
  <2>5. \A f \in Engines \ {e} : End(f)'
    BY <1>3, <2>1, <2>2, <2>3
  <2> QED  BY <2>1, <2>3, <2>4, <2>5
<1>10. ASSUME NEW e \in Engines, Engine(e) PROVE \A f \in Engines : End(f)'
  <2>1. UNCHANGED <<pc, job, op, desc>> /\ \A f \in Engines : Started(f)' <=> Started(f)
    BY <1>10, EngineFrame DEF Started
  <2>2. First(e)' = First(e)  BY <2>1, SameJob DEF First
  <2>3. ASSUME \A f \in Engines \ {e} : dma'[f] = dma[f] /\ done'[f] = done[f], End(e)'
        PROVE  \A f \in Engines : End(f)'
    BY <1>3, <2>1, <2>3
  <2>4. CASE Interrupt(e)
    <3>1. /\ dma'[e] = [dma[e] EXCEPT !.irq = FALSE] /\ \A f \in Engines \ {e} : dma'[f] = dma[f]
          /\ dma[e].irq /\ done' = [done EXCEPT ![e] = @ + 1]
      BY <1>1, <2>4, InterruptEffect
    <3>2. /\ dma'[e].next = dma[e].next /\ dma'[e].completed = dma[e].completed
          /\ dma'[e].written = dma[e].written
      BY <1>1, <3>1 DEF EngineState
    <3>3. Started(e)  BY <1>1, <3>1 DEF EngineInv
    <3>4. \A f \in Engines \ {e} : done'[f] = done[f]  BY <1>1, <3>1 DEF TypeOK
    <3>5. End(e)'  BY <1>1, <2>1, <2>2, <3>1, <3>2, <3>3
    <3> QED  BY <2>3, <3>1, <3>4, <3>5
  <2>5. CASE Fetch(e)
    <3>1. /\ dma'[e].busy /\ ~dma'[e].completed /\ dma'[e].written = dma[e].written
          /\ dma'[e].irq = dma[e].irq /\ dma'[e].next = dma[e].next + 1
          /\ \A f \in Engines \ {e} : dma'[f] = dma[f]
          /\ done' = done
      BY <1>1, <2>5, FetchEffect DEF Ready
    <3>2. Started(e) /\ dma[e].next >= First(e) /\ First(e) \in Nat /\ dma[e].next \in Nat
      BY <2>5, Typed, FetchedTx, FetchedRx DEF Engines, First
    <3>3. End(e)'  BY <1>1, <2>1, <2>2, <3>1, <3>2
    <3> QED  BY <2>3, <3>1, <3>3
  <2>6. CASE EndChain(e)
    <3>1. /\ dma'[e].busy = dma[e].busy /\ dma'[e].completed /\ ~dma'[e].written
          /\ (dma'[e].irq <=> dma[e].irq \/ dma[e].written) /\ dma'[e].next = dma[e].next
          /\ \A f \in Engines \ {e} : dma'[f] = dma[f]
          /\ dma[e].run /\ ~desc[dma[e].next].own /\ done' = done
      BY <1>1, <2>6, EndChainEffect DEF Ready
    <3>2. Started(e)  BY <1>1, <3>1 DEF EngineInv
    <3>3. End(e)'  BY <1>1, <2>1, <2>2, <3>1, <3>2
    <3> QED  BY <2>3, <3>1, <3>3
  <2>7. CASE Retire(e)
    <3>1. /\ ~dma'[e].busy /\ dma'[e].completed = dma[e].completed /\ dma'[e].next = dma[e].next
          /\ \A f \in Engines \ {e} : dma'[f] = dma[f]
          /\ dma[e].busy /\ (e = "rx" => desc[dma[e].next - 1].len > 0) /\ done' = done
      BY <1>1, <2>7, RetireEffect
    <3>2. Started(e) /\ ~dma[e].completed /\ dma[e].next > First(e)
      BY <1>1, <3>1 DEF EngineInv
    <3>3. e = "rx" => job.width > 0
      <4> SUFFICES ASSUME e = "rx" PROVE job.width > 0  OBVIOUS
      <4> DEFINE d == dma["rx"].next - 1 - RxFirst
      <4>1. Constructed  BY <3>2 DEF Started, Constructed
      <4>2. dma["rx"].next \in RxFirst .. RxFirst + RxLines /\ dma["rx"].next > RxFirst
        BY <1>1, <3>2 DEF Regular, DriverInv, ChainInv, First
      <4>3. d \in 0 .. RxLines - 1 /\ RxFirst + d = dma["rx"].next - 1
        BY <4>2, Typed
      <4> HIDE DEF d
      <4>4. desc[RxFirst + d] = Descriptor(TRUE, <<d, 0>>, destinationWidth)
        BY <4>1, <4>3 DEF Regular, TransferInv, DescriptorsInv
      <4>5. destinationWidth > 0  BY <3>1, <4>3, <4>4 DEF Descriptor
      <4> QED  BY <4>1, <4>5, InTransfer, SomeLines
    <3>4. End(e)'  BY <1>1, <2>1, <2>2, <3>1, <3>2, <3>3
    <3> QED  BY <2>3, <3>1, <3>4
  <2> QED  BY <1>10, <2>4, <2>5, <2>6, <2>7 DEF Engine
<1>11. ASSUME NEW e \in Engines, dma' = MoveWord(e), UNCHANGED <<pc, job, op, desc, done>>
       PROVE  \A f \in Engines : End(f)'
  <2>1. \A f \in Engines : Started(f)' <=> Started(f)
    BY <1>11 DEF Started
  <2>2. First(e)' = First(e)  BY <1>11, SameJob DEF First
  <2>3. /\ dma'[e].busy = dma[e].busy /\ dma'[e].completed = dma[e].completed
        /\ dma'[e].written = dma[e].written /\ dma'[e].irq = dma[e].irq
        /\ dma'[e].next = dma[e].next
        /\ \A f \in Engines \ {e} : dma'[f] = dma[f]
    BY <1>1, <1>11, MoveWordEffect
  <2>4. End(e)'  BY <1>1, <1>11, <2>1, <2>2, <2>3
  <2> QED  BY <1>3, <1>11, <2>1, <2>3, <2>4
<1>12. CASE ReadWord \/ GiveWord
  <2>1. (dma' = MoveWord("tx") \/ dma' = MoveWord("rx")) /\ UNCHANGED <<pc, job, op, desc, done>>
    BY <1>12, WordFrame DEF ReadWord, GiveWord
  <2> QED  BY <1>11, <2>1 DEF Engines
<1> QED
  BY <1>2, <1>4, <1>5, <1>6, <1>7, <1>8, <1>9, <1>10, <1>12 DEF Next, Processor, Spin, Stopped

-----------------------------------------------------------------------------
\* An engine that is in the middle of a line is so while the processor waits,
\* or starts the other engine.
LEMMA MovesInTransfer ==
  ASSUME Regular
  PROVE  /\ dma["tx"].left > 0 => Started("tx") /\ Running
         /\ dma["rx"].left > 0 => Started("rx") /\ Running /\ pc = "wait"
<1>1. ASSUME NEW e \in Engines, dma[e].left > 0
      PROVE  Started(e) /\ done[e] = 0
  <2>1. dma[e].busy  BY <1>1, Typed DEF Regular, TransferInv, PlacesInv
  <2>2. Started(e)  BY <2>1 DEF Regular, TransferInv, DriverInv, EngineInv
  <2>3. ~dma[e].completed  BY <2>1, <2>2 DEF Regular, TransferInv, DriverInv, EngineInv
  <2> QED  BY <2>2, <2>3 DEF Regular, TransferInv, DriverInv, EngineInv
<1>2. pc \in {"stoptx", "stoprx"} => done["tx"] # 0 /\ done["rx"] # 0
  BY DEF Regular, TransferInv, DriverInv, FlagsInv
<1> QED  BY <1>1, <1>2 DEF Engines, Started, Running

\* What the registers say of the frame while engines run.
LEMMA FrameInTransfer ==
  ASSUME Regular, Prepared \/ Running
  PROVE  /\ registers.width = job.width /\ registers.height = TxLines
         /\ frameWidth = destinationWidth /\ frameHeight = RxLines
         /\ RxLines = destinationHeight /\ frameAxis.x = xAxis
         /\ \A r \in 0 .. destinationHeight - 1 :
              /\ SrcOf(frameAxis.y, r) \in 0 .. TxLines - 1
              /\ TxLine(SrcOf(frameAxis.y, r)) = job.y + SrcOf(yAxis, r)
BY Typed, InTransfer, Forwards, FrameOfJob DEF Regular, TransferInv, RegistersInv

\* The count of the words that are read, and the bound on it.
LEMMA TxCounted ==
  ASSUME Regular, Started("tx")
  PROVE  /\ TxCount \in Nat /\ TxCount <= TxLines * job.width
         /\ TxLines * job.width \in Nat
         /\ job.width > 0 /\ TxCount = TxLines * job.width
              => dma["tx"].next = TxLines /\ dma["tx"].left = 0
<1> DEFINE n == dma["tx"].next
           l == dma["tx"].left
           w == job.width
<1>1. n \in Nat /\ l \in Nat /\ w \in Nat /\ TxLines \in Nat  BY Typed, InTransfer, Forwards
<1>2. n <= TxLines /\ (l > 0 => n \in 1 .. TxLines /\ l <= w)
  BY DEF Regular, TransferInv, DriverInv, ChainInv, PlacesInv
<1>3. TxCount = n * w - l  BY DEF TxCount
<1> HIDE DEF n, l, w
<1>4. n * w \in Nat /\ TxLines * w \in Nat /\ n * w <= TxLines * w
  BY <1>1, <1>2, Products
<1>5. l > 0 => l <= n * w
  BY <1>1, <1>2, Products
<1>6. n < TxLines /\ w > 0 => n * w < TxLines * w
  <2>1. n < TxLines => (n + 1) * w <= TxLines * w /\ (n + 1) * w = n * w + w
    BY <1>1, Products
  <2> QED  BY <1>1, <1>4, <2>1
<1>7. TxCount \in Nat /\ TxCount <= TxLines * w
  BY <1>1, <1>3, <1>4, <1>5
<1>8. w > 0 /\ TxCount = TxLines * w => n = TxLines /\ l = 0
  BY <1>1, <1>2, <1>3, <1>4, <1>6
<1> QED  BY <1>4, <1>7, <1>8 DEF n, l, w

\* The place of the receive engine, and its last one.
LEMMA RxPlaced ==
  ASSUME Regular, Started("rx")
  PROVE  /\ RxRow \in 0 .. RxLines /\ RxCol \in Nat
         /\ dma["rx"].left > 0 => RxRow < RxLines /\ RxCol < destinationWidth
         /\ RxRow = RxLines
              => dma["rx"].next = RxFirst + RxLines /\ dma["rx"].left = 0
         /\ dma["rx"].next = RxFirst + RxLines /\ dma["rx"].left = 0
              => RxRow = RxLines /\ RxCol = 0
<1>1. dma["rx"].next \in RxFirst .. RxFirst + RxLines
  BY DEF Regular, TransferInv, DriverInv, ChainInv
<1>2. dma["rx"].left > 0 => dma["rx"].next > RxFirst /\ dma["rx"].left <= destinationWidth
  BY DEF Regular, TransferInv, PlacesInv
<1>3. destinationWidth \in Nat
  BY InTransfer, Forwards
<1> QED  BY <1>1, <1>2, <1>3, Typed DEF RxRow, RxCol

\* The streams stay in step with engines that stay.
LEMMA SameStreams ==
  ASSUME UNCHANGED <<job, op, registers, tx, rx, sent, TxCount, RxRow, RxCol>>,
         Started("rx")' <=> Started("rx"), Streaming
  PROVE  Streaming'
<1>1. TxLines' = TxLines /\ RxLines' = RxLines /\ \A d : TxLine(d)' = TxLine(d)
  BY SameJob, SameLines
<1>2. Number(tx)' = Number(tx)  BY DEF Number
<1>3. SentInv'  BY <1>1 DEF Streaming, SentInv
<1> QED  BY <1>1, <1>2, <1>3 DEF Streaming

\* The end of the frame leaves the streams at rest.
LEMMA FrameEnds ==
  ASSUME TypeOK, NEW t, NEW r, Advance(t, r), t.row = registers.height, r.row = frameHeight,
         Number(t) = Len(sent)
  PROVE  Resting'
<1>1. sent \in Seq(Positions) /\ Len(sent) \in Nat  BY DEF TypeOK
<1>2. tx' = Origin /\ rx' = Origin /\ sent' = SubSeq(sent, Len(sent) + 1, Len(sent))
  BY DEF Advance
<1>3. SubSeq(sent, Len(sent) + 1, Len(sent)) = <<>>
  BY <1>1
<1> QED  BY <1>2, <1>3 DEF Resting, Origin

-----------------------------------------------------------------------------
\* A call is set up while the accelerator finishes the frame before.
LEMMA StreamOutside ==
  ASSUME Regular, ~Running, ~Running', UNCHANGED <<registers, tx, rx, sent>>, Prepared' => Prepared
  PROVE  StreamInv'
<1>1. Resting \/ (Draining /\ ~Prepared)  BY DEF Regular, TransferInv, StreamInv
<1>2. Resting => Resting'  BY DEF Resting
<1>3. Draining => Draining'  BY DEF Draining, frameHeight, frameAxis
<1> QED  BY <1>1, <1>2, <1>3 DEF StreamInv

\* The streams while an engine fetches, retires, ends its chain or interrupts.
LEMMA StreamEngine ==
  ASSUME Regular, NEW e \in Engines, Engine(e)
  PROVE  StreamInv'
<1>1. UNCHANGED <<pc, job, op, desc, registers, tx, rx, sent>>
  BY EngineFrame
<1>2. (Running' <=> Running) /\ (Prepared' <=> Prepared) /\ \A f \in Engines : Started(f)' <=> Started(f)
  BY <1>1 DEF Running, Prepared, Started
<1>3. CASE ~Running
  BY <1>1, <1>2, <1>3, StreamOutside
<1>4. CASE Running
  <2>1. Streaming \/ (Resting /\ (job.width = 0 \/ TxLines = 0 \/ EnginesAtEnd))
    BY <1>4 DEF Regular, TransferInv, StreamInv
  <2>2. TypeOK  BY Typed
  <2>3. ASSUME \A f \in Engines : dma'[f].next = dma[f].next /\ dma'[f].left = dma[f].left
        PROVE  StreamInv'
    <3>1. TxCount' = TxCount /\ RxRow' = RxRow /\ RxCol' = RxCol
      BY <1>1, <2>3, SameJob DEF TxCount, RxRow, RxCol, Engines
    <3>2. Streaming => Streaming'
      BY <1>1, <1>2, <3>1, SameStreams DEF Engines
    <3>3. EnginesAtEnd => EnginesAtEnd'
      BY <1>1, <1>2, <2>3, SameJob DEF EnginesAtEnd, Engines
    <3>4. Resting => Resting'
      BY <1>1 DEF Resting
    <3> QED  BY <1>1, <1>2, <1>4, <2>1, <3>2, <3>3, <3>4, SameJob DEF StreamInv
  <2>4. CASE Interrupt(e)
    <3>1. dma'[e] = [dma[e] EXCEPT !.irq = FALSE] /\ \A f \in Engines \ {e} : dma'[f] = dma[f]
      BY <2>2, <2>4, InterruptEffect
    <3>2. dma[e] \in EngineState  BY <2>2 DEF TypeOK
    <3>3. dma'[e].next = dma[e].next /\ dma'[e].left = dma[e].left
      BY <3>1, <3>2 DEF EngineState
    <3> QED  BY <2>3, <3>1, <3>3
  <2>5. CASE EndChain(e)
    BY <2>2, <2>3, <2>5, EndChainEffect
  <2>6. CASE Retire(e)
    BY <2>2, <2>3, <2>6, RetireEffect
  <2>7. CASE Fetch(e)
    <3>1. Ready(e) /\ \A f \in Engines \ {e} : dma'[f] = dma[f]
      BY <2>2, <2>7, FetchEffect
    <3>2. dma[e].left = 0  BY <3>1 DEF Ready, Regular, TransferInv, PlacesInv
    <3>3. ~EnginesAtEnd
      BY <2>7, Typed, FetchedTx, FetchedRx DEF EnginesAtEnd, Engines
    <3>4. CASE Resting /\ (job.width = 0 \/ TxLines = 0)
      BY <1>1, <1>2, <1>4, <3>4, SameJob DEF StreamInv, Resting
    <3>5. CASE Streaming
      <4>1. job.width > 0 /\ destinationWidth > 0
        BY <1>4, <3>5, InTransfer, SomeLines DEF Streaming
      <4>2. CASE e = "tx"
        <5>1. dma'["tx"].left = job.width /\ dma'["tx"].next = dma["tx"].next + 1 /\ dma["tx"].left = 0
              /\ dma'["rx"] = dma["rx"]
          BY <2>7, <3>1, <3>2, <4>2, FetchedTx DEF Engines
        <5>2. TxCount' = TxCount
          <6> DEFINE n == dma["tx"].next
                     w == job.width
          <6>1. TxCount = n * w - 0 /\ TxCount' = (n + 1) * w - w
            BY <1>1, <5>1 DEF TxCount
          <6>2. n \in Nat /\ w \in Nat  BY <1>4, Typed, InTransfer, Forwards
          <6> HIDE DEF n, w
          <6> QED  BY <6>1, <6>2
        <5>3. RxRow' = RxRow /\ RxCol' = RxCol
          BY <1>1, <5>1, SameJob DEF RxRow, RxCol
        <5> QED  BY <1>1, <1>2, <1>4, <3>5, <5>2, <5>3, SameStreams DEF StreamInv, Engines
      <4>3. CASE e = "rx"
        <5>1. dma'["rx"].left = destinationWidth /\ dma'["rx"].next = dma["rx"].next + 1
              /\ dma["rx"].left = 0 /\ dma'["tx"] = dma["tx"]
          BY <2>7, <3>1, <3>2, <4>3, FetchedRx DEF Engines
        <5>2. TxCount' = TxCount
          BY <1>1, <5>1 DEF TxCount
        <5>3. RxRow' = RxRow /\ RxCol' = RxCol
          BY <1>1, <4>1, <5>1, Typed, SameJob DEF RxRow, RxCol
        <5> QED  BY <1>1, <1>2, <1>4, <3>5, <5>2, <5>3, SameStreams DEF StreamInv, Engines
      <4> QED  BY <4>2, <4>3 DEF Engines
    <3> QED  BY <2>1, <3>3, <3>4, <3>5
  <2> QED  BY <2>4, <2>5, <2>6, <2>7 DEF Engine
<1> QED  BY <1>3, <1>4

\* The transmit engine sends the words of the lines in their order.
LEMMA StreamRead ==
  ASSUME Regular, ReadWord
  PROVE  Streaming' /\ Running /\ Running'
<1>1. /\ UNCHANGED <<pc, job, op, registers, tx, rx>> /\ dma' = MoveWord("tx") /\ dma["tx"].left > 0
      /\ sent' = Append(sent, dma["tx"].pos)
  BY WordFrame DEF ReadWord
<1>2. Started("tx") /\ Running /\ Running' /\ (Started("rx")' <=> Started("rx"))
  BY <1>1, MovesInTransfer DEF Running, Started
<1> DEFINE n == dma["tx"].next
           l == dma["tx"].left
           w == job.width
           p == dma["tx"].pos
<1>3. /\ n \in 1 .. TxLines /\ l <= w /\ l \in Nat /\ l > 0 /\ w \in Nat /\ TxLines \in Nat
      /\ p = <<TxLine(n - 1), job.x + w - l>> /\ p \in Positions /\ job.x \in Nat
  BY <1>1, <1>2, Typed DEF Regular, TransferInv, PlacesInv
<1>4. Streaming
  BY <1>1, <1>2, <1>3 DEF Regular, TransferInv, StreamInv, EnginesAtEnd
<1>5. dma'["tx"].next = n /\ dma'["tx"].left = l - 1 /\ dma'["rx"] = dma["rx"]
  BY <1>1, Typed, MoveWordEffect DEF Engines
<1>6. TxCount' = TxCount + 1 /\ TxCount \in Nat /\ TxCount = (n - 1) * w + (w - l)
  <2>1. TxCount = n * w - l /\ TxCount' = n * w - (l - 1)
    BY <1>1, <1>5 DEF TxCount
  <2>2. TxCount \in Nat  BY <1>2, TxCounted
  <2> HIDE DEF n, w, l
  <2>3. n * w \in Nat  BY <1>3, Products
  <2>4. (n - 1) * w = n * w - w  BY <1>3
  <2> QED  BY <1>3, <2>1, <2>2, <2>3, <2>4
<1>7. sent \in Seq(Positions) /\ Len(sent) = TxCount
  BY <1>4, Typed DEF TypeOK, Streaming
<1> HIDE DEF n, l, w, p
<1>8. Len(sent') = TxCount' /\ Len(sent') = Len(sent) + 1
  BY <1>1, <1>3, <1>6, <1>7 DEF p
<1>9. SentInv'
  <2>1. TxLines' = TxLines /\ \A d : TxLine(d)' = TxLine(d)  BY <1>1, SameJob, SameLines
  <2>2. SUFFICES ASSUME NEW r \in 0 .. TxLines - 1, NEW c \in 0 .. w - 1, r * w + c < Len(sent')
                 PROVE  sent'[r * w + c + 1] = <<TxLine(r), job.x + c>>
    BY <1>1, <2>1 DEF SentInv, w
  <2>3. r * w + c \in Nat  BY <1>3, Products
  <2>4. CASE r * w + c < Len(sent)
    <3>1. sent[r * w + c + 1] = <<TxLine(r), job.x + c>>
      BY <1>4, <2>4 DEF Streaming, SentInv, w
    <3>2. sent'[r * w + c + 1] = sent[r * w + c + 1]
      <4> DEFINE i == r * w + c + 1
      <4>1. i \in 1 .. Len(sent)  BY <1>6, <1>7, <2>3, <2>4
      <4> HIDE DEF i
      <4>2. sent'[i] = sent[i]  BY <1>1, <1>3, <1>7, <4>1 DEF p
      <4> QED  BY <4>2 DEF i
    <3> QED  BY <3>1, <3>2
  <2>5. CASE ~(r * w + c < Len(sent))
    <3>1. r * w + c = Len(sent)
      BY <1>6, <1>7, <1>8, <2>2, <2>3, <2>5
    <3>2. r * w + c = (n - 1) * w + (w - l)  BY <1>6, <1>7, <3>1
    <3>3. r = n - 1 /\ c = w - l
      <4>1. r \in Nat /\ n - 1 \in Nat /\ w - l \in 0 .. w - 1  BY <1>3
      <4> QED  BY <1>3, <3>2, <4>1, NumberUnique
    <3>4. sent'[Len(sent) + 1] = p
      BY <1>1, <1>3, <1>7 DEF p
    <3>5. job.x + w - l = job.x + c  BY <1>3, <3>3
    <3> QED  BY <1>3, <3>1, <3>3, <3>4, <3>5
  <2> QED  BY <2>4, <2>5
<1>10. Number(tx)' <= Len(sent')
  <2>1. Number(tx)' = Number(tx) /\ Number(tx) <= Len(sent)
    BY <1>1, <1>4 DEF Number, Streaming
  <2>2. Number(tx) \in Nat
    <3>1. tx.row \in Nat /\ tx.col \in Nat /\ registers.width \in Nat  BY Typed DEF TypeOK
    <3> QED  BY <3>1, Products DEF Number
  <2> QED  BY <1>6, <1>7, <1>8, <2>1, <2>2
<1>11. RxRow' = RxRow /\ RxCol' = RxCol /\ TxLines' = TxLines /\ RxLines' = RxLines
  BY <1>1, <1>5, SameJob DEF RxRow, RxCol
<1> QED
  BY <1>1, <1>2, <1>4, <1>8, <1>9, <1>10, <1>11 DEF Streaming

\* The accelerator takes a word of the frame, or one that it will drop.
LEMMA StreamTake ==
  ASSUME Regular, TakeWord
  PROVE  StreamInv'
<1> DEFINE w == registers.width
           t == NextPos(tx, registers.width)
<1>1. /\ UNCHANGED <<pc, job, op, registers, dma>> /\ tx.row < registers.height
      /\ Number(tx) < Len(sent) /\ Advance(t, rx)
  BY WordFrame DEF TakeWord
<1>2. (Running' <=> Running) /\ (Prepared' <=> Prepared) /\ (Started("rx")' <=> Started("rx"))
  BY <1>1 DEF Running, Prepared, Started
<1>3. TypeOK /\ w \in Nat /\ registers.height \in Nat /\ tx \in [row : Nat, col : Nat] /\ rx \in [row : Nat, col : Nat]
      /\ tx.row \in Nat /\ tx.col \in Nat /\ sent \in Seq(Positions) /\ Len(sent) \in Nat
  BY Typed DEF TypeOK
<1>4. ~Resting
  <2> SUFFICES ASSUME Resting PROVE FALSE  OBVIOUS
  <2>1. Number(tx) = 0 * w + 0 /\ Len(sent) = 0
    BY DEF Resting, Origin, Number
  <2> HIDE DEF w
  <2> QED  BY <1>1, <1>3, <2>1
<1>5. ASSUME tx.col < w
      PROVE  /\ t \in [row : Nat, col : Nat] /\ t.col < w /\ Number(t) = Number(tx) + 1
             /\ t.row <= registers.height /\ Number(t) <= Len(sent)
             /\ (t.row = registers.height => Number(t) = registers.height * w)
  <2>1. t \in [row : Nat, col : Nat] /\ t.col < w /\ t.row * w + t.col = tx.row * w + tx.col + 1
    BY <1>3, <1>5, NumberNext
  <2>2. Number(tx) \in Nat
    BY <1>3, Products DEF Number
  <2>3. Number(t) = Number(tx) + 1 /\ Number(t) = t.row * w + t.col
    BY <2>1 DEF Number
  <2>4. t.row <= registers.height /\ (t.row = registers.height => t.col = 0)
    BY <1>1, <1>3 DEF NextPos
  <2>5. t.row = registers.height => Number(t) = registers.height * w
    <3>1. registers.height * w \in Nat  BY <1>3, Products
    <3> HIDE DEF t
    <3> QED  BY <2>3, <2>4, <3>1
  <2> HIDE DEF t
  <2> QED  BY <1>1, <1>3, <2>1, <2>2, <2>3, <2>4, <2>5
<1>6. CASE ~Running
  <2>1. Draining /\ ~Prepared  BY <1>4, <1>6 DEF Regular, TransferInv, StreamInv
  <2>2. tx.col < w  BY <2>1 DEF Draining
  <2>3. CASE t.row = registers.height
    <3>1. Number(t) = Len(sent)
      <4>1. Number(t) = registers.height * w /\ Len(sent) = w * registers.height
        BY <1>5, <2>1, <2>2, <2>3 DEF Draining
      <4> HIDE DEF w, t
      <4> QED  BY <1>3, <4>1
    <3>2. rx.row = frameHeight  BY <2>1 DEF Draining
    <3> HIDE DEF t
    <3> QED  BY <1>1, <1>2, <1>3, <1>6, <2>3, <3>1, <3>2, FrameEnds DEF StreamInv
  <2>4. CASE t.row # registers.height
    <3>1. tx' = t /\ UNCHANGED <<rx, sent>>  BY <1>1, <2>4 DEF Advance
    <3>2. t.row < registers.height /\ t.col < registers.width
      BY <1>3, <1>5, <2>2, <2>4
    <3> HIDE DEF t
    <3> QED  BY <1>1, <1>2, <1>6, <2>1, <3>1, <3>2 DEF StreamInv, Draining, frameHeight,
                  frameAxis
  <2> QED  BY <2>3, <2>4
<1>7. CASE Running
  <2>1. Streaming  BY <1>4, <1>7 DEF Regular, TransferInv, StreamInv
  <2>2. /\ registers.width = job.width /\ registers.height = TxLines
        /\ frameHeight = RxLines
    BY <1>7, FrameInTransfer
  <2>3. Started("tx")  BY <1>7 DEF Running, Started
  <2>4. tx.col < w /\ job.width > 0 /\ TxLines > 0 /\ Len(sent) = TxCount
    BY <2>1, <2>2 DEF Streaming
  <2>5. CASE t.row = registers.height /\ rx.row = frameHeight
    <3>1. Number(t) = TxLines * job.width /\ Number(t) <= TxCount
      BY <1>5, <2>2, <2>4, <2>5
    <3>2. TxCount = TxLines * job.width /\ dma["tx"].next = TxLines /\ dma["tx"].left = 0
      BY <2>3, <2>4, <3>1, TxCounted
    <3>3. Started("rx") /\ RxRow = RxLines
      <4>1. RxLines > 0  BY <1>7, <2>4, InTransfer, SomeLines
      <4>2. rx.row = RxLines  BY <2>2, <2>5
      <4> QED  BY <2>1, <4>1, <4>2 DEF Streaming, Origin
    <3>4. EnginesAtEnd'
      BY <1>1, <1>2, <3>2, <3>3, RxPlaced, SameJob DEF EnginesAtEnd
    <3>5. Resting'
      <4>1. Number(t) = Len(sent)  BY <2>4, <3>1, <3>2
      <4> HIDE DEF t
      <4> QED  BY <1>1, <1>3, <2>5, <4>1, FrameEnds
    <3> QED  BY <1>2, <1>7, <3>4, <3>5 DEF StreamInv
  <2>6. CASE ~(t.row = registers.height /\ rx.row = frameHeight)
    <3>1. tx' = t /\ UNCHANGED <<rx, sent>>  BY <1>1, <2>6 DEF Advance
    <3>2. /\ TxLines' = TxLines /\ RxLines' = RxLines
          /\ RxRow' = RxRow /\ RxCol' = RxCol /\ TxCount' = TxCount
          /\ \A d : TxLine(d)' = TxLine(d)
      BY <1>1, SameJob, SamePlaces, SameLines
    <3>3. SentInv'  BY <1>1, <2>1, <3>1, <3>2 DEF Streaming, SentInv
    <3>4. Number(tx)' = Number(t)  BY <1>1, <3>1 DEF Number
    <3>5. t.row <= TxLines /\ t.col < job.width /\ Number(t) <= Len(sent)
      BY <1>5, <2>2, <2>4
    <3>6. ~(t.row = TxLines /\ rx.row = RxLines)
      BY <2>2, <2>6
    <3> HIDE DEF t
    <3>7. Streaming'
      BY <1>1, <1>2, <2>1, <3>1, <3>2, <3>3, <3>4, <3>5, <3>6 DEF Streaming
    <3> QED  BY <1>2, <1>7, <3>7 DEF StreamInv
  <2> QED  BY <2>5, <2>6
<1> QED  BY <1>6, <1>7

\* The accelerator gives the word that the receive engine stores next.
LEMMA GivenPlace ==
  ASSUME Regular, GiveWord
  PROVE  /\ pc = "wait" /\ Started("rx") /\ Running /\ Streaming
         /\ rx = [row |-> RxRow, col |-> RxCol]
         /\ RxRow \in 0 .. RxLines - 1 /\ RxCol \in 0 .. destinationWidth - 1
         /\ dma["rx"].pos = <<RxRow, RxCol>>
         /\ dma'["rx"].left = dma["rx"].left - 1 /\ dma'["rx"].next = dma["rx"].next
         /\ dma'["tx"] = dma["tx"]
         /\ NextPos(rx, destinationWidth) = [row |-> RxRow', col |-> RxCol']
<1>1. /\ UNCHANGED <<pc, job, op>> /\ dma' = MoveWord("rx") /\ dma["rx"].left > 0
  BY WordFrame, Gives DEF GiveWord
<1>2. pc = "wait" /\ Started("rx") /\ Running
  BY <1>1, MovesInTransfer
<1>3. RxRow \in 0 .. RxLines - 1 /\ RxCol \in 0 .. destinationWidth - 1
      /\ dma["rx"].pos = <<RxRow, RxCol>>
  BY <1>1, <1>2, Typed, InTransfer, Forwards, RxPlaced DEF Regular, TransferInv, PlacesInv
<1>4. Streaming
  <2>1. job.width # 0 /\ TxLines # 0
    BY <1>2, <1>3, InTransfer, Forwards, SomeLines, Typed
  <2> QED  BY <1>1, <1>2, <2>1 DEF Regular, TransferInv, StreamInv, EnginesAtEnd
<1>5. rx = [row |-> RxRow, col |-> RxCol]
  BY <1>2, <1>4 DEF Streaming
<1>6. dma'["rx"].left = dma["rx"].left - 1 /\ dma'["rx"].next = dma["rx"].next /\ dma'["tx"] = dma["tx"]
  BY <1>1, Typed, MoveWordEffect DEF Engines
<1>7. NextPos(rx, destinationWidth) = [row |-> RxRow', col |-> RxCol']
  <2>1. RxFirst' = RxFirst /\ destinationWidth' = destinationWidth  BY <1>1, SameJob
  <2>2. RxRow = dma["rx"].next - RxFirst - 1 /\ RxCol = destinationWidth - dma["rx"].left
    BY <1>1 DEF RxRow, RxCol
  <2>3. rx.row = RxRow /\ rx.col = RxCol  BY <1>5
  <2>4. CASE dma["rx"].left = 1
    <3>1. RxRow' = RxRow + 1 /\ RxCol' = 0
      BY <1>6, <2>1, <2>2, <2>4, Typed DEF RxRow, RxCol
    <3>2. ~(rx.col + 1 < destinationWidth)
      BY <2>2, <2>3, <2>4, Typed
    <3> QED  BY <2>3, <3>1, <3>2 DEF NextPos
  <2>5. CASE dma["rx"].left # 1
    <3>1. RxRow' = RxRow /\ RxCol' = RxCol + 1
      BY <1>1, <1>6, <2>1, <2>2, <2>5, Typed DEF RxRow, RxCol
    <3>2. rx.col + 1 < destinationWidth
      BY <1>1, <2>2, <2>3, <2>5, Typed
    <3> QED  BY <2>3, <3>1, <3>2 DEF NextPos
  <2> QED  BY <2>4, <2>5
<1> QED  BY <1>2, <1>3, <1>4, <1>5, <1>6, <1>7

\* The accelerator gives the word that is due.
LEMMA StreamGive ==
  ASSUME Regular, GiveWord
  PROVE  StreamInv'
<1> DEFINE r == NextPos(rx, frameWidth)
<1>1. /\ UNCHANGED <<pc, job, op, registers>> /\ Advance(tx, r)
  BY WordFrame DEF GiveWord
<1>2. /\ Running /\ Started("rx") /\ Streaming /\ dma'["tx"] = dma["tx"]
      /\ RxRow \in 0 .. RxLines - 1 /\ NextPos(rx, destinationWidth) = [row |-> RxRow', col |-> RxCol']
  BY GivenPlace
<1>3. Running' /\ Started("rx")' /\ Started("tx")
  BY <1>1, <1>2 DEF Running, Started
<1>4. /\ registers.width = job.width /\ registers.height = TxLines
      /\ frameWidth = destinationWidth /\ frameHeight = RxLines
  BY <1>2, FrameInTransfer
<1>5. r = [row |-> RxRow', col |-> RxCol']  BY <1>2, <1>4
<1>6. /\ TxLines' = TxLines /\ RxLines' = RxLines /\ RxFirst' = RxFirst
      /\ TxCount' = TxCount /\ \A d : TxLine(d)' = TxLine(d)
  BY <1>1, <1>2, SameJob, SameLines DEF TxCount
<1>7. TypeOK /\ tx.row \in Nat /\ tx.col \in Nat /\ Len(sent) = TxCount /\ Number(tx) <= TxCount
      /\ job.width > 0 /\ job.width \in Nat /\ TxLines \in Nat
  BY <1>2, Typed DEF Streaming, TypeOK
<1> HIDE DEF r
<1>8. CASE tx.row = registers.height /\ r.row = frameHeight
  <2>1. Number(tx) = TxLines * job.width + tx.col  BY <1>4, <1>8 DEF Number
  <2>2. TxCount \in Nat /\ TxCount <= TxLines * job.width /\ TxLines * job.width \in Nat
    BY <1>3, TxCounted
  <2>3. Number(tx) = TxCount /\ TxCount = TxLines * job.width
    BY <1>7, <2>1, <2>2
  <2>4. dma["tx"].next = TxLines /\ dma["tx"].left = 0
    BY <1>3, <1>7, <2>3, TxCounted
  <2>5. RxRow' = RxLines  BY <1>4, <1>5, <1>8
  <2>6. dma'["rx"].next = RxFirst + RxLines /\ dma'["rx"].left = 0
    <3>1. /\ dma["rx"].next \in RxFirst .. RxFirst + RxLines
          /\ dma'["rx"].next = dma["rx"].next /\ dma'["rx"].left = dma["rx"].left - 1
          /\ dma["rx"].left > 0
      BY <1>2, Gives, GivenPlace DEF Regular, TransferInv, DriverInv, ChainInv
    <3>2. RxRow' = dma'["rx"].next - RxFirst - (IF dma'["rx"].left > 0 THEN 1 ELSE 0)
      BY <1>6 DEF RxRow
    <3> QED  BY <2>5, <3>1, <3>2, Typed
  <2>7. EnginesAtEnd'
    BY <1>2, <1>3, <1>6, <2>4, <2>6 DEF EnginesAtEnd
  <2>8. Resting'
    BY <1>1, <1>7, <1>8, <2>3, FrameEnds
  <2> QED  BY <1>3, <2>7, <2>8 DEF StreamInv
<1>9. CASE ~(tx.row = registers.height /\ r.row = frameHeight)
  <2>1. rx' = r /\ UNCHANGED <<tx, sent>>  BY <1>1, <1>9 DEF Advance
  <2>2. SentInv'  BY <1>1, <1>2, <1>6, <2>1 DEF Streaming, SentInv
  <2>3. Number(tx)' = Number(tx)  BY <1>1, <2>1 DEF Number
  <2>4. ~(tx.row = TxLines /\ r.row = RxLines)  BY <1>4, <1>9
  <2>5. Streaming'
    BY <1>1, <1>2, <1>3, <1>5, <1>6, <2>1, <2>2, <2>3, <2>4 DEF Streaming
  <2> QED  BY <1>3, <2>5 DEF StreamInv
<1> QED  BY <1>8, <1>9

\* Two completions stand for two chains that are through (hw_impl.c:149-150).
LEMMA AllDoneAtEnd ==
  ASSUME Regular, Wait
  PROVE  EnginesAtEnd /\ job.width > 0 /\ TxLines > 0
<1>0. \A p, n : Descriptor(TRUE, p, n).own
  BY DEF Descriptor
<1>1. pc = "wait" /\ Started("tx") /\ Started("rx") /\ Constructed /\ done["tx"] # 0 /\ done["rx"] # 0
  BY DEF Wait, AllDone, Started, Constructed
<1>2. ASSUME NEW e \in Engines
      PROVE  /\ ~desc[dma[e].next].own /\ dma[e].left = 0 /\ dma[e].next > First(e)
             /\ e = "rx" => job.width > 0
  <2>1. Started(e) /\ done[e] # 0  BY <1>1 DEF Engines
  <2>2. dma[e].completed /\ ~dma[e].busy  BY <2>1 DEF Regular, TransferInv, DriverInv, EngineInv
  <2>3. ~desc[dma[e].next].own /\ dma[e].next > First(e) /\ (e = "rx" => job.width > 0)
    BY <2>1, <2>2 DEF Regular, TransferInv, EndInv
  <2>4. dma[e].left = 0  BY <2>2 DEF Regular, TransferInv, PlacesInv
  <2> QED  BY <2>3, <2>4
<1>3. dma["tx"].next = TxLines
  <2>1. dma["tx"].next <= TxLines  BY <1>1 DEF Regular, TransferInv, DriverInv, ChainInv
  <2>2. dma["tx"].next \in 0 .. TxLines - 1 => desc[dma["tx"].next].own
    BY <1>0, <1>1 DEF Regular, TransferInv, DescriptorsInv
  <2> QED  BY <1>2, <2>1, <2>2, Typed
<1>4. dma["rx"].next = RxFirst + RxLines
  <2> DEFINE d == dma["rx"].next - RxFirst
  <2>1. d \in 0 .. RxLines /\ RxFirst + d = dma["rx"].next
    BY <1>1, Typed DEF Regular, TransferInv, DriverInv, ChainInv
  <2> HIDE DEF d
  <2>2. d \in 0 .. RxLines - 1 => desc[RxFirst + d].own
    BY <1>0, <1>1 DEF Regular, TransferInv, DescriptorsInv
  <2> QED  BY <1>2, <2>1, <2>2, Typed
<1>5. TxLines > 0  BY <1>2, <1>3, Typed DEF First, Engines
<1> QED  BY <1>1, <1>2, <1>3, <1>4, <1>5, Typed DEF EnginesAtEnd

\* The streams of the accelerator and the chains of the engines go together.
LEMMA StreamStep ==
  ASSUME Regular, [Next]_vars, ~Lost'
  PROVE  StreamInv'
<1>0. TypeOK /\ DriverInv /\ TxLines \in Nat /\ (Transferring => job.width \in Nat)
  BY Typed, Forwards
<1>1. CASE CallHW \/ CallHSCD
  BY <1>1, StreamOutside DEF CallHW, CallHSCD, EnterCall, accelerator, Running, Prepared
<1>2. CASE InitHW \/ CheckHW \/ CheckSize
  BY <1>0, <1>2, StreamOutside DEF InitHW, CheckHW, CheckSize, Return, driver, accelerator,
       Running, Prepared, TypeOK
<1>3. CASE ConstructDescriptors \/ ResetFlags \/ StopTx \/ StopRx
  BY <1>3, StreamOutside DEF ConstructDescriptors, ResetFlags, StopTx, StopRx, Stop, driver,
       accelerator, Running, Prepared
<1>4. CASE WriteRegisters
  <2>1. sent = <<>> /\ ~Running /\ ~Running' /\ UNCHANGED <<tx, rx, sent>>
    BY <1>4 DEF WriteRegisters, Running
  <2>2. Resting
    <3>1. ASSUME Draining PROVE FALSE
      <4> DEFINE a == registers.width
                 b == registers.height
      <4>1. a \in Nat /\ b \in Nat /\ tx.row \in Nat /\ tx.col \in Nat  BY <1>0 DEF TypeOK
      <4>2. 0 = a * b /\ tx.row < b /\ tx.col < a  BY <2>1, <3>1 DEF Draining
      <4> HIDE DEF a, b
      <4> QED  BY <4>1, <4>2, Products
    <3> QED  BY <2>1, <3>1 DEF Regular, TransferInv, StreamInv
  <2> QED  BY <2>1, <2>2 DEF StreamInv, Resting
<1>5. CASE StartTx
  <2>1. Start("tx", 0, 4, "startrx") /\ ~Busy("tx") /\ ~dma["tx"].busy /\ pc = "starttx"
    BY <1>0, <1>5, StartsAtRest DEF StartTx
  <2>2. dma'["tx"].next = 0 /\ dma'["tx"].left = dma["tx"].left /\ pc' = "startrx"
    BY <1>0, <2>1, StartEffect DEF Engines
  <2>3. dma["tx"].left = 0  BY <2>1 DEF Regular, TransferInv, PlacesInv, Engines
  <2>4. UNCHANGED <<job, op, desc, registers, tx, rx, sent>>  BY <1>5, StartStopFrame
  <2>5. Resting  BY <2>1 DEF Regular, TransferInv, StreamInv, Running, Prepared
  <2>0. job.width \in Nat /\ TxLines \in Nat  BY <1>0, <2>1 DEF Transferring
  <2>6. CASE job.width > 0 /\ TxLines > 0
    <3>1. TxCount' = 0  BY <2>0, <2>2, <2>3, <2>4 DEF TxCount
    <3>2. tx' = Origin /\ rx' = Origin /\ Len(sent') = 0 /\ TxLines' = TxLines
      BY <2>4, <2>5, SameJob DEF Resting
    <3>3. Number(tx)' = 0
      <4> DEFINE a == registers.width
      <4>1. Number(tx)' = 0 * a + 0  BY <2>4, <3>2 DEF Number, Origin
      <4>2. a \in Nat  BY <1>0 DEF TypeOK
      <4> HIDE DEF a
      <4> QED  BY <4>1, <4>2
    <3>4. SentInv'
      <4>1. \A r, c \in Nat : ~(r * job.width + c < 0)
        <5>1. \A r \in Nat : r * job.width \in Nat  BY <2>0, Products
        <5> QED  BY <5>1
      <4> QED  BY <2>0, <2>4, <3>2, <4>1 DEF SentInv
    <3>5. ~Started("rx")'  BY <2>2 DEF Started
    <3>6. ~(tx.row = TxLines /\ rx.row = RxLines)'
      BY <2>6, <3>2 DEF Origin
    <3> QED  BY <1>0, <2>2, <2>4, <2>6, <3>1, <3>2, <3>3, <3>4, <3>5, <3>6
             DEF StreamInv, Streaming, Running, Origin
  <2>7. CASE ~(job.width > 0 /\ TxLines > 0)
    <3>1. Resting' /\ Running'  BY <2>2, <2>4, <2>5 DEF Resting, Running
    <3> QED  BY <2>0, <2>4, <2>7, <3>1, SameJob DEF StreamInv
  <2> QED  BY <2>6, <2>7
<1>6. CASE StartRx
  <2>1. Start("rx", RxFirst, 5, "wait") /\ ~Busy("rx") /\ ~dma["rx"].busy /\ pc = "startrx"
    BY <1>0, <1>6, StartsAtRest DEF StartRx
  <2>2. dma'["rx"].next = RxFirst /\ dma'["rx"].left = dma["rx"].left /\ pc' = "wait"
        /\ dma'["tx"] = dma["tx"]
    BY <1>0, <2>1, StartEffect DEF Engines
  <2>3. dma["rx"].left = 0  BY <2>1 DEF Regular, TransferInv, PlacesInv, Engines
  <2>4. UNCHANGED <<job, op, desc, registers, tx, rx, sent>>  BY <1>6, StartStopFrame
  <2>5. Running /\ Running' /\ ~Started("rx") /\ Started("rx")'
    BY <2>1, <2>2 DEF Running, Started
  <2>6. TxLines' = TxLines /\ RxLines' = RxLines /\ TxCount' = TxCount
        /\ \A d : TxLine(d)' = TxLine(d)
    BY <2>2, <2>4, SameJob, SameLines DEF TxCount
  <2>7. CASE Streaming
    <3>1. RxRow' = 0 /\ RxCol' = 0
      BY <2>2, <2>3, <2>4, SameJob, Typed DEF RxRow, RxCol
    <3>2. rx' = [row |-> RxRow', col |-> RxCol']
      BY <2>4, <2>5, <2>7, <3>1 DEF Streaming, Origin
    <3>3. SentInv'  BY <2>4, <2>6, <2>7 DEF Streaming, SentInv
    <3>4. Number(tx)' = Number(tx)  BY <2>4 DEF Number
    <3> QED  BY <2>4, <2>5, <2>6, <2>7, <3>2, <3>3, <3>4 DEF StreamInv, Streaming
  <2>8. CASE Resting /\ (job.width = 0 \/ TxLines = 0)
    BY <2>4, <2>5, <2>6, <2>8 DEF StreamInv, Resting
  <2> QED  BY <2>5, <2>7, <2>8 DEF Regular, TransferInv, StreamInv, EnginesAtEnd
<1>7. CASE Wait
  <2>1. UNCHANGED <<registers, tx, rx, sent>> /\ pc = "wait" /\ pc' = "stoptx"
    BY <1>7 DEF Wait, accelerator
  <2>2. EnginesAtEnd /\ job.width > 0 /\ TxLines > 0  BY <1>7, AllDoneAtEnd
  <2>3. Running /\ ~Running' /\ ~Prepared' /\ Started("tx") /\ Started("rx")
    BY <2>1 DEF Running, Prepared, Started
  <2>4. CASE Resting
    BY <2>1, <2>3, <2>4 DEF StreamInv, Resting
  <2>5. CASE Streaming
    <3>1. registers.width = job.width /\ registers.height = TxLines /\ frameHeight = RxLines
      BY <2>3, FrameInTransfer
    <3>2. RxRow = RxLines /\ RxCol = 0
      BY <2>2, <2>3, RxPlaced DEF EnginesAtEnd
    <3>3. rx = [row |-> frameHeight, col |-> 0]
      BY <2>3, <2>5, <3>1, <3>2 DEF Streaming
    <3>4. tx.row < registers.height /\ tx.col < registers.width
      <4>1. tx.row <= TxLines /\ tx.col < job.width /\ ~(tx.row = TxLines /\ rx.row = RxLines)
        BY <2>5 DEF Streaming
      <4>2. tx.row \in Nat /\ TxLines \in Nat  BY <1>0, Typed DEF TypeOK
      <4>3. rx.row = RxLines  BY <3>1, <3>3
      <4> QED  BY <3>1, <4>1, <4>2, <4>3
    <3>5. Len(sent) = registers.width * registers.height
      <4> DEFINE w == job.width
                 n == TxLines
      <4>1. Len(sent) = n * w - 0
        BY <2>2, <2>5 DEF Streaming, TxCount, EnginesAtEnd
      <4>2. w \in Nat /\ n \in Nat  BY <2>3, Typed, InTransfer, Forwards
      <4>3. registers.width = w /\ registers.height = n  BY <3>1
      <4> HIDE DEF w, n
      <4>4. n * w - 0 = w * n  BY <4>2
      <4> QED  BY <4>1, <4>3, <4>4
    <3>6. Draining  BY <3>3, <3>4, <3>5 DEF Draining
    <3>7. Draining'  BY <2>1, <3>6 DEF Draining, frameHeight, frameAxis
    <3> QED  BY <2>3, <3>7 DEF StreamInv
  <2> QED  BY <2>3, <2>4, <2>5 DEF Regular, TransferInv, StreamInv
<1>8. ASSUME NEW e \in Engines, Engine(e) PROVE StreamInv'
  BY <1>8, StreamEngine
<1>9. CASE ReadWord
  BY <1>9, StreamRead DEF StreamInv
<1>10. CASE TakeWord
  BY <1>10, StreamTake
<1>11. CASE GiveWord
  BY <1>11, StreamGive
<1>12. CASE UNCHANGED vars
  <2>1. UNCHANGED <<pc, job, op, registers, tx, rx, sent, dma>>
    BY <1>12 DEF vars, driver, accelerator
  <2>2. (Running' <=> Running) /\ (Prepared' <=> Prepared) /\ (Started("rx")' <=> Started("rx"))
    BY <2>1 DEF Running, Prepared, Started
  <2>3. Streaming => Streaming'  BY <2>1, <2>2, SamePlaces, SameStreams
  <2>4. Resting => Resting'  BY <2>1 DEF Resting
  <2>5. Draining => Draining'  BY <2>1 DEF Draining, frameHeight, frameAxis
  <2>6. EnginesAtEnd => EnginesAtEnd'  BY <2>1, <2>2, SameJob DEF EnginesAtEnd
  <2> QED  BY <2>1, <2>2, <2>3, <2>4, <2>5, <2>6, SameJob DEF Regular, TransferInv, StreamInv
<1> QED
  BY <1>1, <1>2, <1>3, <1>4, <1>5, <1>6, <1>7, <1>8, <1>9, <1>10, <1>11, <1>12
  DEF Next, Processor, Spin, Stopped

-----------------------------------------------------------------------------
\* The word that arrives is the pixel for the place where it is stored.
LEMMA GivenWord ==
  ASSUME Regular, GiveWord
  PROVE  sent[Number(DuePos) + 1] = Shown(dma["rx"].pos)
<1> DEFINE r == SrcOf(frameAxis.y, RxRow)
           c == SrcOf(xAxis, RxCol)
           w == job.width
<1>1. /\ Running /\ Streaming /\ rx = [row |-> RxRow, col |-> RxCol]
      /\ RxRow \in 0 .. destinationHeight - 1 /\ RxCol \in 0 .. destinationWidth - 1
      /\ dma["rx"].pos = <<RxRow, RxCol>>
      /\ w \in Nat /\ destinationWidth = DestLen(xAxis, w)
  <2>1. Transferring  BY GivenPlace DEF Transferring
  <2>2. RxLines = destinationHeight /\ Sized /\ job.width \in Nat  BY <2>1, Forwards
  <2> QED  BY <2>2, GivenPlace, Typed, SizedDimensions
<1>2. /\ registers.width = w /\ frameAxis.x = xAxis
      /\ r \in 0 .. TxLines - 1 /\ TxLine(r) = job.y + SrcOf(yAxis, RxRow)
  BY <1>1, FrameInTransfer
<1>3. c \in 0 .. w - 1
  BY <1>1, Typed, JobAxes, AxisBounds
<1>4. DuePos.row = r /\ DuePos.col = c
  BY <1>1, <1>2 DEF DuePos
<1> HIDE DEF r, c, w
<1>5. Number(DuePos) = r * w + c
  BY <1>2, <1>4 DEF Number
<1>6. r * w + c < Len(sent)
  <2>1. Precedes(DuePos, tx) /\ Number(tx) <= Len(sent) /\ tx \in [row : Nat, col : Nat]
        /\ sent \in Seq(Positions)
    BY <1>1, Typed DEF GiveWord, Streaming, TypeOK
  <2>2. Number(tx) = tx.row * w + tx.col  BY <1>2 DEF Number
  <2>3. r < tx.row \/ (r = tx.row /\ c < tx.col)  BY <1>4, <2>1 DEF Precedes
  <2>4. w \in Nat /\ r \in Nat /\ tx.row \in Nat /\ tx.col \in Nat /\ Len(sent) \in Nat /\ TxLines \in Nat
    BY <1>1, <1>2, <2>1, Typed
  <2>5. r * w + c < tx.row * w + tx.col
    <3>1. r * w \in Nat /\ tx.row * w \in Nat  BY <2>4, Products
    <3>2. CASE r < tx.row  BY <1>3, <2>4, <3>2, NumberGrows
    <3>3. CASE r = tx.row /\ c < tx.col  BY <1>3, <2>4, <3>1, <3>3
    <3> QED  BY <2>3, <3>2, <3>3
  <2>6. r * w \in Nat /\ tx.row * w \in Nat  BY <2>4, Products
  <2> QED  BY <1>3, <2>1, <2>2, <2>4, <2>5, <2>6
<1>7. sent[r * w + c + 1] = <<TxLine(r), job.x + c>>
  BY <1>1, <1>2, <1>3, <1>6 DEF Streaming, SentInv, w
<1> QED
  BY <1>1, <1>2, <1>5, <1>7 DEF Shown, c

\* What the destination buffer is to show depends on the job only.
LEMMA SameShown ==
  ASSUME UNCHANGED <<job, op>>
  PROVE  Buffer' = Buffer /\ \A p : Shown(p)' = Shown(p)
BY SameJob DEF Buffer, Shown, xAxis, yAxis

\* Calls start with a stale buffer and end with the image.
LEMMA DestinationStep ==
  ASSUME Regular, [Next]_vars, ~Lost'
  PROVE  DestinationInv'
<1> DEFINE
      Whole == destination = [p \in Buffer |-> destination[p]]
      Before(p) == p[1] < RxRow \/ (p[1] = RxRow /\ p[2] < RxCol)
      Fresh == \A p \in Buffer : destination[p] = Stale
      Stored == \A p \in Buffer : Before(p) => destination[p] = Shown(p)
      Early == {"size", "registers", "descriptors", "flags", "starttx", "startrx"}
<1>1. /\ TypeOK /\ DriverInv
      /\ pc = "size" \/ Transferring => Whole
      /\ pc \in Early => Fresh
      /\ pc = "wait" => Stored
      /\ pc \in {"stoptx", "stoprx"} => Scaled
      /\ pc = "check" /\ op # "init" /\ status = 0 => Scaled
      /\ pc = "wait" => RxLines = destinationHeight /\ destinationWidth \in Nat
  BY Typed, Forwards DEF Regular, TransferInv, DestinationInv, Transferring
<1>2. SUFFICES /\ pc' = "size" \/ Transferring' => Whole'
               /\ pc' \in Early => Fresh'
               /\ pc' = "wait" => Stored'
               /\ pc' \in {"stoptx", "stoprx"} => Scaled'
               /\ pc' = "check" /\ op' # "init" /\ status' = 0 => Scaled'
  BY DEF DestinationInv
<1>3. UNCHANGED <<job, op, destination>> =>
        (Whole => Whole') /\ (Fresh => Fresh') /\ (Scaled => Scaled')
  BY SameShown DEF Scaled
<1>4. CASE CallHW \/ CallHSCD
  <2>1. pc' = "size" /\ destination' = [p \in Buffer' |-> Stale]
    BY <1>4 DEF CallHW, CallHSCD, EnterCall
  <2>2. Whole' /\ Fresh'  BY <2>1 DEF Stale
  <2> HIDE DEF Whole, Fresh, Stored
  <2> QED  BY <2>1, <2>2 DEF Transferring
<1>5. CASE InitHW \/ CheckHW \/ CheckSize \/ WriteRegisters \/ ConstructDescriptors \/
ResetFlags \/ StartTx
  <2>1. UNCHANGED <<job, op, destination>>
    BY <1>5, StartStopFrame DEF InitHW, CheckHW, CheckSize, WriteRegisters,
         ConstructDescriptors, ResetFlags, driver
  <2>2. /\ pc' = "size" \/ Transferring' => pc = "size" \/ Transferring
        /\ pc' \in Early => pc \in Early
        /\ pc' \notin {"wait", "stoptx", "stoprx"}
        /\ ~(pc' = "check" /\ op' # "init" /\ status' = 0)
    <3>1. CASE InitHW  BY <3>1, <2>1 DEF InitHW, Transferring, Regular, TransferInv
    <3>2. CASE CheckHW  BY <3>2 DEF CheckHW, Return, Transferring
    <3>3. CASE CheckSize  BY <1>1, <3>3 DEF CheckSize, Transferring, TypeOK
    <3>4. CASE WriteRegisters  BY <3>4 DEF WriteRegisters, Transferring
    <3>5. CASE ConstructDescriptors  BY <3>5 DEF ConstructDescriptors, Transferring
    <3>6. CASE ResetFlags  BY <3>6 DEF ResetFlags, Transferring
    <3>7. CASE StartTx
      BY <1>1, <3>7, StartsAtRest DEF StartTx, Start, Transferring
    <3> QED  BY <1>5, <3>1, <3>2, <3>3, <3>4, <3>5, <3>6, <3>7
  <2> HIDE DEF Whole, Fresh, Stored, Early
  <2> QED  BY <1>1, <1>3, <2>1, <2>2
<1>6. CASE StartRx
  <2>1. Start("rx", RxFirst, 5, "wait") /\ ~Busy("rx") /\ ~dma["rx"].busy /\ pc = "startrx"
    BY <1>1, <1>6, StartsAtRest DEF StartRx
  <2>2. dma'["rx"].next = RxFirst /\ dma'["rx"].left = dma["rx"].left /\ pc' = "wait"
    BY <1>1, <2>1, StartEffect DEF Engines
  <2>3. dma["rx"].left = 0  BY <2>1 DEF Regular, TransferInv, PlacesInv, Engines
  <2>4. UNCHANGED <<job, op, destination>>  BY <1>6, StartStopFrame
  <2>5. RxRow' = 0 /\ RxCol' = 0
    BY <2>2, <2>3, <2>4, SameJob, Typed DEF RxRow, RxCol
  <2>6. \A p \in Buffer : ~Before(p)'
    BY <2>5, Typed DEF Buffer
  <2>7. Stored'  BY <2>4, <2>6, SameShown
  <2>8. Whole'  BY <1>1, <1>3, <2>1, <2>4 DEF Transferring
  <2> HIDE DEF Whole, Fresh, Stored
  <2> QED  BY <2>2, <2>7, <2>8
<1>7. CASE Wait
  <2>1. UNCHANGED <<job, op, destination>> /\ pc = "wait" /\ pc' = "stoptx"
    BY <1>7 DEF Wait, driver
  <2>2. RxRow = destinationHeight
    BY <1>1, <1>7, <2>1, AllDoneAtEnd, RxPlaced DEF EnginesAtEnd
  <2>3. \A p \in Buffer : Before(p)
    BY <2>2, Typed DEF Buffer
  <2>4. Whole /\ \A p \in Buffer : destination[p] = Shown(p)
    BY <1>1, <2>1, <2>3 DEF Transferring
  <2>5. Scaled  BY <2>4 DEF Scaled
  <2>6. Whole' /\ Scaled'  BY <1>3, <2>1, <2>4, <2>5
  <2> HIDE DEF Whole, Fresh, Stored
  <2> QED  BY <2>1, <2>6
<1>8. CASE StopTx \/ StopRx
  <2>1. UNCHANGED <<job, op, destination>>  BY <1>8, StartStopFrame
  <2>2. pc \in {"stoptx", "stoprx"} /\ pc' \in {"stoprx", "check"}
    BY <1>8 DEF StopTx, StopRx
  <2>3. Whole' /\ Scaled'  BY <1>1, <1>3, <2>1, <2>2 DEF Transferring
  <2> HIDE DEF Whole, Fresh, Stored
  <2> QED  BY <2>2, <2>3
<1>9. ASSUME UNCHANGED <<pc, job, op, status, destination>>,
             Buffer # {} /\ pc = "wait" => RxRow' = RxRow /\ RxCol' = RxCol
      PROVE  DestinationInv'
  <2>1. Buffer' = Buffer /\ \A p : Shown(p)' = Shown(p)  BY <1>9, SameShown
  <2>2. pc = "wait" /\ Stored => Stored'
    <3> SUFFICES ASSUME pc = "wait", Stored, NEW p \in Buffer, Before(p)'
                 PROVE  destination'[p] = Shown(p)'
      BY <2>1
    <3>1. RxRow' = RxRow /\ RxCol' = RxCol  BY <1>9
    <3> QED  BY <1>9, <2>1, <3>1
  <2> HIDE DEF Whole, Fresh, Stored
  <2>3. (Transferring' <=> Transferring) BY <1>9 DEF Transferring
  <2>4. /\ pc' = "size" \/ Transferring' => Whole'
        /\ pc' \in Early => Fresh'
        /\ pc' = "wait" => Stored'
        /\ pc' \in {"stoptx", "stoprx"} => Scaled'
        /\ pc' = "check" /\ op' # "init" /\ status' = 0 => Scaled'
    BY <1>1, <1>3, <1>9, <2>2, <2>3
  <2> QED  BY <2>4 DEF DestinationInv, Whole, Fresh, Stored
<1>10. ASSUME NEW e \in Engines, Engine(e) PROVE DestinationInv'
  <2>1. UNCHANGED <<pc, job, op, status, destination>>  BY <1>10, EngineFrame
  <2>2. Buffer # {} /\ pc = "wait" => RxRow' = RxRow /\ RxCol' = RxCol
    <3> SUFFICES ASSUME Buffer # {}, pc = "wait" PROVE RxRow' = RxRow /\ RxCol' = RxCol  OBVIOUS
    <3>1. destinationWidth > 0  BY Typed DEF Buffer
    <3>2. CASE dma'["rx"].next = dma["rx"].next /\ dma'["rx"].left = dma["rx"].left
      BY <2>1, <3>2, SameJob DEF RxRow, RxCol
    <3>3. CASE Fetch("rx")
      <4>1. dma'["rx"].left = destinationWidth /\ dma'["rx"].next = dma["rx"].next + 1 /\ dma["rx"].left = 0
        BY <1>1, <3>3, FetchedRx, FetchEffect DEF Engines, Ready, Regular, TransferInv, PlacesInv
      <4> QED  BY <2>1, <3>1, <4>1, Typed, SameJob DEF RxRow, RxCol
    <3>4. CASE ~Fetch("rx")
      <4>1. dma'["rx"].next = dma["rx"].next /\ dma'["rx"].left = dma["rx"].left
        <5>1. "rx" \in Engines /\ dma["rx"] \in EngineState  BY <1>1 DEF TypeOK, Engines
        <5>2. CASE e # "rx"
          BY <1>1, <1>10, <5>1, <5>2, InterruptEffect, FetchEffect, EndChainEffect, RetireEffect
               DEF Engine
        <5>3. CASE e = "rx" /\ Interrupt("rx")
          <6>1. dma'["rx"] = [dma["rx"] EXCEPT !.irq = FALSE]
            BY <1>1, <5>1, <5>3, InterruptEffect
          <6> QED  BY <5>1, <6>1 DEF EngineState
        <5>4. CASE e = "rx" /\ (EndChain("rx") \/ Retire("rx"))
          BY <1>1, <5>1, <5>4, EndChainEffect, RetireEffect
        <5> QED  BY <1>10, <3>4, <5>2, <5>3, <5>4 DEF Engine
      <4> QED  BY <3>2, <4>1
    <3> QED  BY <3>3, <3>4
  <2> QED  BY <1>9, <2>1, <2>2
<1>11. CASE ReadWord \/ TakeWord \/ UNCHANGED vars
  <2>1. UNCHANGED <<pc, job, op, status, destination>>
    BY <1>11, WordFrame DEF ReadWord, TakeWord, vars, driver
  <2>2. dma'["rx"] = dma["rx"]
    BY <1>1, <1>11, MoveWordEffect DEF ReadWord, TakeWord, vars, Engines
  <2>3. RxRow' = RxRow /\ RxCol' = RxCol  BY <2>1, <2>2, SameJob DEF RxRow, RxCol
  <2>4. DestinationInv'  BY <1>9, <2>1, <2>3
  <2> QED  BY <2>4 DEF DestinationInv
<1>12. CASE GiveWord
  <2> DEFINE q == dma["rx"].pos
             v == sent[Number(DuePos) + 1]
  <2>1. UNCHANGED <<pc, job, op, status>>
        /\ destination' = [p \in DOMAIN destination |-> IF p = q THEN v ELSE destination[p]]
    BY <1>12, WordFrame DEF GiveWord
  <2>2. /\ pc = "wait" /\ q = <<RxRow, RxCol>>
        /\ RxRow \in 0 .. destinationHeight - 1 /\ RxCol \in 0 .. destinationWidth - 1
        /\ NextPos(rx, destinationWidth) = [row |-> RxRow', col |-> RxCol']
        /\ rx = [row |-> RxRow, col |-> RxCol]
    BY <1>1, <1>12, GivenPlace
  <2>3. v = Shown(q)  BY <1>12, GivenWord
  <2>4. Whole /\ Stored /\ DOMAIN destination = Buffer
    BY <1>1, <2>2 DEF Transferring
  <2> HIDE DEF q, v
  <2>5. Buffer' = Buffer /\ \A p : Shown(p)' = Shown(p)  BY <2>1, SameShown
  <2>6. Whole'  BY <2>1, <2>4, <2>5
  <2>7. ASSUME NEW p \in Buffer, Before(p)' PROVE p = q \/ Before(p)
    <3>1. p = <<p[1], p[2]>> /\ p[1] \in 0 .. destinationHeight - 1 /\ p[2] \in 0 .. destinationWidth - 1
      BY DEF Buffer
    <3>2. p[1] < RxRow' \/ (p[1] = RxRow' /\ p[2] < RxCol')  BY <2>7
    <3>3. \/ RxRow' = RxRow /\ RxCol' = RxCol + 1
          \/ RxRow' = RxRow + 1 /\ RxCol' = 0 /\ RxCol + 1 = destinationWidth
      BY <2>2, Typed DEF NextPos
    <3>4. p[1] < RxRow \/ (p[1] = RxRow /\ p[2] < RxCol) \/ (p[1] = RxRow /\ p[2] = RxCol)
      BY <2>2, <3>1, <3>2, <3>3, Typed
    <3> QED  BY <2>2, <3>1, <3>4
  <2>8. Stored'
    <3> SUFFICES ASSUME NEW p \in Buffer, Before(p)' PROVE destination'[p] = Shown(p)
      BY <2>5
    <3> HIDE DEF Before
    <3> QED  BY <2>1, <2>3, <2>4, <2>7
  <2> HIDE DEF Whole, Fresh, Stored
  <2> QED  BY <2>1, <2>2, <2>6, <2>8
<1> QED
  BY <1>2, <1>4, <1>5, <1>6, <1>7, <1>8, <1>10, <1>11, <1>12 DEF Next, Processor, Spin,
       Stopped, DestinationInv

-----------------------------------------------------------------------------
\* Before the first call the invariant of the data holds.
LEMMA InitDataInv ==  Init => DataInv
<1> SUFFICES ASSUME Init PROVE DataInv
  OBVIOUS
<1>1. DriverInv  BY InitInv
<1>2. pc = "init" /\ op = "init" /\ \A e \in Engines : dma[e] = Idle
  BY DEF Init
<1>3. \A e \in Engines : ~Started(e)  BY <1>2 DEF Started, Engines
<1>4. DescriptorsInv /\ RegistersInv
  BY <1>2 DEF DescriptorsInv, Constructed, RegistersInv, Prepared, Running
<1>5. PlacesInv /\ EndInv
  BY <1>2, <1>3 DEF PlacesInv, EndInv, Idle, Engines
<1>6. StreamInv
  BY <1>2 DEF StreamInv, Running, Resting, Init
<1>7. DestinationInv
  BY <1>2 DEF DestinationInv, Transferring
<1>8. ~Lost  BY <1>2 DEF Lost, Transferring
<1> QED  BY <1>1, <1>2, <1>4, <1>5, <1>6, <1>7, <1>8 DEF DataInv, TransferInv

\* Nothing moves after memory has been overwritten.
LEMMA UndefinedStays ==
  ASSUME pc = "undefined", [Next]_vars
  PROVE  UNCHANGED vars
<1>1. ~CallHW /\ ~Processor
  BY DEF CallHW, Processor, InitHW, CheckHW, CallHSCD, CheckSize, WriteRegisters,
         ConstructDescriptors, ResetFlags, StartTx, StartRx, Wait, StopTx, StopRx
<1>2. \A e \in Engines : ~Engine(e)
  BY DEF Engine, Interrupt, Fetch, EndChain, Retire, Ready
<1>3. ~ReadWord /\ ~TakeWord /\ ~GiveWord
  BY DEF ReadWord, TakeWord, GiveWord
<1> QED  BY <1>1, <1>2, <1>3 DEF Next, Spin, Stopped

\* What is left of the transfer then is that no engine is started any more.
LEMMA UndefinedStep ==
  ASSUME TransferInv, pc = "undefined", UNCHANGED vars
  PROVE  TransferInv'
<1>1. pc' = "undefined" /\ UNCHANGED <<dma, registers, tx, rx, sent>>
  BY DEF vars, accelerator
<1>2. /\ ~Constructed' /\ ~Prepared' /\ ~Running /\ ~Running'
      /\ \A e \in Engines : ~Started(e) /\ ~Started(e)'
      /\ "tx" \in Engines /\ "rx" \in Engines
  BY <1>1 DEF Constructed, Prepared, Running, Started, Engines
<1>3. DescriptorsInv' /\ RegistersInv'
  BY <1>1, <1>2 DEF DescriptorsInv, RegistersInv
<1>4. PlacesInv'
  BY <1>1, <1>2 DEF TransferInv, PlacesInv
<1>5. EndInv'
  BY <1>1, <1>2 DEF TransferInv, EndInv
<1>6. StreamInv'
  <2>1. Resting => Resting'  BY <1>1 DEF Resting
  <2>2. Draining => Draining'  BY <1>1 DEF Draining, frameHeight, frameAxis
  <2> QED  BY <1>2, <2>1, <2>2 DEF TransferInv, StreamInv
<1>7. DestinationInv'
  BY <1>1 DEF DestinationInv, Transferring
<1> QED  BY <1>1, <1>3, <1>4, <1>5, <1>6, <1>7 DEF TransferInv

\* A regular state stays so, but for the size check of a part that goes
\* backwards.
LEMMA RegularStep ==
  ASSUME Regular, [Next]_vars, ~Lost'
  PROVE  TransferInv'
<1>1. pc' = "init" => op' = "init"
  <2>0. pc = "init" => op = "init"  BY DEF Regular, TransferInv
  <2>1. CASE CallHW \/ CallHSCD
    BY <2>1 DEF CallHW, CallHSCD, EnterCall
  <2>2. CASE InitHW \/ CheckHW \/ CheckSize \/ WriteRegisters \/ ConstructDescriptors \/
  ResetFlags \/ Wait
    BY <2>0, <2>2 DEF InitHW, CheckHW, CheckSize, WriteRegisters, ConstructDescriptors,
         ResetFlags, Wait, Return
  <2>3. CASE StartTx \/ StartRx \/ StopTx \/ StopRx
    BY <2>3 DEF StartTx, StartRx, Start, StopTx, StopRx
  <2>4. CASE (\E e \in Engines : Engine(e)) \/ UNCHANGED vars
    BY <2>0, <2>4, EngineFrame
  <2>5. CASE ReadWord \/ TakeWord \/ GiveWord
    BY <2>0, <2>5, WordFrame
  <2> QED
    BY <2>1, <2>2, <2>3, <2>4, <2>5 DEF Next, Processor, Spin, Stopped
<1>2. DescriptorsInv' /\ RegistersInv'  BY DescriptorsStep, RegistersStep
<1>3. PlacesInv' /\ EndInv'  BY PlacesStep, EndStep
<1>4. StreamInv' /\ DestinationInv'  BY StreamStep, DestinationStep
<1> QED
  BY <1>1, <1>2, <1>3, <1>4 DEF TransferInv

\* A transfer begins with the size check.
LEMMA LostBegins ==
  ASSUME Regular, [Next]_vars, Lost'
  PROVE  CheckSize
<1>0. Transferring => Sized  BY DEF Regular, Lost
<1>1. ~(CallHW \/ CallHSCD \/ InitHW \/ CheckHW)
  BY DEF CallHW, CallHSCD, EnterCall, InitHW, CheckHW, Return, Lost, Transferring
<1>2. ~(WriteRegisters \/ ConstructDescriptors \/ ResetFlags \/ Wait)
  BY <1>0 DEF WriteRegisters, ConstructDescriptors, ResetFlags, Wait, driver, Lost, Transferring,
       Sized
<1>3. ~(StartTx \/ StartRx \/ StopTx \/ StopRx)
  <2> SUFFICES ASSUME StartTx \/ StartRx \/ StopTx \/ StopRx PROVE FALSE  OBVIOUS
  <2>1. job' = job  BY StartStopFrame
  <2>2. Transferring  BY DEF StartTx, StartRx, StopTx, StopRx, Transferring
  <2> QED  BY <1>0, <2>1, <2>2 DEF Lost, Sized
<1>4. ~((\E e \in Engines : Engine(e)) \/ UNCHANGED vars)
  BY <1>0, EngineFrame DEF Lost, Transferring, Sized
<1>5. ~(ReadWord \/ TakeWord \/ GiveWord)
  BY <1>0, WordFrame DEF Lost, Transferring, Sized
<1> QED
  BY <1>1, <1>2, <1>3, <1>4, <1>5 DEF Next, Processor, Spin, Stopped

\* There is no place in its destination, and no engine is started.
LEMMA LostEntered ==
  ASSUME Regular, CheckSize, Lost'
  PROVE  LostInv'
<1>1. /\ pc = "size" /\ UNCHANGED <<op, job, done, desc, dma, registers, tx, rx, sent, destination>>
      /\ pc' = "check" \/ (op = "HW" /\ pc' = "registers") \/ (op # "HW" /\ pc' = "descriptors")
  BY DEF CheckSize, accelerator
<1>2. DOMAIN destination = {}
  <2>1. ~Sized  BY <1>1 DEF Lost, Sized
  <2> QED  BY <1>1, <2>1, Typed, Backwards DEF Regular, TransferInv, DestinationInv
<1>3. /\ ~dma["rx"].written /\ ~dma["rx"].irq /\ ~dma["rx"].busy /\ dma["tx"].left = 0
  <2>1. ~Started("tx") /\ ~Started("rx")  BY <1>1 DEF Started
  <2> QED  BY <1>1, <2>1, Typed DEF Regular, TransferInv, EndInv, PlacesInv, DriverInv, EngineInv
<1>4. ~Constructed' /\ ~Prepared' /\ ~Running' /\ ~Running
      /\ pc' \notin {"starttx", "startrx", "wait", "stoptx", "stoprx"}
  BY <1>1 DEF Constructed, Prepared, Running
<1>5. Len(sent) <= registers.width * registers.height
  <2>1. Resting \/ Draining  BY <1>4 DEF Regular, TransferInv, StreamInv
  <2>2. registers.width \in Nat /\ registers.height \in Nat  BY Typed DEF TypeOK
  <2>3. registers.width * registers.height \in Nat  BY <2>2, Products
  <2> QED  BY <2>1, <2>3 DEF Resting, Draining
<1> QED  BY <1>1, <1>2, <1>3, <1>4, <1>5 DEF LostInv

\* What is known of a transfer that goes backwards.
LEMMA LostTyped ==
  ASSUME DriverInv, Lost, LostInv
  PROVE  /\ TypeOK /\ job \in Job /\ TxLines \in Nat /\ RxLines \in Nat
         /\ RxFirst = TxLines + 1
         /\ AsLength(job.width) \in Nat
         /\ job.width <= BufferSize /\ job.height <= BufferSize
         /\ \A e \in Engines : dma[e].next \in Nat /\ dma[e].left \in Nat
         /\ "tx" \in Engines /\ "rx" \in Engines
         /\ pc \in {"registers", "descriptors", "flags", "starttx", "startrx", "wait"}
         /\ pc # "undefined" /\ Transferring
         /\ Started("tx") => Running
         /\ Started("rx") => Running
         /\ Running => Started("tx")
<1>1. TypeOK /\ job \in Job /\ Transferring  BY DEF DriverInv, TypeOK, Lost
<1>2. pc \in {"registers", "descriptors", "flags", "starttx", "startrx", "wait"}
  BY <1>1 DEF LostInv, Transferring
<1>3. (Started("tx") => Running) /\ (Started("rx") => Running) /\ (Running => Started("tx"))
  BY <1>2 DEF Started, Running
<1>4. AsLength(job.width) \in Nat  BY <1>1, LengthType DEF Job
<1>5. \A e \in Engines : dma[e].next \in Nat /\ dma[e].left \in Nat
  <2>1. PoolSize \in Nat  BY DriverAssumption DEF PoolSize
  <2>2. \A e \in Engines : dma[e] \in EngineState  BY <1>1 DEF TypeOK
  <2> QED  BY <2>1, <2>2 DEF EngineState
<1> QED
  BY <1>1, <1>2, <1>3, <1>4, <1>5, Dimensions DEF DriverInv, JobInv, Engines

\* Neither the job nor its registers change before the call is back.
LEMMA LostFrame ==
  ASSUME DriverInv, Lost, LostInv, [Next]_vars
  PROVE  /\ UNCHANGED <<job, op, status, mallocPtr>>
         /\ ~CallHW /\ ~CallHSCD /\ ~InitHW /\ ~CheckHW /\ ~CheckSize /\ ~StopTx /\ ~StopRx /\ ~Wait
         /\ Lost' \/ (pc' = "undefined" /\ (GiveWord \/ ConstructDescriptors))
<1>1. pc \in {"registers", "descriptors", "flags", "starttx", "startrx", "wait"}
  BY LostTyped
<1>2. ~CallHW /\ ~CallHSCD /\ ~InitHW /\ ~CheckHW /\ ~CheckSize /\ ~StopTx /\ ~StopRx /\ ~Wait
  BY <1>1 DEF CallHW, CallHSCD, InitHW, CheckHW, CheckSize, StopTx, StopRx, Wait, AllDone, LostInv
<1>3. ~Sized  BY DEF Lost
<1>4. CASE WriteRegisters \/ ConstructDescriptors \/ ResetFlags
  <2>1. UNCHANGED <<job, op, status, mallocPtr>>
    BY <1>4 DEF WriteRegisters, ConstructDescriptors, ResetFlags, driver
  <2>2. Transferring' \/ (pc' = "undefined" /\ ConstructDescriptors)
    BY <1>4 DEF WriteRegisters, ConstructDescriptors, ResetFlags, Transferring
  <2> QED  BY <1>2, <1>3, <2>1, <2>2 DEF Lost, Sized
<1>5. CASE StartTx \/ StartRx
  <2>1. UNCHANGED <<job, op>>  BY <1>5, StartStopFrame
  <2>2. UNCHANGED <<status, mallocPtr>> /\ Transferring'
    BY <1>5, StartsAtRest DEF StartTx, StartRx, Start, Transferring
  <2> QED  BY <1>2, <1>3, <2>1, <2>2 DEF Lost, Sized
<1>6. CASE (\E e \in Engines : Engine(e)) \/ UNCHANGED vars
  <2>1. UNCHANGED <<pc, job, op, status, mallocPtr>>  BY <1>6, EngineFrame
  <2> QED  BY <1>2, <2>1 DEF Lost, Sized, Transferring
<1>7. CASE ReadWord \/ TakeWord \/ GiveWord
  <2>1. UNCHANGED <<job, op, status, mallocPtr>>  BY <1>7, WordFrame
  <2>2. pc' = pc \/ (GiveWord /\ pc' = "undefined")
    BY <1>7 DEF ReadWord, TakeWord, GiveWord
  <2> QED  BY <1>2, <2>1, <2>2 DEF Lost, Sized, Transferring
<1> QED
  BY <1>2, <1>4, <1>5, <1>6, <1>7 DEF Next, Processor, Spin, Stopped

\* The bound on the words that are sent, and what it needs.
LostTx ==
  /\ Prepared => sent = <<>>
  /\ Running => Len(sent) + dma["tx"].left <= dma["tx"].next * AsLength(job.width)
  /\ ~Running => dma["tx"].left = 0 /\ Len(sent) <= registers.width * registers.height

\* The rest: the receive engine is idle or waits in the middle of a line.
LostRx ==
  /\ pc \notin {"stoptx", "stoprx"}
  /\ DOMAIN destination = {}
  /\ ~dma["rx"].written /\ ~dma["rx"].irq
  /\ pc \in {"starttx", "startrx", "wait"} => done["rx"] = 0
  /\ dma["rx"].busy => dma["rx"].left > 0 \/ desc[dma["rx"].next - 1].len = 0
  /\ Constructed => \A d \in 0 .. TxLines - 1 : desc[d].len = AsLength(job.width)
  /\ Prepared \/ Running => registers \in RegisterValues

\* The processor sets such a transfer up like any other.
LEMMA LostProcessor ==
  ASSUME DriverInv, Lost, LostInv, [Next]_vars, Lost',
         WriteRegisters \/ ConstructDescriptors \/ ResetFlags \/ StartTx \/ StartRx
  PROVE  LostRx' /\ LostTx'
<1>0. TypeOK /\ UNCHANGED <<job, op>>  BY LostTyped, LostFrame
<1>1. /\ TxLines' = TxLines /\ RxFirst' = RxFirst /\ RegisterValues' = RegisterValues
      /\ AsLength(job.width)' = AsLength(job.width)
  BY <1>0, SameJob, SameRegisters
<1>2. LostRx /\ LostTx  BY DEF LostInv, LostRx, LostTx
<1>3. CASE WriteRegisters
  <2>1. /\ pc = "registers" /\ sent = <<>> /\ registers' \in RegisterValues
        /\ pc' = IF op = "HW" THEN "descriptors" ELSE "flags"
        /\ UNCHANGED <<done, desc, dma, sent, destination>>
    BY <1>3 DEF WriteRegisters
  <2>2. Constructed' => Constructed
    BY <1>0, <2>1 DEF Constructed, DriverInv, JobInv, Transferring, TypeOK
  <2>3. ~Running /\ ~Running'  BY <2>1 DEF Running
  <2>4. LostRx'
    BY <1>1, <1>2, <2>1, <2>2 DEF LostRx
  <2>5. registers'.width * registers'.height \in Nat
    <3>1. registers'.width \in Nat /\ registers'.height \in Nat
      BY <1>0, <2>1, LostTyped, RegistersType
    <3> QED  BY <3>1, Products
  <2>6. LostTx'
    BY <1>2, <2>1, <2>3, <2>5 DEF LostTx
  <2> QED  BY <2>4, <2>6
<1>4. CASE ConstructDescriptors
  <2>1. /\ pc = "descriptors" /\ UNCHANGED <<done, dma, registers, sent, destination>>
        /\ pc' = IF op = "HW" THEN "flags" ELSE "registers"
    BY <1>4 DEF ConstructDescriptors, accelerator, Lost, Transferring
  <2>2. \A e \in Engines : ~dma[e].busy
    BY <2>1 DEF DriverInv, EngineInv, Started, Engines
  <2>3. ASSUME NEW d \in 0 .. TxLines - 1
        PROVE  desc'[d].len = AsLength(job.width)
    <3>1. d \in DOMAIN desc /\ d < TxLines /\ d < RxFirst /\ ~(d \in RxFirst .. RxFirst + RxLines - 1)
          /\ d # RxFirst + RxLines
      <4>1. /\ TxLines \in 0 .. PoolSize - 1 /\ PoolSize \in Nat /\ RxFirst = TxLines + 1
            /\ TxLines \in Nat /\ RxLines \in Nat
        BY LostTyped, ChainsFit, DriverAssumption DEF PoolSize
      <4>2. DOMAIN desc = 0 .. PoolSize - 1  BY <1>0 DEF TypeOK
      <4> QED  BY <4>1, <4>2
    <3> DEFINE first == RxFirst
               lines == RxLines
               n == TxLines
    <3>2. desc' = [k \in DOMAIN desc |->
                     CASE k \in first .. first + lines - 1 ->
                            Descriptor(TRUE, <<k - first, 0>>, AsLength(destinationWidth))
                       [] k = first + lines -> [desc[k] EXCEPT !.own = FALSE]
                       [] k < first /\ k < n ->
                            Descriptor(TRUE, <<TxLine(k), job.x>>, AsLength(job.width))
                       [] k < first /\ k >= n -> [desc[k] EXCEPT !.own = FALSE]
                       [] OTHER -> desc[k]]
      BY <1>4 DEF ConstructDescriptors
    <3> DEFINE written == Descriptor(TRUE, <<TxLine(d), job.x>>, AsLength(job.width))
    <3>3. /\ d \in DOMAIN desc /\ d < n /\ d < first /\ ~(d \in first .. first + lines - 1)
          /\ d # first + lines /\ ~(d < first /\ d >= n)
      <4>1. ~(d >= TxLines)  BY LostTyped
      <4> QED  BY <3>1, <4>1
    <3> HIDE DEF first, lines, n
    <3>4. desc'[d] = written
      BY <3>2, <3>3
    <3> QED  BY <3>4 DEF Descriptor
  <2>4. ~Running /\ ~Running' /\ (Prepared' => Prepared)
    BY <1>0, <2>1 DEF Running, Prepared
  <2>5. LostRx'
    BY <1>1, <1>2, <2>1, <2>2, <2>3, <2>4 DEF LostRx, Engines
  <2>6. LostTx'
    BY <1>2, <2>1, <2>4 DEF LostTx
  <2> QED  BY <2>5, <2>6
<1>5. CASE ResetFlags
  <2>1. /\ pc = "flags" /\ pc' = "starttx" /\ done'["rx"] = 0
        /\ UNCHANGED <<desc, dma, registers, sent, destination>>
    BY <1>5 DEF ResetFlags, accelerator, Engines
  <2>2. ~Running /\ ~Running' /\ Prepared /\ Constructed
    BY <2>1 DEF Running, Prepared, Constructed
  <2>3. LostRx' /\ LostTx'
    BY <1>1, <1>2, <2>1, <2>2 DEF LostRx, LostTx
  <2> QED  BY <2>3
<1>6. CASE StartTx
  <2>1. Start("tx", 0, 4, "startrx") /\ ~Busy("tx") /\ pc = "starttx"
    BY <1>6, StartsAtRest DEF StartTx
  <2>2. dma'["tx"].next = 0 /\ dma'["tx"].left = dma["tx"].left /\ dma'["rx"] = dma["rx"]
        /\ pc' = "startrx" /\ done' = done
    BY <1>0, <2>1, StartEffect DEF Engines
  <2>3. UNCHANGED <<desc, registers, sent, destination>>  BY <1>6, StartStopFrame
  <2>4. Prepared /\ ~Running /\ ~Prepared' /\ Running' /\ Constructed
    BY <2>1, <2>2 DEF Prepared, Running, Constructed
  <2>5. LostRx'
    BY <1>1, <1>2, <2>1, <2>2, <2>3, <2>4 DEF LostRx
  <2>6. Len(sent) = 0 /\ dma["tx"].left = 0  BY <1>2, <2>4 DEF LostTx
  <2>7. LostTx'
    <3>1. 0 * AsLength(job.width) = 0  BY LostTyped
    <3> QED  BY <1>1, <2>2, <2>3, <2>4, <2>6, <3>1 DEF LostTx
  <2> QED  BY <2>5, <2>7
<1>7. CASE StartRx
  <2>1. Start("rx", RxFirst, 5, "wait") /\ ~Busy("rx") /\ ~dma["rx"].busy /\ pc = "startrx"
    BY <1>7, StartsAtRest DEF StartRx
  <2>2. /\ ~dma'["rx"].busy /\ dma'["rx"].written = dma["rx"].written
        /\ dma'["rx"].irq = dma["rx"].irq
        /\ dma'["tx"] = dma["tx"] /\ pc' = "wait" /\ done' = done
    BY <1>0, <2>1, StartEffect DEF Engines
  <2>3. UNCHANGED <<desc, registers, sent, destination>>  BY <1>7, StartStopFrame
  <2>4. ~Prepared' /\ Running /\ Running' /\ Constructed
    BY <2>1, <2>2 DEF Prepared, Running, Constructed
  <2>5. LostRx'
    BY <1>1, <1>2, <2>1, <2>2, <2>3, <2>4 DEF LostRx
  <2>6. LostTx'
    BY <1>1, <1>2, <2>2, <2>3, <2>4 DEF LostTx
  <2> QED  BY <2>5, <2>6
<1> QED  BY <1>3, <1>4, <1>5, <1>6, <1>7

\* The transmit engine goes through its lines, the receive engine stays where it
\* is or begins one.
LEMMA LostEngine ==
  ASSUME DriverInv, Lost, LostInv, [Next]_vars, NEW e \in Engines, Engine(e)
  PROVE  LostRx' /\ LostTx'
<1>0. /\ TypeOK /\ UNCHANGED <<pc, job, op, desc, registers, sent, destination>>
      /\ "tx" \in Engines /\ "rx" \in Engines
      /\ \A f \in Engines : dma[f].next \in Nat /\ dma[f].left \in Nat
      /\ TxLines \in Nat /\ AsLength(job.width) \in Nat
  BY LostTyped, EngineFrame
<1>1. /\ TxLines' = TxLines /\ RxFirst' = RxFirst /\ RegisterValues' = RegisterValues
      /\ AsLength(job.width)' = AsLength(job.width)
      /\ (Prepared' <=> Prepared) /\ (Running' <=> Running) /\ (Constructed' <=> Constructed)
  BY <1>0, SameJob, SameRegisters DEF Prepared, Running, Constructed
<1>2. LostRx /\ LostTx  BY DEF LostInv, LostRx, LostTx
<1>3. ASSUME ~dma'["rx"].written, ~dma'["rx"].irq, done'["rx"] = done["rx"],
             dma'["rx"].busy => dma'["rx"].left > 0 \/ desc[dma'["rx"].next - 1].len = 0
      PROVE  LostRx'
  BY <1>0, <1>1, <1>2, <1>3 DEF LostRx
<1>4. ASSUME dma'["tx"].next = dma["tx"].next, dma'["tx"].left = dma["tx"].left
      PROVE  LostTx'
  BY <1>0, <1>1, <1>2, <1>4 DEF LostTx
<1>5. ASSUME e = "tx" PROVE dma'["rx"] = dma["rx"]
  <2>1. "rx" \in Engines \ {e}  BY <1>0, <1>5
  <2> QED
    BY <1>0, <2>1, InterruptEffect, FetchEffect, EndChainEffect, RetireEffect DEF Engine
<1>6. ASSUME e = "rx" PROVE dma'["tx"] = dma["tx"]
  <2>1. "tx" \in Engines \ {e}  BY <1>0, <1>6
  <2> QED
    BY <1>0, <2>1, InterruptEffect, FetchEffect, EndChainEffect, RetireEffect DEF Engine
<1>7. CASE Interrupt(e)
  <2>1. dma'[e] = [dma[e] EXCEPT !.irq = FALSE] /\ dma[e].irq /\ done' = [done EXCEPT ![e] = @ + 1]
    BY <1>0, <1>7, InterruptEffect
  <2>2. e = "tx"  BY <1>2, <2>1 DEF LostRx, Engines
  <2>3. done'["rx"] = done["rx"]  BY <1>0, <2>1, <2>2 DEF TypeOK
  <2>4. dma'["tx"].next = dma["tx"].next /\ dma'["tx"].left = dma["tx"].left
    <3>1. dma["tx"] \in EngineState  BY <1>0 DEF TypeOK
    <3> QED  BY <2>1, <2>2, <3>1 DEF EngineState
  <2>5. LostTx'  BY <1>4, <2>4
  <2>6. LostRx'  BY <1>2, <1>3, <1>5, <2>2, <2>3 DEF LostRx
  <2> QED  BY <2>5, <2>6
<1>8. CASE Fetch(e)
  <2>1. /\ dma'[e].written = dma[e].written /\ dma'[e].irq = dma[e].irq
        /\ dma'[e].next = dma[e].next + 1 /\ dma'[e].left = desc[dma[e].next].len
        /\ Ready(e) /\ desc[dma[e].next].own /\ done' = done
    BY <1>0, <1>8, FetchEffect
  <2>2. Started(e)  BY <2>1 DEF Ready, DriverInv, EngineInv
  <2>3. Running /\ Constructed
    <3>1. Running  BY <2>2, LostTyped DEF Engines
    <3> QED  BY <3>1 DEF Running, Constructed
  <2>4. CASE e = "tx"
    <3>1. dma["tx"].next <= TxLines /\ ~desc[TxLines].own
      BY <2>2, <2>3, <2>4, LostTyped DEF DriverInv, ChainInv
    <3>2. dma["tx"].next \in 0 .. TxLines - 1  BY <1>0, <2>1, <2>4, <3>1
    <3>3. dma'["tx"].left = AsLength(job.width)  BY <1>2, <2>1, <2>3, <2>4, <3>2 DEF LostRx
    <3>4. Len(sent) + dma'["tx"].left <= dma'["tx"].next * AsLength(job.width)
      <4> DEFINE a == AsLength(job.width)
                 n == dma["tx"].next
                 l == dma["tx"].left
                 m == Len(sent)
      <4>1. m + l <= n * a  BY <1>2, <2>3 DEF LostTx
      <4>2. a \in Nat /\ n \in Nat /\ l \in Nat /\ m \in Nat  BY <1>0 DEF TypeOK
      <4>3. dma'["tx"].left = a /\ dma'["tx"].next = n + 1  BY <2>1, <2>4, <3>3
      <4> HIDE DEF a, n, l, m
      <4>4. n * a \in Nat /\ (n + 1) * a = n * a + a  BY <4>2, Products
      <4>5. m + a <= (n + 1) * a  BY <4>1, <4>2, <4>4
      <4> QED  BY <4>3, <4>5 DEF a, m
    <3>5. LostTx'  BY <1>0, <1>1, <2>3, <3>4 DEF LostTx, Running, Prepared
    <3>6. LostRx'  BY <1>2, <1>3, <1>5, <2>1, <2>4 DEF LostRx
    <3> QED  BY <3>5, <3>6
  <2>5. CASE e = "rx"
    <3>1. LostTx'  BY <1>4, <1>6, <2>5
    <3>2. dma["rx"].next \in 0 .. PoolSize - 1
      <4>1. dma["rx"].next <= RxFirst + RxLines  BY <2>2, <2>5, LostTyped DEF DriverInv, ChainInv
      <4>2. RxFirst + RxLines \in 0 .. PoolSize - 3 /\ PoolSize \in Nat
        BY LostTyped, ChainsFit, DriverAssumption DEF PoolSize
      <4> QED  BY <1>0, <4>1, <4>2, LostTyped
    <3>3. desc[dma["rx"].next].len \in Nat
      <4>1. desc[dma["rx"].next] \in [own : BOOLEAN, pos : Positions, len : Nat]
        BY <1>0, <3>2 DEF TypeOK
      <4> QED  BY <4>1
    <3>4. dma'["rx"].next - 1 = dma["rx"].next  BY <1>0, <2>1, <2>5
    <3>5. LostRx'  BY <1>2, <1>3, <2>1, <2>5, <3>3, <3>4 DEF LostRx
    <3> QED  BY <3>1, <3>5
  <2> QED  BY <2>4, <2>5 DEF Engines
<1>9. CASE EndChain(e)
  <2>1. /\ dma'[e].busy = dma[e].busy /\ ~dma'[e].written
        /\ (dma'[e].irq <=> dma[e].irq \/ dma[e].written)
        /\ dma'[e].next = dma[e].next /\ dma'[e].left = dma[e].left /\ done' = done
    BY <1>0, <1>9, EndChainEffect
  <2>2. LostTx'  BY <1>4, <1>6, <2>1 DEF Engines
  <2>3. LostRx'
    <3>1. CASE e = "tx"  BY <1>2, <1>3, <1>5, <2>1, <3>1 DEF LostRx
    <3>2. CASE e = "rx"  BY <1>2, <1>3, <2>1, <3>2 DEF LostRx
    <3> QED  BY <3>1, <3>2 DEF Engines
  <2> QED  BY <2>2, <2>3
<1>10. CASE Retire(e)
  <2>1. /\ dma'[e].next = dma[e].next /\ dma'[e].left = dma[e].left /\ done' = done
        /\ dma[e].busy /\ dma[e].left = 0 /\ (e = "rx" => desc[dma[e].next - 1].len > 0)
    BY <1>0, <1>10, RetireEffect
  <2>2. e = "tx"
    <3> SUFFICES ASSUME e = "rx" PROVE FALSE  BY DEF Engines
    <3>1. dma["rx"].left > 0 \/ desc[dma["rx"].next - 1].len = 0  BY <1>2, <2>1 DEF LostRx
    <3>2. desc[dma["rx"].next - 1].len > 0 /\ dma["rx"].left = 0  BY <2>1
    <3> DEFINE l == desc[dma["rx"].next - 1].len
    <3>3. l > 0 /\ l = 0  BY <3>1, <3>2
    <3> HIDE DEF l
    <3> QED  BY <3>3
  <2>3. LostTx'  BY <1>4, <2>1, <2>2
  <2>4. LostRx'  BY <1>2, <1>3, <1>5, <2>1, <2>2 DEF LostRx
  <2> QED  BY <2>3, <2>4
<1> QED  BY <1>7, <1>8, <1>9, <1>10 DEF Engine

\* Words go into the accelerator, and none comes out.
LEMMA LostWord ==
  ASSUME DriverInv, Lost, LostInv, [Next]_vars, Lost', ReadWord \/ TakeWord \/ GiveWord
  PROVE  LostRx' /\ LostTx'
<1>0. /\ TypeOK /\ UNCHANGED <<job, op, desc, registers, done>>
      /\ "tx" \in Engines /\ "rx" \in Engines
      /\ \A f \in Engines : dma[f].next \in Nat /\ dma[f].left \in Nat
  BY LostTyped, WordFrame
<1>1. LostRx /\ LostTx  BY DEF LostInv, LostRx, LostTx
<1>2. ~GiveWord
  <2> SUFFICES ASSUME GiveWord PROVE FALSE  OBVIOUS
  <2>1. pc' = "undefined"  BY <1>1 DEF GiveWord, LostRx
  <2> QED  BY <2>1 DEF Lost, Transferring
<1>3. pc' = pc /\ destination' = destination /\ (ReadWord \/ TakeWord)
  BY <1>2 DEF ReadWord, TakeWord
<1>4. /\ RegisterValues' = RegisterValues /\ TxLines' = TxLines
      /\ AsLength(job.width)' = AsLength(job.width)
      /\ (Prepared' <=> Prepared) /\ (Running' <=> Running) /\ (Constructed' <=> Constructed)
  BY <1>0, <1>3, SameJob, SameRegisters DEF Prepared, Running, Constructed
<1>5. dma'["rx"] = dma["rx"]
  BY <1>0, <1>3, MoveWordEffect DEF ReadWord, TakeWord, Engines
<1>6. LostRx'
  BY <1>0, <1>1, <1>3, <1>4, <1>5 DEF LostRx
<1>7. CASE ReadWord
  <2>1. /\ dma["tx"].busy /\ dma["tx"].left > 0 /\ dma' = MoveWord("tx")
        /\ sent' = Append(sent, dma["tx"].pos)
    BY <1>7 DEF ReadWord
  <2>2. dma'["tx"].next = dma["tx"].next /\ dma'["tx"].left = dma["tx"].left - 1
    BY <1>0, <2>1, MoveWordEffect
  <2>3. Running /\ ~Prepared
    <3>1. Started("tx")  BY <1>0, <2>1, LostTyped DEF DriverInv, EngineInv
    <3> QED  BY <3>1, LostTyped DEF Running, Prepared
  <2>4. Len(sent') = Len(sent) + 1 /\ Len(sent) \in Nat
    <3>1. sent \in Seq(Positions)  BY <1>0 DEF TypeOK
    <3> QED  BY <2>1, <3>1
  <2>5. Len(sent') + dma'["tx"].left = Len(sent) + dma["tx"].left
    BY <1>0, <2>2, <2>4
  <2>6. LostTx'  BY <1>1, <1>4, <2>2, <2>3, <2>5 DEF LostTx
  <2> QED  BY <1>6, <2>6
<1>8. CASE TakeWord
  <2> DEFINE t == NextPos(tx, registers.width)
  <2>1. dma' = dma /\ Advance(t, rx) /\ Number(tx) < Len(sent)
    BY <1>8 DEF TakeWord
  <2>2. /\ tx \in [row : Nat, col : Nat] /\ rx \in [row : Nat, col : Nat]
        /\ registers.width \in Nat /\ sent \in Seq(Positions) /\ Len(sent) \in Nat
    BY <1>0 DEF TypeOK
  <2>3. t \in [row : Nat, col : Nat]  BY <2>2 DEF NextPos
  <2> HIDE DEF t
  <2>4. Number(t) \in Nat /\ Number(tx) \in Nat
    <3>1. \A p \in [row : Nat, col : Nat] : p.row * registers.width \in Nat /\ p.col \in Nat
      BY <2>2, Products
    <3> QED  BY <2>2, <2>3, <3>1 DEF Number
  <2>5. Len(sent') <= Len(sent)
    <3>1. sent' = sent \/ sent' = SubSeq(sent, Number(t) + 1, Len(sent))
      BY <2>1 DEF Advance
    <3> DEFINE rest == SubSeq(sent, Number(t) + 1, Len(sent))
    <3>2. Len(rest) <= Len(sent)
      BY <2>2, <2>4
    <3>3. Len(sent) <= Len(sent)  BY <2>2
    <3> HIDE DEF rest
    <3>4. sent' = sent \/ sent' = rest  BY <3>1 DEF rest
    <3>5. CASE sent' = sent
      <4>1. Len(sent') = Len(sent)  BY <3>5
      <4> QED  BY <2>2, <4>1
    <3>6. CASE sent' = rest
      <4>1. Len(sent') = Len(rest)  BY <3>6
      <4> QED  BY <3>2, <4>1
    <3> QED  BY <3>4, <3>5, <3>6
  <2>6. ~Prepared
    <3> SUFFICES ASSUME sent = <<>> PROVE FALSE  BY <1>1 DEF LostTx
    <3> QED  BY <2>1, <2>4
  <2>7. Len(sent') \in Nat
    BY <2>1, <2>2, <2>4 DEF Advance
  <2>8. LostTx'
    <3> DEFINE b == dma["tx"].next * AsLength(job.width)
               c == registers.width * registers.height
               m == Len(sent)
               n == Len(sent')
    <3>1. b \in Nat /\ c \in Nat
      BY <1>0, LostTyped, Products DEF TypeOK
    <3>2. /\ Running => m + dma["tx"].left <= b
          /\ ~Running => dma["tx"].left = 0 /\ m <= c
      BY <1>1 DEF LostTx
    <3>3. n <= m /\ n \in Nat /\ m \in Nat /\ dma["tx"].left \in Nat
      BY <1>0, <2>2, <2>5, <2>7
    <3> HIDE DEF b, c, m, n
    <3>4. /\ Running => n + dma["tx"].left <= b
          /\ ~Running => dma["tx"].left = 0 /\ n <= c
      BY <3>1, <3>2, <3>3
    <3> QED  BY <1>0, <1>4, <2>1, <2>6, <3>4 DEF LostTx, b, c, n
  <2> QED  BY <1>6, <2>8
<1> QED  BY <1>3, <1>7, <1>8

\* Such a transfer never ends, unless by a write beyond its buffer, or into a
\* pool that was freed.
LEMMA LostStep ==
  ASSUME DriverInv, Lost, LostInv, [Next]_vars, Lost'
  PROVE  LostInv'
<1>1. LostRx' /\ LostTx'
  <2>1. CASE WriteRegisters \/ ConstructDescriptors \/ ResetFlags \/ StartTx \/ StartRx
    BY <2>1, LostProcessor
  <2>2. CASE \E e \in Engines : Engine(e)
    BY <2>2, LostEngine
  <2>3. CASE ReadWord \/ TakeWord \/ GiveWord
    BY <2>3, LostWord
  <2>4. CASE UNCHANGED vars
    <3>1. UNCHANGED <<pc, job, op, done, desc, dma, registers, sent, destination>>
      BY <2>4 DEF vars, driver, accelerator
    <3>2. /\ RegisterValues' = RegisterValues /\ TxLines' = TxLines
          /\ AsLength(job.width)' = AsLength(job.width)
          /\ (Prepared' <=> Prepared) /\ (Running' <=> Running) /\ (Constructed' <=> Constructed)
      BY <3>1, SameJob, SameRegisters DEF Prepared, Running, Constructed
    <3>3. LostRx /\ LostTx  BY DEF LostInv, LostRx, LostTx
    <3> QED  BY <3>1, <3>2, <3>3 DEF LostRx, LostTx
  <2> QED
    BY <2>1, <2>2, <2>3, <2>4, LostFrame DEF Next, Processor, Spin, Stopped
<1> QED  BY <1>1 DEF LostInv, LostRx, LostTx

\* Each step keeps the invariant of the data.
LEMMA NextDataInv ==  DataInv /\ [Next]_vars => DataInv'
<1> SUFFICES ASSUME DataInv, [Next]_vars PROVE DataInv'
  OBVIOUS
<1>1. DriverInv /\ DriverInv'  BY NextInv DEF DataInv
<1>2. CASE pc = "undefined"
  <2>1. UNCHANGED vars  BY <1>2, UndefinedStays
  <2>2. pc' = pc /\ job' = job  BY <2>1 DEF vars, driver
  <2>3. ~Lost /\ ~Lost' /\ (Ruined' <=> Ruined)
    BY <1>2, <2>2 DEF Lost, Transferring, Ruined, Sized
  <2>4. ~Ruined => TransferInv'  BY <1>2, <2>1, <2>3, UndefinedStep DEF DataInv
  <2> QED  BY <1>1, <2>3, <2>4 DEF DataInv
<1>3. CASE Lost
  <2>1. LostInv  BY <1>3 DEF DataInv
  <2>2. Lost' => LostInv'  BY <1>1, <1>3, <2>1, LostStep
  <2>3. Lost' \/ Ruined'
    <3>1. Lost' \/ (pc' = "undefined" /\ job' = job)  BY <1>1, <1>3, <2>1, LostFrame
    <3> QED  BY <1>3, <3>1 DEF Lost, Ruined, Sized
  <2> QED  BY <1>1, <2>2, <2>3 DEF DataInv
<1>4. CASE pc # "undefined" /\ ~Lost
  <2>1. Regular  BY <1>4 DEF DataInv, Ruined, Regular
  <2>2. ~Lost' => TransferInv'  BY <2>1, RegularStep
  <2>3. Lost' => LostInv'  BY <2>1, LostBegins, LostEntered
  <2> QED  BY <1>1, <2>2, <2>3 DEF DataInv
<1> QED
  BY <1>2, <1>3, <1>4

\* Descriptors, registers, engines, streams and the destination buffer stay in
\* step through every call of scaleHW and scaleHSCD (hw_impl.c:99-215).
THEOREM DataInvHolds ==  Spec => []DataInv
<1> QED  BY InitDataInv, NextDataInv, PTL DEF Spec

\* A call that returns without an error (hw_impl.c:152-154) has stored in each
\* place of the destination buffer the pixel that the software scaler stores.
THEOREM ResultIsComplete ==  Spec => []ResultComplete
<1>1. DataInv => ResultComplete
  <2> SUFFICES ASSUME DataInv, pc = "check" PROVE ResultComplete
    BY DEF ResultComplete
  <2>1. ~Lost /\ ~Ruined  BY DEF Lost, Ruined, Transferring
  <2> QED  BY <2>1 DEF DataInv, TransferInv, DestinationInv, ResultComplete
<1> QED  BY <1>1, DataInvHolds, PTL

\* Whatever the job, the part of an image that goes backwards included, the
\* transmit engine reads no more words than the registers announce.
THEOREM FrameNotExceeded ==  Spec => []NoWordPastFrame
<1>1. DataInv => NoWordPastFrame
  <2> SUFFICES ASSUME DataInv, pc # "undefined"
               PROVE  Len(sent) <= registers.width * registers.height
    BY DEF NoWordPastFrame
  <2> DEFINE a == registers.width
             b == registers.height
  <2>1. TypeOK /\ a \in Nat /\ b \in Nat /\ Len(sent) \in Nat
    BY DEF DataInv, DriverInv, TypeOK
  <2>2. a * b \in Nat  BY <2>1, Products
  <2>3. CASE ~Lost
    <3>0. Regular  BY <2>3 DEF DataInv, Ruined, Regular
    <3>1. CASE Resting
      <4>1. Len(sent) = 0  BY <3>1 DEF Resting
      <4> QED  BY <2>2, <4>1
    <3>2. CASE Draining
      BY <2>2, <3>2 DEF Draining
    <3>3. CASE Running /\ Streaming
      <4>1. a = job.width /\ b = TxLines  BY <3>0, <3>3, FrameInTransfer
      <4>2. Started("tx")  BY <3>3 DEF Running, Started
      <4>3. Len(sent) <= TxLines * job.width  BY <3>0, <3>3, <4>2, TxCounted DEF Streaming
      <4> HIDE DEF a, b
      <4>4. Len(sent) <= b * a  BY <4>1, <4>3
      <4>5. b * a = a * b  BY <2>1
      <4> QED  BY <4>4, <4>5 DEF a, b
    <3> QED  BY <3>0, <3>1, <3>2, <3>3 DEF Regular, TransferInv, StreamInv
  <2>4. CASE Lost
    <3>0. LostInv /\ DriverInv  BY <2>4 DEF DataInv
    <3>1. CASE ~Running  BY <3>0, <3>1 DEF LostInv
    <3>2. CASE Running
      <4> DEFINE n == dma["tx"].next
                 l == dma["tx"].left
      <4>1. Len(sent) + l <= n * AsLength(job.width) /\ registers \in RegisterValues
        BY <3>0, <3>2 DEF LostInv
      <4>2. n <= TxLines /\ n \in Nat /\ l \in Nat /\ TxLines \in Nat /\ TxLines <= BufferSize
            /\ job \in Job
        <5>1. n <= TxLines /\ n \in Nat /\ l \in Nat /\ TxLines \in Nat /\ job \in Job
          BY <2>4, <3>0, <3>2, LostTyped DEF DriverInv, ChainInv
        <5>2. TxLines <= Count(job.height) /\ Count(job.height) <= BufferSize
          BY <2>4, <3>0, <5>1, LostTyped, Dimensions, DriverAssumption DEF Count, Job
        <5>3. Count(job.height) \in Nat  BY <5>1 DEF Job, Count
        <5> QED  BY <5>1, <5>2, <5>3, DriverAssumption
      <4>3. a = AsLength(job.width) /\ b >= TxLines
        <5>1. a = AsLength(job.width)
              /\ b >= AsLength(IF SkipsLines THEN destinationHeight ELSE job.height)
          BY <4>1, <4>2, RegistersType
        <5> DEFINE h == IF SkipsLines THEN destinationHeight ELSE job.height
        <5>2. TxLines > 0 => h = TxLines
          <6> SUFFICES ASSUME TxLines > 0 PROVE h = TxLines  OBVIOUS
          <6>1. job.height > 0 /\ job.height \in Nat /\ Count(job.height) = job.height
            <7>1. Count(job.height) > 0 /\ job.height \in Int  BY <4>2, Dimensions DEF Job, Count
            <7> QED  BY <7>1 DEF Count
          <6>2. SkipsLines => destinationHeight = DestLen(yAxis, job.height)
            BY <4>2, <6>1, Sides DEF destinationHeight, yAxis, Job
          <6> QED  BY <6>1, <6>2 DEF TxLines
        <5>3. TxLines > 0 => AsLength(TxLines) = TxLines
          BY <4>2, LengthType, DriverAssumption
        <5> HIDE DEF b
        <5> QED  BY <2>1, <4>2, <5>1, <5>2, <5>3 DEF b
      <4> HIDE DEF a, b, n, l
      <4>4. n * a <= b * a /\ b * a = a * b /\ n * a \in Nat
        BY <2>1, <4>2, <4>3, Products
      <4>5. Len(sent) <= n * a
        BY <2>1, <4>1, <4>2, <4>3, <4>4
      <4> QED  BY <2>1, <2>2, <4>4, <4>5 DEF a, b
    <3> QED  BY <3>1, <3>2
  <2> QED  BY <2>3, <2>4
<1> QED  BY <1>1, DataInvHolds, PTL

\* The engines read the part of the image that the caller names and write its
\* destination buffer, and nothing beside them, unless the part goes backwards.
THEOREM TransfersStayInside ==  Spec => []TransfersInBounds
<1>1. DataInv => TransfersInBounds
  <2> SUFFICES ASSUME DataInv, Sized PROVE TransfersInBounds
    BY DEF TransfersInBounds
  <2>0. DriverInv /\ TransferInv /\ ~Lost  BY DEF DataInv, Lost, Ruined
  <2>1. CASE pc = "undefined"
    <3>1. dma["tx"].left = 0 /\ dma["rx"].left = 0
      BY <2>0, <2>1 DEF TransferInv, PlacesInv, Started, Engines
    <3> QED  BY <3>1 DEF TransfersInBounds
  <2>2. CASE pc # "undefined"
    <3>0. Regular  BY <2>0, <2>2 DEF Regular
    <3>1. ASSUME dma["tx"].left > 0
          PROVE  /\ dma["tx"].pos[1] \in job.y .. job.y + job.height - 1
                 /\ dma["tx"].pos[2] \in job.x .. job.x + job.width - dma["tx"].left
      <4>1. Started("tx")  BY <3>0, <3>1, MovesInTransfer
      <4>2. /\ dma["tx"].next \in 1 .. TxLines /\ dma["tx"].left <= job.width
            /\ dma["tx"].pos = <<TxLine(dma["tx"].next - 1), job.x + job.width - dma["tx"].left>>
        BY <2>0, <3>1, <4>1 DEF TransferInv, PlacesInv
      <4>3. TxLine(dma["tx"].next - 1) \in job.y .. job.y + job.height - 1
        BY <3>0, <4>2, Typed, LinesInPart
      <4> QED  BY <3>0, <4>2, <4>3, Typed
    <3>2. ASSUME dma["rx"].left > 0
          PROVE  /\ dma["rx"].pos[1] \in 0 .. destinationHeight - 1
                 /\ dma["rx"].pos[2] \in 0 .. destinationWidth - dma["rx"].left
      <4>1. Started("rx") /\ RxLines = destinationHeight
        BY <3>0, <3>2, MovesInTransfer, InTransfer, Forwards
      <4>2. dma["rx"].pos = <<RxRow, RxCol>> /\ dma["rx"].left <= destinationWidth
            /\ RxRow \in 0 .. destinationHeight /\ RxRow < destinationHeight
        BY <2>0, <3>0, <3>2, <4>1, RxPlaced DEF TransferInv, PlacesInv
      <4>3. RxCol = destinationWidth - dma["rx"].left  BY <3>2 DEF RxCol
      <4> QED  BY <3>0, <4>2, <4>3, Typed
    <3> QED  BY <3>1, <3>2 DEF TransfersInBounds
  <2> QED  BY <2>1, <2>2
<1> QED  BY <1>1, DataInvHolds, PTL

-----------------------------------------------------------------------------
\* The driver starts as the service does.
LEMMA ServiceStarts ==  Init => Service!ServiceInit
BY DEF Init, Service!ServiceInit, Service!NoRequest, Phase, Result

\* What the caller finds is decided by where it is and what is stored.
LEMMA SameResult ==
  ASSUME UNCHANGED <<pc, op, job, destination>>
  PROVE  Phase' = Phase /\ Result' = Result
BY SameShown DEF Phase, Result, Scaled

\* The calls for parts that do not go backwards, and what surrounds them.
LEMMA RegularServiceStep ==
  ASSUME Regular, [Next]_vars
  PROVE  [Service!ServiceNext]_(Service!service)
<1>0. TypeOK /\ DriverInv  BY Typed
<1>1. CASE CallHW \/ CallHSCD
  <2>1. Phase = "idle" /\ Phase' = "called" /\ Result' = "none" /\ UNCHANGED <<status, mallocPtr>>
    BY <1>1 DEF CallHW, CallHSCD, EnterCall, Phase, Result
  <2> QED  BY <2>1 DEF Service!ServiceNext, Service!Call
<1>2. CASE InitHW
  <2>1. pc = "init" /\ op = "init" /\ pc' = "check" /\ op' = "init" /\ job' = job
    BY <1>2 DEF InitHW, driver, Regular, TransferInv
  <2>2. Phase = "init" /\ Phase' = "initialized" /\ Result = "none" /\ Result' = "none"
    BY <2>1 DEF Phase, Result
  <2> QED  BY <1>2, <2>1, <2>2 DEF InitHW, Service!ServiceNext, Service!Serve,
                Service!Initialize
<1>3. CASE CheckHW
  <2>1. pc = "check" /\ UNCHANGED <<op, job, status, destination>>
    BY <1>3 DEF CheckHW
  <2>2. Phase = IF op = "init" THEN "initialized" ELSE "returned"
    BY <2>1 DEF Phase
  <2>3. mallocPtr' = IF status # 0 /\ mallocPtr = "pool" THEN "freed" ELSE mallocPtr
    BY <1>0, <1>3 DEF CheckHW, TypeOK
  <2>4. \/ Return
        \/ status # 0 /\ mallocPtr \in {"freed", "uninitialized"} /\ pc' = "undefined"
    BY <1>3 DEF CheckHW
  <2>5. \/ Phase' = IF Phase = "initialized" /\ status # 0 THEN "exit" ELSE "idle"
        \/ status # 0 /\ mallocPtr \in {"freed", "uninitialized"} /\ Phase' = "undefined"
    BY <2>2, <2>4 DEF Return, Phase
  <2>6. Result' = Result
    <3>1. CASE op = "init"  BY <2>1, <3>1 DEF Result
    <3>2. CASE op # "init"
      <4>1. pc' \in {"idle", "next", "undefined"}  BY <2>4, <3>2 DEF Return
      <4> QED  BY <2>1, <3>2, <4>1, SameShown DEF Result, Scaled
    <3> QED  BY <3>1, <3>2
  <2> QED  BY <2>1, <2>2, <2>3, <2>5, <2>6 DEF Service!ServiceNext, Service!Serve, Service!Check
<1>4. ASSUME pc \in {"size", "registers", "descriptors", "flags", "starttx", "startrx"},
             UNCHANGED <<job, op, destination>>
      PROVE  Result = "none" /\ Result' = "none" /\ Phase = "called"
  <2>1. ~(Buffer # {} /\ Scaled)
    <3> SUFFICES ASSUME NEW p \in Buffer, Scaled PROVE FALSE  OBVIOUS
    <3>1. destination[p] = <<-1, -1>> /\ destination[p] = Shown(p)
      BY <1>4 DEF Regular, TransferInv, DestinationInv, Stale, Scaled
    <3>2. p[1] \in 0 .. destinationHeight - 1  BY DEF Buffer
    <3>3. SrcOf(yAxis, p[1]) \in Nat
      <4>1. Sized  BY Typed, Backwards
      <4>2. SrcOf(yAxis, p[1]) \in 0 .. job.height - 1
        BY <3>2, <4>1, Typed, SizedDimensions, JobAxes, AxisBounds
      <4> QED  BY <4>2, Typed
    <3>4. job.y + SrcOf(yAxis, p[1]) = -1  BY <3>1 DEF Shown
    <3> QED  BY <3>3, <3>4, Typed
  <2>2. ~(Buffer' # {} /\ Scaled')
    BY <1>4, <2>1, SameShown DEF Scaled
  <2> QED  BY <1>4, <2>1, <2>2 DEF Result, Phase
<1>5. CASE CheckSize
  <2>1. pc = "size" /\ UNCHANGED <<op, job, destination, mallocPtr>> /\ op # "init"
    BY <1>0, <1>5 DEF CheckSize, DriverInv, JobInv
  <2>2. Result = "none" /\ Result' = "none" /\ Phase = "called"  BY <1>4, <2>1
  <2>3. CASE job.width > BufferSize \/ job.height > BufferSize
    <3>1. Phase' = "returned"  BY <1>5, <2>1, <2>3 DEF CheckSize, Phase
    <3>2. \/ job.width > BufferSize /\ status' = 6
          \/ job.width <= BufferSize /\ job.height > BufferSize /\ status' = 7
      BY <1>5, <2>3, Typed, DriverAssumption DEF CheckSize
    <3> QED  BY <2>1, <2>2, <3>1, <3>2 DEF Service!ServiceNext, Service!Serve, Service!Refuse
  <2>4. CASE ~(job.width > BufferSize \/ job.height > BufferSize)
    <3>1. Phase' = "called" /\ status' = status  BY <1>5, <2>4 DEF CheckSize, Phase
    <3> QED  BY <2>1, <2>2, <3>1 DEF Service!service
  <2> QED  BY <2>3, <2>4
<1>6. CASE ConstructDescriptors
  <2>1. pc = "descriptors" /\ UNCHANGED <<op, job, destination, status, mallocPtr>>
    BY <1>6 DEF ConstructDescriptors, driver
  <2>2. Result = "none" /\ Result' = "none" /\ Phase = "called"  BY <1>4, <2>1
  <2>3. Phase' = "called" \/ (mallocPtr = "freed" /\ Phase' = "undefined")
    BY <1>6 DEF ConstructDescriptors, Phase
  <2> QED  BY <2>1, <2>2, <2>3 DEF Service!ServiceNext, Service!Serve, Service!Overwrite,
                Service!service
<1>7. CASE WriteRegisters \/ ResetFlags \/ StartTx \/ StartRx \/ Wait \/ StopTx
  <2>1. UNCHANGED <<op, job, destination, status, mallocPtr>>
    BY <1>0, <1>7, StartStopFrame, StartsAtRest
    DEF WriteRegisters, ResetFlags, StartTx, StartRx, Start, Wait, StopTx, Stop, driver
  <2>2. /\ pc \in {"registers", "flags", "starttx", "startrx", "wait", "stoptx"}
        /\ pc' \in {"descriptors", "flags", "starttx", "startrx", "wait", "stoptx", "stoprx"}
    BY <1>0, <1>7, StartsAtRest DEF WriteRegisters, ResetFlags, StartTx, StartRx, Start,
         Wait, StopTx
  <2>3. Phase = "called" /\ Phase' = "called" /\ Result = "none" /\ Result' = "none"
    BY <2>2 DEF Phase, Result
  <2> QED  BY <2>1, <2>3 DEF Service!service
<1>8. CASE StopRx
  <2>1. UNCHANGED <<op, job, destination, status, mallocPtr>> /\ pc = "stoprx" /\ pc' = "check"
    BY <1>8 DEF StopRx, Stop, driver
  <2>2. op # "init" /\ job.width <= BufferSize /\ job.height <= BufferSize
    BY <1>0, <2>1 DEF DriverInv, JobInv, Transferring
  <2>3. Started("rx") /\ done["rx"] # 0  BY <1>0, <2>1 DEF Started, DriverInv, FlagsInv
  <2>4. job.width > 0 /\ dma["rx"].next > RxFirst /\ dma["rx"].next \in RxFirst .. RxFirst + RxLines
    BY <1>0, <2>1, <2>3 DEF Regular, TransferInv, EndInv, DriverInv, ChainInv, Engines, First
  <2>5. destinationWidth > 0 /\ destinationHeight > 0 /\ job.height > 0
    <3>1. Transferring  BY <2>1 DEF Transferring
    <3>2. RxLines = destinationHeight  BY <3>1, Forwards
    <3> QED  BY <2>4, <3>1, <3>2, Typed, SomeLines
  <2>6. Buffer # {} /\ Scaled
    <3>1. <<0, 0>> \in Buffer  BY <2>5, Typed DEF Buffer
    <3> QED  BY <2>1, <3>1 DEF Regular, TransferInv, DestinationInv
  <2>7. Buffer' # {} /\ Scaled'  BY <2>1, <2>6, SameShown DEF Scaled
  <2>8. Phase = "called" /\ Phase' = "returned" /\ Result' = "scaled"
    BY <2>1, <2>2, <2>7 DEF Phase, Result
  <2>9. job.width \in 1 .. BufferSize /\ job.height \in 1 .. BufferSize
    BY <2>2, <2>4, <2>5, Typed, DriverAssumption
  <2> QED  BY <2>1, <2>8, <2>9 DEF Service!ServiceNext, Service!Serve, Service!Scale
<1>9. CASE (\E e \in Engines : Engine(e)) \/ UNCHANGED vars
  BY <1>9, EngineFrame, SameResult DEF Service!service
<1>10. CASE ReadWord \/ TakeWord
  <2>1. UNCHANGED <<pc, job, op, status, mallocPtr, destination>>
    BY <1>10, WordFrame DEF ReadWord, TakeWord
  <2> QED  BY <2>1, SameResult DEF Service!service
<1>11. CASE GiveWord
  <2>1. UNCHANGED <<pc, job, op, status, mallocPtr>> /\ pc = "wait"
    BY <1>11, WordFrame, GivenPlace
  <2>2. Phase = "called" /\ Phase' = "called" /\ Result = "none" /\ Result' = "none"
    BY <2>1 DEF Phase, Result
  <2> QED  BY <2>1, <2>2 DEF Service!service
<1> QED
  BY <1>1, <1>2, <1>3, <1>5, <1>6, <1>7, <1>8, <1>9, <1>10, <1>11 DEF Next, Processor, Spin,
       Stopped

\* The call for a part that goes backwards does not come back.
LEMMA LostServiceStep ==
  ASSUME DriverInv, Lost, LostInv, [Next]_vars
  PROVE  [Service!ServiceNext]_(Service!service)
<1>1. UNCHANGED <<job, op, status, mallocPtr>>  BY LostFrame
<1>2. Buffer = {} /\ Buffer' = {}
  <2>1. Buffer = {}  BY LostTyped, Backwards DEF Lost
  <2> QED  BY <1>1, <2>1, SameShown
<1>3. /\ pc \in {"registers", "descriptors", "flags", "starttx", "startrx", "wait"}
      /\ job.width <= BufferSize /\ job.height <= BufferSize
      /\ job.width \in Int /\ job.height \in Int
  BY LostTyped DEF Job
<1>4. Phase = "called" /\ Result = "none"  BY <1>3 DEF Phase, Result
<1>5. Result' = "none"  BY <1>2 DEF Result
<1>6. CASE Lost'
  <2>1. Phase' = "called"  BY <1>6 DEF Lost, Transferring, Phase
  <2> QED  BY <1>1, <1>4, <1>5, <2>1 DEF Service!service
<1>7. CASE ~Lost'
  <2>1. pc' = "undefined"  BY <1>7, LostFrame
  <2>2. Phase' = "undefined"  BY <2>1 DEF Phase
  <2>3. job.width < 0 \/ job.height < 0  BY <1>3 DEF Lost, Sized
  <2> QED
    BY <1>1, <1>3, <1>4, <1>5, <2>2, <2>3 DEF Service!ServiceNext, Service!Serve, Service!Overrun
<1> QED  BY <1>6, <1>7

\* Every step is one of the service, or one that its caller does not see.
LEMMA ServiceStep ==
  ASSUME DataInv, [Next]_vars
  PROVE  [Service!ServiceNext]_(Service!service)
<1>1. CASE pc = "undefined"
  <2>1. UNCHANGED vars  BY <1>1, UndefinedStays
  <2> QED  BY <2>1, EngineFrame, SameResult DEF Service!service
<1>2. CASE Lost
  BY <1>2, LostServiceStep DEF DataInv
<1>3. CASE pc # "undefined" /\ ~Lost
  <2>1. Regular  BY <1>3 DEF DataInv, Ruined, Regular
  <2> QED  BY <2>1, RegularServiceStep
<1> QED  BY <1>1, <1>2, <1>3

\* The two scaler functions with all that runs beside them are the service of
\* HwService: calls that are refused, calls that leave the scaled image, and,
\* after an error, calls with a pool that was freed.
THEOREM Serves ==  Spec => ImplementsService
<1> QED
  BY ServiceStarts, ServiceStep, DataInvHolds, PTL DEF Spec, ImplementsService,
       Service!ServiceSpec
=============================================================================
