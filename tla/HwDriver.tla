------------------------------ MODULE HwDriver ------------------------------
(***************************************************************************)
(* The hardware scaler as the program drives it: hw_impl.c on the          *)
(* processor, the two SGDMA engines with their driver and interrupts, and  *)
(* the accelerator between them, taken at its word (ScalerSpec).           *)
(*                                                                         *)
(* The processor, the interrupt handlers, the engines and the two streams  *)
(* of the accelerator run side by side.  An image is the source position   *)
(* of each of its pixels, memory is addressed by row and column.           *)
(***************************************************************************)
EXTENDS Scaling, Sequences

CONSTANTS
  BufferSize,  \* BUFFER_SIZE, the longest line and the most lines.
  Jobs,        \* What the callers ask for: [x, y, width, height, xScale, yScale].
  MaxJobs,     \* Bound on the number of jobs.
  LengthMod    \* The number of values of an alt_u16.

Factors == (-4 .. 4) \ {0}

\* prepareCommand looks only at where a part ends, so that it may go backwards.
Job == [x : Nat, y : Nat, width : Int, height : Int, xScale : Factors, yScale : Factors]

ASSUME DriverAssumption ==
  /\ BufferSize \in Nat \ {0}
  /\ Jobs \subseteq Job
  /\ MaxJobs \in Nat
  /\ LengthMod \in Nat /\ LengthMod > 4 * BufferSize

VARIABLES
  pc, op, job, jobs,    \* Where the processor is, in which call, for which job.
  status, mallocPtr, spare, done,   \* HWContext; spare: descPtr was moved up.
  desc,                 \* The descriptor pool.
  dma,                  \* The registers of the engines.
  registers,            \* The registers of the accelerator.
  tx, rx,               \* Its next source and destination position.
  sent,                 \* What the transmit engine has read in this frame.
  destination           \* What this call has stored in the destination buffer.

driver      == <<op, job, jobs, status, mallocPtr, spare>>
accelerator == <<registers, tx, rx, sent>>
vars == <<pc, driver, done, desc, dma, accelerator, destination>>

Engines == {"tx", "rx"}

\* Faulty: one line of descriptors short.
PoolOfLinesOnly == BufferSize * 5

PoolSize == (BufferSize + 1) * 5
-----------------------------------------------------------------------------
(* The job. *)

xAxis == AxisOf(job.xScale)
yAxis == AxisOf(job.yScale)
destinationWidth  == DestSide(xAxis, job.width)
destinationHeight == DestSide(yAxis, job.height)

Sized == job.width >= 0 /\ job.height >= 0

\* How often a loop up to n goes round, and what is left of an int in an alt_u16.
Count(n)    == IF n > 0 THEN n ELSE 0
AsLength(n) == n % LengthMod

Buffer == (0 .. destinationHeight - 1) \X (0 .. destinationWidth - 1)

Stale == <<-1, -1>>

\* The two bits of a scale factor in the control register.
Encode(scale) == IF scale > 0 THEN scale - 1 ELSE -scale - 1

\* scaleHSCD leaves out the lines that scaling down would drop.
SkipsLines == op = "HSCD" /\ job.yScale < 0

\* Faulty: the loop goes on while i <= height.
TxLinesInclusive ==
  IF SkipsLines THEN Count(job.height) \div (-job.yScale) + 1 ELSE Count(job.height) + 1

\* Faulty: the lines left out are the last ones.
TxLineEach(i) == job.y + i

\* The lines to transmit, the source line the i-th of them is, and the lines to
\* receive.
TxLines == IF SkipsLines THEN DestLen(yAxis, Count(job.height)) ELSE Count(job.height)

TxLine(i) == job.y + (IF SkipsLines THEN i * (-job.yScale) ELSE i)

RxLines == Count(destinationHeight)

\* Faulty: the stop descriptor is taken for the first receive descriptor.
RxFirstAtStop == TxLines

\* Receive descriptors start after the transmit stop descriptor.
RxFirst == TxLines + 1

-----------------------------------------------------------------------------
(* hw_impl.c and the driver, on the processor. *)

Idle == [run |-> FALSE, busy |-> FALSE, completed |-> FALSE, written |-> FALSE,
         irq |-> FALSE, next |-> 0, pos |-> <<0, 0>>, left |-> 0]

Descriptor(own, pos, len) == [own |-> own, pos |-> pos, len |-> len]

Init ==
  /\ pc = "init" /\ op = "init" /\ jobs = 0
  /\ job = [x |-> 0, y |-> 0, width |-> 0, height |-> 0, xScale |-> 1, yScale |-> 1]
  /\ status = 0
  /\ mallocPtr = "uninitialized"
  /\ spare \in BOOLEAN
  /\ done = [e \in Engines |-> 0]
  \* What malloc returns may hold anything, old descriptors included.
  /\ \E own \in BOOLEAN : desc = [d \in 0 .. PoolSize - 1 |-> Descriptor(own, <<0, 0>>, 1)]
  /\ dma = [e \in Engines |-> Idle]
  /\ registers = [width |-> 0, height |-> 0, xUpscale |-> FALSE, xScale |-> 0,
                  yUpscale |-> FALSE, yScale |-> 0]
  /\ tx = Origin /\ rx = Origin
  /\ sent = <<>>
  /\ destination = <<>>

\* initHW: opening an engine or the allocation may fail.
InitHW ==
  /\ pc = "init"
  /\ pc' = "check"
  /\ status' \in 0 .. 3
  /\ mallocPtr' = CASE status' = 0 -> "pool"
                    [] status' = 3 -> "null"
                    [] OTHER       -> mallocPtr
  /\ UNCHANGED <<op, job, jobs, spare, done, desc, dma, accelerator, destination>>

\* The callers: resizeImage and runTests go on to scaleHSCD if scaleHW went
\* well, main returns if initHW did not.
Return ==
  pc' = IF op = "init" THEN (IF status = 0 THEN "idle" ELSE "exit")
        ELSE IF op = "HW" /\ status = 0 THEN "next" ELSE "idle"

\* checkHW and cleanupHW: an error frees the pool.
CheckHW ==
  /\ pc = "check"
  /\ \/ status = 0 /\ Return /\ UNCHANGED mallocPtr
     \/ status # 0 /\ mallocPtr = "null" /\ Return /\ UNCHANGED mallocPtr
     \/ status # 0 /\ mallocPtr = "pool" /\ Return /\ mallocPtr' = "freed"
     \* Freeing what is no allocation may go unnoticed or do anything.
     \/ /\ status # 0 /\ mallocPtr \in {"freed", "uninitialized"}
        /\ Return \/ pc' = "undefined"
        /\ UNCHANGED mallocPtr
  /\ UNCHANGED <<op, job, jobs, status, spare, done, desc, dma, accelerator, destination>>

EnterCall ==
  /\ pc' = "size"
  /\ destination' = [p \in Buffer' |-> Stale]
  /\ UNCHANGED <<status, mallocPtr, spare, done, desc, dma, accelerator>>

CallHW ==
  /\ pc = "idle" /\ jobs < MaxJobs
  /\ op' = "HW"
  /\ job' \in Jobs
  /\ jobs' = jobs + 1
  /\ EnterCall

CallHSCD ==
  /\ pc = "next"
  /\ op' = "HSCD"
  /\ UNCHANGED <<job, jobs>>
  /\ EnterCall

CheckSize ==
  /\ pc = "size"
  /\ status' = IF job.width > BufferSize THEN 6 ELSE IF job.height > BufferSize THEN 7 ELSE status
  /\ pc' = IF job.width > BufferSize \/ job.height > BufferSize THEN "check"
           ELSE IF op = "HW" THEN "registers" ELSE "descriptors"
  /\ UNCHANGED <<op, job, jobs, mallocPtr, spare, done, desc, dma, accelerator, destination>>

\* The height has its half of the register to itself, unless the other half runs
\* over into it: a negative width sets its bits, all of them from -LengthMod on.
HeightFields(low) ==
  LET high == (job.width \div LengthMod) % LengthMod
  IN  {n \in 0 .. LengthMod - 1 : n >= low /\ n >= high /\ n <= low + high}

\* Faulty: scaleHSCD still has the accelerator drop lines.
RegistersOfJob ==
  [width : {AsLength(job.width)}, height : HeightFields(AsLength(job.height)),
   xUpscale : {job.xScale > 0}, xScale : {Encode(job.xScale)},
   yUpscale : {job.yScale > 0}, yScale : {Encode(job.yScale)}]

\* To the accelerator an image without the dropped lines is not scaled.
RegisterValues ==
  [width : {AsLength(job.width)},
   height : HeightFields(AsLength(IF SkipsLines THEN destinationHeight ELSE job.height)),
   xUpscale : {job.xScale > 0}, xScale : {Encode(job.xScale)},
   yUpscale : {job.yScale > 0}, yScale : {IF SkipsLines THEN 0 ELSE Encode(job.yScale)}]

\* Timing: before the processor gets here from the call before, the words that
\* were left in the transmit engine's FIFO have gone through the accelerator.
WriteRegisters ==
  /\ pc = "registers"
  /\ sent = <<>>
  /\ registers' \in RegisterValues
  /\ pc' = IF op = "HW" THEN "descriptors" ELSE "flags"
  /\ UNCHANGED <<driver, done, desc, dma, tx, rx, sent, destination>>

\* One descriptor for each line and a stop descriptor, for either engine.  In a
\* pool that was freed they may overwrite anything.
ConstructDescriptors ==
  /\ pc = "descriptors"
  /\ desc' = [d \in DOMAIN desc |->
       CASE d \in RxFirst .. RxFirst + RxLines - 1 ->
              Descriptor(TRUE, <<d - RxFirst, 0>>, AsLength(destinationWidth))
         [] d = RxFirst + RxLines -> [desc[d] EXCEPT !.own = FALSE]
         [] d < RxFirst /\ d < TxLines ->
              Descriptor(TRUE, <<TxLine(d), job.x>>, AsLength(job.width))
         [] d < RxFirst /\ d >= TxLines -> [desc[d] EXCEPT !.own = FALSE]
         [] OTHER -> desc[d]]
  /\ \/ pc' = IF op = "HW" THEN "flags" ELSE "registers"
     \/ mallocPtr = "freed" /\ pc' = "undefined"
  /\ UNCHANGED <<driver, done, dma, accelerator, destination>>

\* Faulty: the flags are left as the last call has set them.
KeepFlags ==
  /\ pc = "flags"
  /\ pc' = "starttx"
  /\ UNCHANGED <<driver, done, desc, dma, accelerator, destination>>

ResetFlags ==
  /\ pc = "flags"
  /\ pc' = "starttx"
  /\ done' = [e \in Engines |-> 0]
  /\ UNCHANGED <<driver, desc, dma, accelerator, destination>>

\* The BUSY bit of the status register.
Busy(e) == dma[e].busy \/ (dma[e].run /\ ~dma[e].completed)

\* alt_avalon_sgdma_do_async_transfer
Start(e, first, error, next) ==
  /\ IF Busy(e)
     THEN status' = error /\ pc' = "check" /\ UNCHANGED dma
     ELSE /\ dma' = [dma EXCEPT ![e].run = TRUE, ![e].completed = FALSE, ![e].next = first]
          /\ pc' = next
          /\ UNCHANGED status
  /\ UNCHANGED <<op, job, jobs, mallocPtr, spare, done, desc, accelerator, destination>>

StartTx == pc = "starttx" /\ Start("tx", 0, 4, "startrx")
StartRx == pc = "startrx" /\ Start("rx", RxFirst, 5, "wait")

\* Faulty: one of the two completions ends the wait.
DoneEither == done["tx"] # 0 \/ done["rx"] # 0

AllDone == done["tx"] # 0 /\ done["rx"] # 0

Wait ==
  /\ pc = "wait"
  /\ AllDone
  /\ pc' = "stoptx"
  /\ UNCHANGED <<driver, done, desc, dma, accelerator, destination>>

\* alt_avalon_sgdma_stop
Stop(e) ==
  /\ dma' = [dma EXCEPT ![e].run = FALSE, ![e].completed = FALSE]
  /\ UNCHANGED <<driver, done, desc, accelerator, destination>>

StopTx == pc = "stoptx" /\ pc' = "stoprx" /\ Stop("tx")
StopRx == pc = "stoprx" /\ pc' = "check" /\ Stop("rx")

-----------------------------------------------------------------------------
(* The interrupt handler and the engines.  After a write beyond the         *)
(* destination buffer nothing more is said.                                *)

\* alt_avalon_sgdma_irq, with txCallback or rxCallback.
Interrupt(e) ==
  /\ pc # "undefined"
  /\ dma[e].irq
  /\ dma' = [dma EXCEPT ![e].irq = FALSE]
  /\ done' = [done EXCEPT ![e] = @ + 1]
  /\ UNCHANGED <<pc, driver, desc, accelerator, destination>>

Ready(e) == pc # "undefined" /\ dma[e].run /\ ~dma[e].busy /\ ~dma[e].completed

Fetch(e) ==
  LET d == desc[dma[e].next]
  IN  /\ Ready(e)
      /\ d.own
      /\ dma' = [dma EXCEPT ![e].busy = TRUE, ![e].next = @ + 1,
                            ![e].pos = d.pos, ![e].left = d.len]
      /\ UNCHANGED <<pc, driver, done, desc, accelerator, destination>>

\* A descriptor that is not owned ends the chain.  It takes a descriptor that
\* was written back for the end of the chain to interrupt.
EndChain(e) ==
  /\ Ready(e)
  /\ ~desc[dma[e].next].own
  /\ dma' = [dma EXCEPT ![e].completed = TRUE, ![e].written = FALSE,
                        ![e].irq = @ \/ dma[e].written]
  /\ UNCHANGED <<pc, driver, done, desc, accelerator, destination>>

\* The write back, with the PARK bit leaving the descriptor owned.  For the
\* receive engine a length of zero means up to an end of packet, which the
\* accelerator never signals.
Retire(e) ==
  /\ pc # "undefined"
  /\ dma[e].busy
  /\ dma[e].left = 0
  /\ e = "rx" => desc[dma[e].next - 1].len > 0
  /\ dma' = [dma EXCEPT ![e].busy = FALSE, ![e].written = TRUE]
  /\ UNCHANGED <<pc, driver, done, desc, accelerator, destination>>

\* The engine after a word of its descriptor.
MoveWord(e) ==
  [dma EXCEPT ![e].pos = <<@[1], @[2] + 1>>, ![e].left = Count(@ - 1)]

\* The transmit engine reads a pixel into its FIFO.
ReadWord ==
  /\ pc # "undefined"
  /\ dma["tx"].busy /\ dma["tx"].left > 0
  /\ sent' = Append(sent, dma["tx"].pos)
  /\ dma' = MoveWord("tx")
  /\ UNCHANGED <<pc, driver, done, desc, registers, tx, rx, destination>>

-----------------------------------------------------------------------------
(* The accelerator. *)

frameAxis == [x |-> [up |-> registers.xUpscale, scale |-> registers.xScale + 1],
              y |-> [up |-> registers.yUpscale, scale |-> registers.yScale + 1]]

frameWidth  == DestLen(frameAxis.x, registers.width)
frameHeight == DestLen(frameAxis.y, registers.height)

Number(pos) == pos.row * registers.width + pos.col

\* The source position of the word that is due.
DuePos == [row |-> SrcOf(frameAxis.y, rx.row), col |-> SrcOf(frameAxis.x, rx.col)]

\* The counters go to t and r, and back to the origin at the end of the frame.
Advance(t, r) ==
  LET over == t.row = registers.height /\ r.row = frameHeight
  IN  /\ tx' = IF over THEN Origin ELSE t
      /\ rx' = IF over THEN Origin ELSE r
      /\ sent' = IF over THEN SubSeq(sent, Number(t) + 1, Len(sent)) ELSE sent

TakeWord ==
  /\ pc # "undefined"
  /\ tx.row < registers.height
  /\ Number(tx) < Len(sent)
  /\ Advance(NextPos(tx, registers.width), rx)
  /\ UNCHANGED <<pc, driver, done, desc, dma, registers, destination>>

\* The receive engine stores the word, beyond the buffer if its line is longer.
GiveWord ==
  /\ pc # "undefined"
  /\ rx.row < frameHeight
  /\ Precedes(DuePos, tx)
  /\ dma["rx"].busy
  /\ dma["rx"].left > 0 \/ desc[dma["rx"].next - 1].len = 0
  /\ pc' = IF dma["rx"].pos \in DOMAIN destination THEN pc ELSE "undefined"
  /\ destination' = [p \in DOMAIN destination |->
       IF p = dma["rx"].pos THEN sent[Number(DuePos) + 1] ELSE destination[p]]
  /\ dma' = MoveWord("rx")
  /\ Advance(tx, NextPos(rx, frameWidth))
  /\ UNCHANGED <<driver, done, desc, registers>>

-----------------------------------------------------------------------------
\* What goes on by itself once a call has begun.
Processor ==
  \/ InitHW \/ CheckHW \/ CallHSCD \/ CheckSize \/ WriteRegisters
  \/ ConstructDescriptors \/ ResetFlags \/ StartTx \/ StartRx \/ Wait \/ StopTx \/ StopRx

Engine(e) == Interrupt(e) \/ Fetch(e) \/ EndChain(e) \/ Retire(e)

\* The loop that waits for the completions goes round once more, or nothing is
\* left to do.
Spin    == pc = "wait" /\ ~AllDone /\ UNCHANGED vars
Stopped == /\ pc \in {"exit", "undefined"} \/ (pc = "idle" /\ jobs = MaxJobs)
           /\ UNCHANGED vars

Next ==
  \/ CallHW \/ Processor
  \/ \E e \in Engines : Engine(e)
  \/ ReadWord \/ TakeWord \/ GiveWord
  \/ Spin \/ Stopped

Spec == Init /\ [][Next]_vars

\* The processor runs, interrupts are served, the engines and the accelerator
\* are clocked.
FairSpec ==
  /\ Spec
  /\ WF_vars(Processor)
  /\ \A e \in Engines : WF_vars(Engine(e))
  /\ WF_vars(ReadWord) /\ WF_vars(TakeWord) /\ WF_vars(GiveWord)
-----------------------------------------------------------------------------
Positions == Nat \X Nat

EngineState ==
  [run : BOOLEAN, busy : BOOLEAN, completed : BOOLEAN, written : BOOLEAN, irq : BOOLEAN,
   next : 0 .. PoolSize, pos : Positions, left : Nat]

TypeOK ==
  /\ pc \in {"init", "check", "idle", "next", "size", "registers", "descriptors", "flags",
             "starttx", "startrx", "wait", "stoptx", "stoprx", "exit", "undefined"}
  /\ op \in {"init", "HW", "HSCD"}
  /\ job \in Job
  /\ jobs \in 0 .. MaxJobs
  /\ status \in 0 .. 7
  /\ mallocPtr \in {"uninitialized", "null", "pool", "freed"}
  /\ spare \in BOOLEAN
  /\ done \in [Engines -> Nat]
  /\ desc \in [0 .. PoolSize - 1 -> [own : BOOLEAN, pos : Positions, len : Nat]]
  /\ dma \in [Engines -> EngineState]
  /\ registers \in [width : Nat, height : Nat, xUpscale : BOOLEAN, xScale : 0 .. 3,
                    yUpscale : BOOLEAN, yScale : 0 .. 3]
  /\ tx \in [row : Nat, col : Nat] /\ rx \in [row : Nat, col : Nat]
  /\ sent \in Seq(Positions)

(***************************************************************************)
(* The inductive invariant of the driver: at each place of the processor,  *)
(* which engine is started, within which descriptors, and how far its      *)
(* completion has come.                                                    *)
(***************************************************************************)
Started(e) ==
  pc \in (IF e = "tx" THEN {"startrx", "wait", "stoptx"} ELSE {"wait", "stoptx", "stoprx"})

\* A started engine interrupts, or has been counted, once, and only after it
\* has come to the end of its chain.  Any other engine is at rest.
EngineInv(e) ==
  IF Started(e)
    THEN /\ dma[e].run
         /\ dma[e].irq \/ done[e] # 0 => dma[e].completed
         /\ dma[e].completed => ~dma[e].busy
         /\ ~(dma[e].irq /\ done[e] # 0)
    ELSE ~dma[e].run /\ ~dma[e].busy /\ ~dma[e].irq

\* The flags are clear until their engine starts and both set when it is stopped.
FlagsInv ==
  /\ pc = "starttx" => done["tx"] = 0
  /\ pc \in {"starttx", "startrx"} => done["rx"] = 0
  /\ pc \in {"stoptx", "stoprx"} => done["tx"] # 0 /\ done["rx"] # 0

\* From the size check to the return.
Transferring ==
  pc \in {"registers", "descriptors", "flags", "starttx", "startrx", "wait", "stoptx", "stoprx"}

Constructed ==
  \/ pc \in {"flags", "starttx", "startrx", "wait", "stoptx", "stoprx"}
  \/ pc = "registers" /\ op = "HSCD"

\* Both chains end at a stop descriptor, and no engine is beyond its own.
ChainInv ==
  /\ Constructed => ~desc[TxLines].own /\ ~desc[RxFirst + RxLines].own
  /\ Started("tx") => dma["tx"].next <= TxLines
  /\ Started("rx") => dma["rx"].next \in RxFirst .. RxFirst + RxLines

\* Nothing is transferred for an image that did not pass the size check.
JobInv ==
  /\ pc = "size" \/ Transferring => op # "init"
  /\ Transferring => job.width <= BufferSize /\ job.height <= BufferSize

\* Together: the control of a transfer, in hw_impl.c, the handlers and the engines.
DriverInv ==
  /\ TypeOK
  /\ pc # "undefined" => (\A e \in Engines : EngineInv(e)) /\ FlagsInv /\ ChainInv
  /\ JobInv
  /\ status \notin {4, 5}

\* The pixel of the source that a place of the destination shows.
Shown(p) == <<job.y + SrcOf(yAxis, p[1]), job.x + SrcOf(xAxis, p[2])>>

Scaled == destination = [p \in Buffer |-> Shown(p)]

(***************************************************************************)
(* The inductive invariant of the data: what the descriptors and registers *)
(* hold, how far each engine and each stream has come, and which words     *)
(* have arrived.                                                           *)
(***************************************************************************)
\* What the descriptors of the job say, once they are written.
DescriptorsInv ==
  Constructed =>
    /\ \A d \in 0 .. TxLines - 1 : desc[d] = Descriptor(TRUE, <<TxLine(d), job.x>>, job.width)
    /\ \A d \in 0 .. RxLines - 1 :
         desc[RxFirst + d] = Descriptor(TRUE, <<d, 0>>, destinationWidth)

\* The registers are those of the job, and its frame has not begun.
Prepared == pc \in {"flags", "starttx"} \/ (pc = "descriptors" /\ op = "HW")

Running == pc \in {"startrx", "wait"}

RegistersInv ==
  Prepared \/ Running \/ pc \in {"stoptx", "stoprx"} => registers \in RegisterValues

\* How many words the transmit engine has read, and where the receive engine
\* stores the next one.
TxCount == dma["tx"].next * job.width - dma["tx"].left

RxRow == dma["rx"].next - RxFirst - (IF dma["rx"].left > 0 THEN 1 ELSE 0)
RxCol == IF dma["rx"].left > 0 THEN destinationWidth - dma["rx"].left ELSE 0

\* An engine in the middle of a line is there in memory, too.
PlacesInv ==
  /\ \A e \in Engines : ~(Started(e) /\ dma[e].busy) => dma[e].left = 0
  /\ Started("tx") /\ dma["tx"].left > 0 =>
       /\ dma["tx"].next \in 1 .. TxLines /\ dma["tx"].left <= job.width
       /\ dma["tx"].pos = <<TxLine(dma["tx"].next - 1), job.x + job.width - dma["tx"].left>>
  /\ Started("rx") /\ dma["rx"].left > 0 =>
       /\ dma["rx"].next > RxFirst /\ dma["rx"].left <= destinationWidth
       /\ dma["rx"].pos = <<RxRow, RxCol>>

First(e) == IF e = "tx" THEN 0 ELSE RxFirst

\* A chain is complete at its stop descriptor, and interrupts if it had lines,
\* which for the receive engine had pixels.
EndInv == \A e \in Engines :
  IF Started(e)
    THEN /\ dma[e].completed => ~desc[dma[e].next].own /\ ~dma[e].written
         /\ dma[e].busy \/ dma[e].written \/ dma[e].irq \/ done[e] # 0 => dma[e].next > First(e)
         /\ dma[e].written \/ dma[e].irq \/ done[e] # 0 => (e = "rx" => job.width > 0)
    ELSE ~dma[e].written

\* The words sent so far are the pixels of the lines to transmit in their order.
SentInv ==
  \A r \in 0 .. TxLines - 1, c \in 0 .. job.width - 1 :
    r * job.width + c < Len(sent) => sent[r * job.width + c + 1] = <<TxLine(r), job.x + c>>

Resting == sent = <<>> /\ tx = Origin /\ rx = Origin

\* In the middle of the frame the streams are where the engines are.
Streaming ==
  /\ job.width > 0 /\ TxLines > 0
  /\ Len(sent) = TxCount
  /\ tx.row <= TxLines /\ tx.col < job.width /\ Number(tx) <= Len(sent)
  /\ rx = IF Started("rx") THEN [row |-> RxRow, col |-> RxCol] ELSE Origin
  /\ ~(tx.row = TxLines /\ rx.row = RxLines)
  /\ SentInv

\* Both engines have passed all lines.
EnginesAtEnd ==
  /\ Started("rx")
  /\ dma["tx"].next = TxLines /\ dma["tx"].left = 0
  /\ dma["rx"].next = RxFirst + RxLines /\ dma["rx"].left = 0

\* After the call the accelerator may still be taking words that it drops.
Draining ==
  /\ Len(sent) = registers.width * registers.height
  /\ rx = [row |-> frameHeight, col |-> 0]
  /\ tx.row < registers.height /\ tx.col < registers.width

StreamInv ==
  IF Running THEN Streaming \/ (Resting /\ (job.width = 0 \/ TxLines = 0 \/ EnginesAtEnd))
             ELSE Resting \/ (Draining /\ ~Prepared)

\* What the receive engine has stored is right, and nothing of an earlier call.
DestinationInv ==
  /\ pc = "size" \/ Transferring => destination = [p \in Buffer |-> destination[p]]
  /\ pc \in {"size", "registers", "descriptors", "flags", "starttx", "startrx"} =>
       \A p \in Buffer : destination[p] = Stale
  /\ pc = "wait" => \A p \in Buffer :
       p[1] < RxRow \/ (p[1] = RxRow /\ p[2] < RxCol) => destination[p] = Shown(p)
  /\ pc \in {"stoptx", "stoprx"} => Scaled
  /\ pc = "check" /\ op # "init" /\ status = 0 => Scaled

\* The transfer of a part that goes backwards, and what it leaves when it is
\* written beyond its buffer.
Lost   == ~Sized /\ Transferring
Ruined == ~Sized /\ pc = "undefined"

\* It has no line to receive, or waits in the middle of one for ever: what would
\* come is written beyond the buffer.  Nor does it send more than it announces.
LostInv ==
  /\ pc \notin {"stoptx", "stoprx"}
  /\ DOMAIN destination = {}
  /\ ~dma["rx"].written /\ ~dma["rx"].irq
  /\ pc \in {"starttx", "startrx", "wait"} => done["rx"] = 0
  /\ dma["rx"].busy => dma["rx"].left > 0 \/ desc[dma["rx"].next - 1].len = 0
  /\ Constructed => \A d \in 0 .. TxLines - 1 : desc[d].len = AsLength(job.width)
  /\ Prepared \/ Running => registers \in RegisterValues
  /\ Prepared => sent = <<>>
  /\ Running => Len(sent) + dma["tx"].left <= dma["tx"].next * AsLength(job.width)
  /\ ~Running => dma["tx"].left = 0 /\ Len(sent) <= registers.width * registers.height

TransferInv ==
  /\ DescriptorsInv
  /\ RegistersInv
  /\ PlacesInv
  /\ EndInv
  /\ StreamInv
  /\ DestinationInv
  /\ pc = "init" => op = "init"

\* Together: the job, from the descriptors to the pixels that are stored.
DataInv ==
  /\ DriverInv
  /\ ~Lost /\ ~Ruined => TransferInv
  /\ Lost => LostInv

\* When a call returns without an error (hw_impl.c:152-154), each pixel of the
\* destination buffer is one that this call has stored, and the one that the
\* software scaler would have stored there.

ResultComplete == pc = "check" /\ op # "init" /\ status = 0 => Scaled

\* The places of the processor at which no transfer may be going on.
Outside == {"init", "check", "idle", "next", "size", "registers", "descriptors", "flags", "exit"}

\* While the processor changes registers, descriptors or completion flags
\* (hw_impl.c:113-143), or is back in its caller, which frees the buffers, no
\* engine reads or writes memory and no interrupt is pending.
QuietOutsideTransfer ==
  pc \in Outside => \A e \in Engines : ~Busy(e) /\ ~dma[e].irq

\* The driver never finds an engine busy (status 4 and 5, hw_impl.c:146-147):
\* the wait for both completions has seen to it.
NeverBusy == status \notin {4, 5}

\* The transmit engine has no word for the accelerator beyond the frame that
\* the registers announce (acc_scale.vhd:155).
NoWordPastFrame == pc # "undefined" => Len(sent) <= registers.width * registers.height

\* The engines read inside the part of the image that is to be scaled and write
\* inside the destination buffer, whatever parts came before.  This does not hold of
\* a part that goes backwards: its lines are far longer than the image
\* (hw_impl.c:124).
TransfersInBounds ==
  Sized =>
    /\ dma["tx"].left > 0 =>
         /\ dma["tx"].pos[1] \in job.y .. job.y + job.height - 1
         /\ dma["tx"].pos[2] \in job.x .. job.x + job.width - dma["tx"].left
    /\ dma["rx"].left > 0 =>
         /\ dma["rx"].pos[1] \in 0 .. destinationHeight - 1
         /\ dma["rx"].pos[2] \in 0 .. destinationWidth - dma["rx"].left

\* The descriptors of a job and its two stop descriptors fit in the pool, of
\* which one descriptor may be lost to alignment (hw_impl.c:80-84).
DescriptorsFit ==
  pc = "descriptors" => RxFirst + RxLines < PoolSize - (IF spare THEN 1 ELSE 0)

\* Each call of a scaler for a part with pixels comes back: neither engine waits
\* for the other, and no completion is missed.
CallReturns ==
  pc = "size" /\ job.width > 0 /\ job.height > 0 ~> pc \in {"check", "undefined"}

\* The wait for completion comes to an end, whatever part the caller names
\* (hw_impl.c:149-150, main.c:190).
WaitEnds == pc = "wait" ~> pc # "wait"

\* Where the caller is with respect to the scaler, and what it finds.
Phase ==
  CASE pc \in {"init", "idle", "exit", "undefined"} -> pc
    [] pc = "next"  -> "idle"
    [] pc = "check" -> IF op = "init" THEN "initialized" ELSE "returned"
    [] OTHER        -> "called"

Result ==
  IF pc \in {"check", "idle", "next", "undefined"} /\ op # "init" /\ Buffer # {} /\ Scaled
  THEN "scaled" ELSE "none"

Service == INSTANCE HwService WITH phase <- Phase, request <- job, result <- Result

\* The two scaler functions with all that runs beside them are a service that
\* serves one call after the other, errors, and what comes after errors,
\* included.
ImplementsService == Service!ServiceSpec

\* Descriptors are constructed in memory that was allocated for them
\* (hw_impl.c:80).
DescriptorsAllocated == pc = "descriptors" => mallocPtr = "pool"
=============================================================================
