# Verification of the image scaling accelerator

A TLA+ development kept beside the repository: an image scaling accelerator in
VHDL (`hdl/`), a Nios II program (`software/DVSProjApp/`) that drives it through
two scatter-gather DMA engines and compares its results with a software scaler,
and the board support package the program is linked with
(`software/DVSProjApp_bsp/`). Paths below are relative to `src/`.

## 1. The system

Source memory -> transmit engine (m2s) -> accelerator -> receive engine (s2m) ->
destination memory. The processor programs the accelerator's two registers,
builds one descriptor for each line of either image, starts both engines and
spins until both completion interrupts have come. It reads its commands from a
JTAG UART, its images from the files of the host that the debugger runs on, and
takes its times from a performance counter.

| Part | State it keeps | Operations | Modelled in |
|---|---|---|---|
| Accelerator, `hdl/acc_scale.vhd` | control and size registers, two image counters, one line of pixels | register write, take a word, give a word, end-of-frame reset, hardware reset | `AccScale` |
| Image counter, `hdl/image_counter.vhd` | pixel and row, with their repetition counters | advance by one pixel of the (scaled) image | `ImageCounter` |
| Line buffer, `hdl/line_buffer.vhd` | one source line | write at the stream pixel, read at the output pixel | `AccScale` |
| Software scaler, `sw_impl.c` | none; fills the destination buffer | `scaleSW`, `scaleLineSW` | `SwScale` |
| Hardware driver, `hw_impl.c` | `HWContext`: status, engine handles, descriptor pool, completion flags | `initHW`, `scaleHW`, `scaleHSCD`, `checkHW`, `cleanupHW`, `txCallback`, `rxCallback` | `HwDriver` |
| SGDMA driver, `altera_avalon_sgdma.c` | per device: callback, control bits | construct descriptors, blocking and unblocking transfer, start, stop, interrupt handler | `HwDriver`, `Sgdma` |
| SGDMA engines, `system_sgdma_{m2s,s2m}.v` | run, busy, chain completed, interrupt, descriptors fetched ahead | fetch a descriptor, move data, write back, end of chain | `HwDriver`, `Sgdma` |
| Application, `main.c` | one `Command` and its three images | parse, load, prepare, resize, save, clean up | `ScalerApp` |
| Benchmark, `benchmark_utils.c` | 58 test cases with their results | generate, run, measure, verify, write | `Benchmark` |
| Performance counter, `system_perf_cnt.v` and its driver | cycles and starts of each section | reset, begin, end, read, report | `PerfCounter` |
| JTAG UART driver, `altera_avalon_jtag_uart_*.c` | two rings of characters, interrupt mask, whether the host is there | read, write, close, ioctl, interrupt routine, alarm routine | `JtagUart` |
| HAL file layer, `HAL/src/alt_open.c` and its neighbours | table of descriptors, lists of devices and file systems | redirect the standard streams, open, close, read, write, lseek, fstat, isatty, fcntl, ioctl, lock | `HalFiles` |
| Host file system, `altera_hostfs.c` | one handle of the host for each open file | open, close, read, write, seek, stat | `HalFiles` |
| Interrupts and alarms, `alt_iic_isr_register.c`, `alt_irq_handler.c`, `alt_tick.c`, `alt_alarm_start.c` | interrupt enables, routines, list of alarms, tick counter | register, enable, disable, dispatch, start, stop, tick | `Interrupts`, `Alarms` |

Who talks to whom: `main.c` and `benchmark_utils.c` call `scaleHW`, `scaleHSCD`
and `checkHW` and share one `HWContext`; `hw_impl.c` writes the accelerator's
registers, writes descriptors to memory that the engines read, and shares
`txDone` and `rxDone` with the interrupt handlers; the engines exchange words
with the accelerator by ready/valid handshakes. The C library reaches the UART
and the host's files through the table of descriptors. The UART's driver shares
its rings and its interrupt mask with its own interrupt routine, and a flag with
an alarm; every driver registers its routine with the interrupt functions.

What is hard:
* reader and writer of the accelerator share one line of memory and synchronise
  only by comparing counters, for 64 combinations of direction and factor;
* the counters go back to zero by themselves at the end of a frame, although
  downscaling jumps past the end and upscaling stays behind it;
* processor, interrupt handlers, two engines and two streams run concurrently
  on descriptors, flags and buffers that nothing locks;
* the pool of descriptors is used again without clearing, and an engine fetches
  descriptors before it has processed the ones before them;
* the error status is never reset, while the pool is freed at each error;
* user input goes through int arithmetic that may overflow, and sizes are
  rounded in four places that have to agree (software scaler, hardware counters,
  `scaleHSCD`, buffer size);
* the range check looks at where a part starts and where it ends, so that a part
  may go backwards, and a negative width becomes the `alt_u16` length of a descriptor;
* what loads is decided by a product of ints, and what may be scaled by its factors;
* calls and interrupt routines change the same words by load and store: the
  UART's mask, the enabled lines, the control register of an engine;
* functions that disable interrupts call each other, also inside of routines;
* the tick counter and the time of an alarm wrap independently;
* an open may fail after it has taken a descriptor or a handle of the host;
* a repeat of the benchmark is given up with a counter running.

`PROJECT.json` lists the hazards line by line with the property that would catch
each one.

## 2. Modules

```
 Scaling ------ ImageCounter
   |  \   \         |
   |   \   \     AccScale  ==implements==>  ScalerSpec
   |    \   SwScale                            :  (taken as the accelerator)
   |     \                                     :
   |      HwDriver  ==implements==>  HwService
   |       (Sgdma)                    /     \
   +---------------------------- ScalerApp  Benchmark --- PerfCounter

 JtagUart  ==implements==>  Console        Alarms --- Interrupts
 HalFiles  ==implements==>  FileTable
```

* **`Scaling`** - geometry of one axis: `SrcOf` (which source position a
  destination position shows), `DestLen` (how many there are), `AxisAt` (the
  relation between a source position, its repetition and a destination
  position), raster order. Everything is compared with these definitions.
  `DestSide` is the side as the program computes it, with C's division, which for a
  length that is not negative is the same.
* **`MachineInts`** - the int of the program, from `-IntLimit` to `IntLimit - 1`, with
  wrapping.
* **`ImageCounter`** - the counter as a function of its inputs. `pixel` and `row`
  are taken modulo `CountMod` (2^16 in the source), repetitions modulo 8.
* **`AccScale`** - the accelerator. One step is one rising clock edge with any
  value of `asi_valid` and `aso_ready`; signal names are those of the source. A
  word carries its frame number and source position in place of a grey level,
  so that a stale or displaced word is told from the right one. `tx` and `rx`
  are what the engines have transferred and serve as history. `Start`, `Finish`
  and the guards of the register writes are what `hw_impl.c` does with the
  device. `cnt_reset` is combinational and clears its own cause: a step ends
  when it has settled.
* **`ScalerSpec`** - what a streaming scaler promises: words are taken and given
  in raster order, each word given is the one that `SrcOf` names, and it has
  been taken before.
* **`SwScale`** - the software scaler, a step for each iteration of the loop of
  `scaleLineSW` and for the `memcpy` calls at the end of a line. The fall-through
  `switch` statements are the sets `PlacesOfPixel` and `CopiesOfLine`.
* **`HwDriver`** - `hw_impl.c` statement group by statement group (`pc`), with the
  SGDMA driver functions inlined where they are called, the two engines, their
  interrupts and the accelerator beside it. `scaleHW` and `scaleHSCD` share the
  actions and differ in the order of registers and descriptors, in `SkipsLines`
  and in what follows from it. The descriptor pool is one array as in the code,
  so that an engine that runs past its stop descriptor meets what earlier jobs
  left there. The accelerator is `ScalerSpec`'s behaviour with the end-of-frame
  rule of the code (`Advance`). `destination` holds what this call has stored;
  it is cleared at each call so that an earlier image cannot pass for a new one.
  A job may have negative sides, as `prepareCommand` lets them through: the loops over
  its lines go round `Count` times, a length is what is left of an int in an `alt_u16`
  (`AsLength`, modulo `LengthMod`), and a negative width runs over into the height of
  the size register (`HeightFields`: the exact bits are left open between the least and the
  most that an OR can give). A word that is received beyond the destination
  buffer makes the rest undefined.
* **`HwService`** - the promise of the hardware scaler to its callers, with errors
  and what comes after errors. Of a part with a negative side it promises only that
  it is refused, writes beyond its buffer or does not come back.
* **`ScalerApp`** - `main.c` over that service. `heap` counts the images on the heap by
  purpose, `pointer` is what the command knows of them; their sizes are those
  the program has computed, overflow included. `scaleSW` writes beyond a buffer
  that is too small for the scaled part (`ScaleSWOverruns`), after which nothing
  more is said.
* **`Benchmark`** - `benchmark_utils.c` over the same service, with the counter
  that measures it. `PerfCounter` is the peripheral and its driver as functions
  of the record of its registers, an access being a cycle; a counter has two
  halves modulo `HalfMod` (2^32). A time is recorded with the repeat and test
  case it was measured in. The size of the buffers is an int (`destinationSize`).
* **`Sgdma`** - the SGDMA driver and one engine, down to single accesses to
  registers and descriptors: what `HwDriver` takes as one step. A call is the
  sequence of its accesses and `code` what is left of it; the engine's handler
  may come between any two, and the user's callback in it may start a transfer
  itself. The engine fetches up to `FifoDepth` descriptors ahead. `transfer` is
  history: what of the chain has been processed.
* **`JtagUart`** - the driver behind the standard streams. A call takes a
  statement a step; between two statements the interrupt routine may run, which
  goes to its end while the hardware's FIFOs and the host move on. `rxIn`,
  `rxOut`, `txIn`, `txOut` and the rings are those of the driver's state. Each
  character has a number. The host behind the cable is external: it may come and
  go at any time.
* **`Console`** - what it promises: two streams of characters that lose, double
  and reorder nothing. The mapping joins ring and FIFO.
* **`HalFiles`** - start up and the calls on files. A call is one step, because
  one thread calls and no interrupt routine uses the table. `t` holds
  `alt_fd_list`, `alt_max_fd` and the host's open handles; an open fails at any
  step where it can, and a call that reaches a file records which. The console's
  close fails when it must not block, and its ioctl without a system clock.
* **`FileTable`** - what it promises: the least free descriptor, standard streams
  that stay, failed calls that change nothing, and a descriptor that leads to
  the file it was opened on.
* **`Interrupts`**, **`Alarms`** - a function is the sequence of instructions
  that access something shared, `code` what is left of it, `program` the
  interrupted rest. The routines and callbacks call the same functions as the
  program. `Alarms` has the list of alarms, pointer by pointer, and the
  arithmetic of the ticks. `asked` and `wait` are history: which lines should be
  enabled, and how many ticks each alarm has still to wait.
* **`MC*`** - instances for TLC. **`ScalingProofs`** (both scalers),
  **`HwDriverProofs`**, **`ScalerAppProofs`**, **`BenchmarkProofs`**,
  **`HalFilesProofs`**, **`JtagUartProofs`**, **`InterruptsProofs`**,
  **`SgdmaProofs`** - the theorems.

Definitions marked "Faulty" are variants that no specification uses. Each stands
for a plausible mistake in the definition that it precedes and is known to violate
the property that `PROJECT.json` pairs it with: they document that the property
depends on that part of the code.

## 3. What TLC checks

| Run | Question | Bounds |
|---|---|---|
| `accelerator` | offered words, deadlock, inductive invariant, nothing of one frame in the next, early restarts, refinement of `ScalerSpec`, every frame completes | all 64 settings, images up to 4x5, two frames with register writes in between or not, 4-bit counters, resets at any time |
| `software` | the software scaler fills exactly its buffer with the scaled image | all 64 pairs of factors, parts up to 5x5 at a nonzero offset |
| `driver` | result, memory touched, pool size, words past the frame, inductive invariant of control and data, each call returns, refinement of `HwService` | two jobs of any pair of shapes: sizes 1..3 by 1..3 with every remainder of -3 and -2, upscaling by 2 and 4 up to the full pool, too wide and too high, sides of zero or -2, one or both, failed opens and allocations; `BUFFER_SIZE` 3, lengths modulo 16 |
| `app` | part inside the image, buffer sizes, leaks, what is saved, each command ends | 6-bit ints, starts and ends at every boundary and at both ends of int, parts of -2 at the end of a line or column of four, image sizes that overflow to zero and to a negative number and enlarged ones that do, broken files, failing allocations, `BUFFER_SIZE` 2 |
| `benchmark` | parts and buffer fit, comparisons and measured times are those of their test case, the benchmark ends | 8 whole image cases and one of any random part, 2 repeats, images 2x2 and 3x1, and 3x3 and 5x1 whose buffer sizes overflow to 5 bytes and to a negative number (`IntLimit` 74), 4-bit counters that wrap, scalers that take 6, 1 or 4, and 3 cycles |
| `jtag` | no character lost or overtaken, no interrupt left masked, no call waits for ever | rings of 3, FIFOs of 2, 2 characters typed, 2 calls of up to 3 characters, with a clock or without, every timeout, host that comes and goes |
| `hal` | table of descriptors, host's handles, locks, refinement of `FileTable` | 5 descriptors, 2 handles of the host, names of both devices, of two files and of nothing, calls without a limit |
| `interrupts` | alarms on time, list of alarms, dispatch, every line served | the clock and a line before it, 2 routines, 2 alarms, ticks modulo 4, calls without a limit, nested as deep as the code nests them and once more |
| `sgdma` | told only when the transfer is whole, nothing repointed while it runs, each transfer answered | 2 arrays of the program and 1 of the callback with 4 descriptors, chains of 1 or 3 in them, FIFO of 2, PARK or not, transfers without a limit |
| `driver_hang`, `driver_descriptors`, `sgdma_overlap` | findings, section 5 | |

Why the bounds are enough. The accelerator compares positions that differ by at most
one line and one factor: widths and heights past the largest factor repeat the same
comparisons, and every remainder of every factor occurs (the proofs remove the bound
altogether). Counters are small but, as in the source, wide enough that no position
of an allowed image wraps. For the driver, the pool is 20 descriptors, computed as
in the code, so jobs reach its limit (3 source lines upscaled by 4, and two stop
descriptors); what a call leaves behind, in the pool and in the status, is met by
the next one. A side of -2 is scaled to one that is negative or zero, and as a
length it is 14, modulo 16, longer than any line here, as 65534 is in the program.
In the application nothing survives a command but the service's status and pool. A
line of four pixels is the least in which a part of -2 that is typed in ends inside,
since -1 stands for nothing typed in, and with 6-bit ints its size enlarged by four
times four overflows to zero. An image of 8x8, whose own size overflows to zero, has
too many benchmark calls for TLC: with that image and one command alone TLC finds
`BuffersHoldImages` violated (section 5). The benchmark's buffers, results and
counter pass from one test case and one repeat to the next, both with a successor
here. A ring of 3 is empty, full and wrapped, with a call longer than its room, and
a FIFO is filled by one call together with the next. The table of files has two
descriptors to give beside the standard three, so that one is given again while
another of the same device is open. With three ticks to a wrap, alarms are started
on either side of it, and in the tick that wraps. A chain of three descriptors is
longer than the FIFO, and a shorter one built over it leaves old descriptors behind
its end.

`CHECK_DEADLOCK` is off only for `SwScale`, which returns. Programs that have
ended, wait in a loop or have corrupted their heap have explicit stuttering
steps.

### Fairness

* `AccScale`: the transmit engine offers words while its chain has any, the
  receive engine has room sooner or later, and the driver finishes a frame that
  is complete. Nothing is assumed of register writes, new frames or resets.
* `HwDriver`: the processor executes, interrupts are served (they are enabled
  throughout the wait), the engines and the accelerator are clocked and memory
  answers. New calls are not assumed.
* `ScalerApp` and `Benchmark`: the program executes and the service answers when it
  can. A command whose part is empty or goes backwards may stay in its scaler
  (`EmptyCall`), and nothing is promised of memory that is corrupted by a size that
  overflowed, by an earlier error, or by a part that goes backwards; an overflow of
  this kind is possible only in commands that `SizesAreInts` excludes, which is what
  `BufferMatchesPart` says. `ScalerApp` needs strong fairness for the end of the
  benchmark, whose number of cases is fixed and which `Benchmark` shows to end.
* `JtagUart`: a call in progress goes on, the interrupt routine runs when its
  interrupt is pending, the alarm rings if there is a clock, and a host that is
  there polls the UART and takes what it holds, which is an assumption about the
  host. It need not type anything, nor be there: `CallsReturn` promises the end
  of a write to a host that has gone only where the driver can find that out,
  with a clock and a timeout.
* `Interrupts`: the processor executes. Nothing is assumed of the program's calls
  or of the devices.
* `Sgdma`: processor and engine go on. `HalFiles` has no liveness property.

### Timing assumptions

The transmit engine signals the end of its chain when the last pixel is in its
FIFO of 256 words, not when the accelerator has taken it. When scaling down, the
last source words matter to nothing but the counters, so a call may return with
words left in the FIFO. They are taken at one word a clock cycle. The next
register write, which resets the counters, comes after the return from the
interrupt, two stop calls, the check and the set up of the next call.
`WriteRegisters` assumes that the words are gone by then (`sent = <<>>`). Without
this the two streams could be a word out of step, which the code does nothing
to exclude.

In `Sgdma`, CHAIN_COMPLETED is set in the cycle after BUSY falls and no access of
the processor comes between. The words of a descriptor are read at once.

## 4. What is proved

For all values of the constants, by TLAPS:

* `ScalingProofs`, the accelerator: `TypeCorrect`, `OffersCorrect` (every word
  offered is the one due), `DeadlockFree`, `EndsClean`, `RestartsCorrect` and
  `Implements` (`AccScale` implements `ScalerSpec`), all from `InvariantHolds`; and
  `CountersAgree`, that the inductive invariant `ScalerInv` itself holds. The
  software scaler: `StaysInBuffer` and `ScalingCorrect`. Both rest on
  lemmas about an axis: what the relation `AxisAt` means for `SrcOf`
  (`AxisMeaning`), when an axis is at its end, and how long a position is repeated.
  Both together: `ScalersAgree`, that each word the accelerator offers is the
  pixel that the software scaler has left at its place, which is what
  the program's `verify` compares.
* `HwDriverProofs`: `TypeCorrect`, `EnginesFree` (`NeverBusy`), `Quiet`
  (`QuietOutsideTransfer`) and `PoolSuffices` (`DescriptorsFit`), all from
  `DriverInvHolds`; and about the data `ResultIsComplete` (`ResultComplete`),
  `FrameNotExceeded` (`NoWordPastFrame`), `TransfersStayInside`
  (`TransfersInBounds`) and `Serves` (`HwDriver` implements `HwService`), all from
  `DataInvHolds`.
* `HalFilesProofs`: `TableSound` (`TableInv`), `LocksHold` (`LockedStaysClosed`)
  and `Implements` (`HalFiles` implements `FileTable`).
* `JtagUartProofs`: `WakeupsKept` (`NoLostWakeup`) and `Implements` (`JtagUart`
  implements `Console`).
* `ScalerAppProofs`: `PartStaysInside`, `HeapSound` (`ImagesOnHeap`),
  `SavesOwnImage` (`SavesScaledImage`) and `BuffersSuffice` (`BufferMatchesPart`).
* `BenchmarkProofs`: `TestsSound` (`TestsFit`), `ComparesRight` (`AllMatch`) and
  `MeasuresRight` (`TimesRight`).
* `InterruptsProofs`: `ListWhole` (`ListIntact`), `DispatchIsSound`
  (`DispatchSound`) and `PunctualHolds` (`Punctual`), all from `InvariantHolds`.
* `SgdmaProofs`: `ToldCorrectly` (`ToldWhenWhole`) and `PointedWhenIdle`
  (`StartsOnlyWhenIdle`), both from `SgdmaInvariantHolds`.

Assumptions: `SizeAssumption` (a width fits the line buffer, and the counters reach
past an image by four without wrapping: `BUFFER_SIZE` against 16 bits),
`CountModAssumption`, `RegionsAssumption`, `DriverAssumption` (any positive
`BUFFER_SIZE`, any jobs with the factors that the parser lets through, of sides of
any sign, and a length type that goes beyond four times `BUFFER_SIZE`),
`IntAssumption` (ints of any width), `ScalerAppAssumption` (any commands and files
whose numbers are ints), `BenchmarkAssumption` (any images with pixels and sides at
least four below the largest int, up to eight cases of the whole image, any number
of others and of repeats, any durations), `PerfCounterAssumption`, `HalAssumption`
(any devices, files and names, any size of the table and of the host's),
`JtagAssumption` (any buffer with two places or more, any FIFO and a threshold below
its depth, any number of calls of any length, any timeout), `AlarmsAssumption` (any
finite number of alarms, a tick counter of any width but none),
`InterruptsAssumption` (any finite number of lines, any routines) and
`SgdmaAssumption` (any descriptor arrays of any size, any chains that leave the
place behind their last descriptor, which the code writes to, and FIFOs of any
depth). Some theorems take one more, in their statement: `MeasuresRight` that no
scaler takes longer than a counter can count (`Short`: 2^64 cycles), and those about
`Sgdma` that the program leaves the engine alone while a callback may start
transfers (`~Overlap`): without it they are false, as the run `sgdma_overlap` shows.
The program here meets it, because its callbacks start nothing. Three invariants say
themselves where they hold: `TransfersInBounds` for jobs without a negative side
(section 5), `BufferMatchesPart` where the sizes are ints (`SizesAreInts`), and
`TestsFit` bounds the scaled image where the size of the buffer is one
(`SmallImage`).

The accelerator's argument. None of the properties is inductive: that a word on
offer is right depends on what the line buffer holds, which depends on where the
writer was allowed to go. `ScalerInv` says, within a frame: the stream counter is
where the transmit engine is (`WriterAtTx`); the output counter stands for the
receive position on both axes (`ReaderAtRx`); the writer is at most in the line
after the reader's, there only behind a reader that goes over its line for
the last time (`WriterInReach`); the buffer holds the writer's line up to the
writer and the line before from there on (`BufferHoldsLines`). A clock edge is
split into the writer's move, the reader's move and the end of frame; the
reader's move uses that stepping a counter keeps `AxisAt` with the next
destination position, at the end of a line for both axes. Offered words are
right because a reader that may read is inside what the buffer holds; reader and
writer do not wait for each other because the two guards cover all relative
positions; the frame ends at the right step because `AxisAt` makes the row
counter pass the height exactly when the destination height is reached.

The software scaler's argument. `ScaleInv` relates source and destination loop
counters by `AxisAt` and says that pixels before them are final; the end of a
loop is `DestLen` by the lemma on the end of an axis, which is why the rounded
up size of `prepareCommand` is exactly enough.

The driver's argument. That the engines are at rest outside a transfer follows
from the wait for both completions, and that needs more than the flags: a
completion may be counted only for the transfer that is going on. `DriverInv`
says, by the place of the processor, which engine is started (`Started`); that a
started engine has interrupted, or been counted, at most once and only when it
was complete, hence not busy (`EngineInv`); that the flags are zero until their
engine starts (`FlagsInv`); that nothing is transferred without the size check
(`JobInv`); and that each chain ends at a stop descriptor which its engine has not
passed (`ChainInv`), which keeps the index of each engine in the pool. An old
interrupt that set a flag of the next call, or one flag taken for both, breaks
it. `PoolSuffices` is arithmetic on rounded up lengths: at most `BUFFER_SIZE`
lines to transmit and four times as many to receive, two stop descriptors and
one lost to alignment.

The driver's data. `DataInv` adds to `DriverInv` what the chains say and where the
words are. The descriptors of the job lie one behind the other and each names the
line of the image that is its place in the chain (`DescriptorsInv`); with the
engine's index this gives the position each engine stands at, as a function of what
it has transferred. Between the engines, what is in the stream are the words of the
source from the accelerator's position on, in order; they may belong to a frame that
is over, when the accelerator has skipped the lines that nothing of the destination
shows. What has been received is the scaled image up to the receive engine's
position, and nothing else. So when both chains are complete the destination is the
whole scaled image; no engine moves a word outside the lines it was given; and the
accelerator never starts on a second frame while words of the first are on offer,
which is where the end-of-frame rule of the code is needed. A part with a negative
side has an invariant of its own (`LostInv`): its engines have the lengths that the
conversion leaves, nothing is stored, and the receive engine has no line or waits in
the middle of one, so that the wait never ends unless a word is written beyond the
buffer (`Ruined`). The refinement maps the place of the processor to the phase of
the service (`Phase`) and the destination to its result (`Result`): all steps
between a call and its return are stutters.

The file layer's argument. Every call is one of three: it leaves the table
and the host's handles alike, it adds one descriptor, or it removes one. An open
that fails behind the point where it took a descriptor is alike, because the clean
up gives back what was taken, on every path. `TableInv` says that a descriptor in
use leads to a device or to a handle of the host that is open (`HostInv`,
`DeviceInv`), that none in use lies above `alt_max_fd` (`MaxInv`), and what start up
has done so far (`BootInv`). That an open takes the least free descriptor needs
that a set of numbers has a least member, which is proved from the
well-foundedness of `<`. For locks, the table above `alt_max_fd` matters: the
code's search ends one before it, and `LockedStaysClosed` is what survives
that.

The UART's argument. Interrupt routine and calls share two rings without a lock, and
each clears bits of a mask that the other sets. `RoutineInv` says what brought the routine
where it is: it reads the FIFO only when there was something in it, so when it
masks the receive interrupt the ring is full, hence not empty, and a call will
come to enable it again; and the free places it has counted in the transmit
FIFO stay free, because meanwhile the host only takes. `ReadInv` and
`WriteInv` say that what a call has seen of the other side's index stays a
safe estimate: the piece it copies out is in the ring until it moves its own
index, however much the routine adds, and the room it copies into stays free.
`Wakeups` needs all of them. For `Implements` the rings are sequences
(`RingIs`): a writer that goes on lengthens a ring by the piece (`RingGrows`), a
reader shortens it at the other end (`RingShrinks`), and writing outside of it
does not show (`RingSame`). The console's input is FIFO and ring together, so moving a
character from the one to the other is a stutter, and so is a copy; the
program has taken a piece when the index moves.

The interrupts' argument. A function may be interrupted anywhere outside of the
part that it protects, by a handler whose routines and callbacks call the same
functions, and a function may be called with interrupts disabled already. What
makes this tractable is that `code` always has the same shape (`Left`): the rest of a
function, then as many `EnableAll` as `contexts` has values, then what the
handler has still to do (`Endings`), which is nothing in the program. `HalInv`
says so for each place of each function (`At`), and what holds there: the list is a ring of
the alarms that run, but for the alarm that is being put in or taken out
(`ListBut`); every line has its routine with its own context, but for the line
in hand (`TableBut`); interrupts are enabled exactly outside of all
protected parts of the program, and of the saved contexts only the outermost says
so (`MaskInv`); and what the interrupted program has left begins a function
or is empty (`ProgramInv`), since the handler may have changed list and table
since. In a tick the alarms still to be visited are the end of the list
(`EndOfList`): a callback may put an alarm in front and take the visited one
out, and what is ahead stays the end. Those ahead have the wait of the tick
before (`Unvisited`), the others their new one (`Visited`), in both cases with the
flag that says whether time and counter are on different sides of the wrap, which is
what makes `Due` mean that the wait is over. That the list stays a ring when an
entry is taken out, with nothing left apart (`RingBypassed`), and that the end of
the list is empty exactly at `AlarmList` (`NoPartAlone`) are facts about any ring.

The SGDMA driver's argument. Nothing about the engine holds by itself: that it
stops where its chain ends depends on a bit that the construction of the
chain has cleared before, in a descriptor that an older chain may have used, and
that nobody has set again. `EngineInv` says of an engine that runs that it has
processed the first descriptors of its chain, that those after them are in its
queue in order, that the others are still the hardware's, and that the one behind the
last is not (`RunningInv`); of one that does not run, that its chain is whole. So the
engine cannot fetch past the end however deep its FIFO is, and the last
descriptor is the last to be given back, which is why looking at it tells
the truth about all of them. `CodeInv` says where the processor is. `code`
is always the rest of one call from its access k on (`Left`), with the handler's
return behind it when the callback has made the call; `AtPrepare`,
`AtTransfer`, `AtWait` and `AtStartOrStop` say what holds before the access k of each: how
much of the chain is ready and that every other chain has its end
(`Bounded`), and from which access on BUSY, RUN and the end of the last chain
are known to be clear (`StartInv`), although they are read at different times and the
interrupt may come in between. For an interrupted call the same must hold when it goes on
(`Handling`). That is the crux, in two parts: what the engine does alone keeps every
such claim (`EngineSteps`), and a handler whose callback starts a transfer
interrupts no call that has one in hand (`Alone`, which is where `~Overlap`
is needed). The handler clears the interrupt before the callback, at rest
(`InHandler`), so an interrupt that comes later belongs to the new transfer.

The application's argument. `main.c` adds two ints that were typed in, and an
overflow is what the type of the sum cannot exclude. `EndDoesNotWrap`: of two
numbers that have passed the checks before, a sum that overflows turns negative, and
`prepareCommand` rejects it; so a part that is scaled has the end that was meant
(`PartInv`), be it in front of its start or behind. `HeapInv` ties the count of
images on the heap to the pointers of the command at every place, also after each
step that fails, and `CallInv` ties the call that the service is working on to the
command that waits for it, so that "saved" can only be said of its own image. Sizes
are products and may overflow themselves; where the true ones are ints, those
computed are the same (`Wrap` leaves an int alone), and the scaled part has exactly
as many pixels as its buffer, so that `scaleSW` stays inside.

The benchmark's argument. `TimesRight` is about numbers that pass through a
peripheral which other repeats have used, some of them given up with a section
running. `TimeInv` says, by the place in the repeat, which section is blank,
running or over, and by how many cycles; `TimesInv` that what is recorded is the
sum of the cycles between begin and end, read as two halves. A reset at the
start of each repeat is what makes an abandoned section harmless. `MatchInv`
says which image the shared buffer holds at each comparison.

Every invariant and action property that a run checks, and all four refinements of
an abstract specification, are theorems. Only model-checked is liveness
(`FrameCompletes`, `CallReturns`, `CommandEnds`, `BenchmarkEnds`, `CallsReturn`,
`Served`, `Answered`): it needs fairness and ENABLED, which are out of the prover's
reach.

## 5. Findings

The first three are runs that TLC finds violated by what the code does.

1. `driver_descriptors`: `checkHW` frees the descriptor pool at an error, the
   program goes on, and the next call uses it (and frees it again at its
   check), although it was allocated once for all calls (`hw_impl.c:55`, `80`).
2. `driver_hang`: "Check that range is inside the bounds of image" (`main.c:190`)
   looks at the start and the end of the range only, and lets parts of no width or
   no height through, and parts that go backwards: width -2 at x = 3 of an image 4
   wide ends at 1. "Wait for completion" (`hw_impl.c:149`) never ends for them: an
   empty chain raises no interrupt, and a receive descriptor of length zero waits
   for an end of packet. A negative width is worse. Each transmit descriptor takes
   it for an `alt_u16` length of 65534 (`hw_impl.c:124`) and the engine reads that
   many bytes, outside of the part and of the image, and what the accelerator makes
   of them may be stored behind the destination buffer. `TransfersInBounds` without
   its premise `Sized` shows it.
3. `sgdma_overlap`: "If the SGDMA controller is busy at the time of this call, the
   routine will immediately return -EBUSY" (`altera_avalon_sgdma.c:64`, spelling
   corrected), but BUSY is read with interrupts enabled, and a callback that
   starts a transfer after the read has it stopped and repointed. The program's
   own callbacks start nothing, so it is not exposed to this.

Seen while modelling, where the models do what the code does:
* "Calculate image size and allocate memory" (`main.c:153`): the product may wrap. A
  header of 65536 times 65536 has size 0 and loads, the range check looks at the
  sides only, and the scalers read behind the buffer. The size of the destination
  buffers may wrap by itself (`main.c:198`), and `scaleSW` then writes behind its
  own. `BuffersHoldImages` is what the comments say, and `BufferMatchesPart` claims
  it where no size overflows;
* "Calculate maximum image size and add one byte for each test case"
  (`benchmark_utils.c:151`) wraps for the same image, to 58 bytes: `TestsFit` bounds
  the scaled images where it does not (`SmallImage`);
* the status of `HWContext` is set by an image that is too large and never
  reset; later images that fit are scaled, then reported with "Invalid image
  size for hardware scaling" (`hw_impl.c:49`, `104`);
* after a hardware error, or when a buffer cannot be allocated, results that were
  never submitted are written (`benchmark_utils.c:199`, `211`, `215`, `245`);
* when only the second buffer of the benchmark cannot be allocated the first is
  not freed (`benchmark_utils.c:159`), and the search for the extension of a file
  name has no lower bound (`benchmark_utils.c:140`);
* the search for other descriptors of a locked device ends one before the highest
  descriptor ever used (`alt_fd_lock.c:61`), where the comment at 43-45 promises
  all of them: `LockedStaysClosed` states what holds;
* the blocking transfer announces to "Disable interrupt generation"
  (`altera_avalon_sgdma.c:203`) and leaves the interrupt enables as they are:
  after a callback has been registered, it is called for blocking transfers too;
* an alarm callback that stops the alarm after its own in the list makes
  `alt_tick` loop (`alt_tick.c:102`), and an alarm asked for in 2^32-1 ticks rings
  at the next one (`alt_alarm_start.c:82`): both are left out of what programs do here;
* `alt_fstat` and `alt_ioctl` return a negative error without setting `errno`,
  and `alt_isatty` looks at a mode that a failed `fstat` has not filled in.

## 6. What is not modelled

* What memory holds beyond a buffer. After a write beyond one nothing is said of the
  program; a read beyond the source, for a part that goes backwards or behind a size
  that has overflowed, gives arbitrary pixels and harms nothing else. The software
  scaler is modelled for parts with pixels: of others it writes none, but for copies of
  a negative length (`Overruns`).
* Products in `HwDriver` do not overflow: of the jobs that are not refused, only
  those with a negative side of more than a quarter of the largest int would, and of
  these the service promises nothing that an overflow could break, but for a chain
  of descriptors longer than the pool.
* The settling of the asynchronous counter reset (`acc_scale.vhd:154`) and
  timing in general: below register transfer level.
* Inside the engines: bursts, wait states, error modes and descriptor polling,
  which this configuration does not use; in the SGDMA driver the functions that
  set up polling.
* The generated interconnect, processor and memory controller: memory is
  coherent (no data cache is configured) and serves every master.
* The rest of the HAL and the C library: `sbrk`, time of day, exceptions other
  than interrupts, boot copy, caches, process calls that only return an error,
  profiling (`alt_gmon.c`) and logging (`alt_log_printf.c`, `alt_log_printf.h`),
  which the build leaves out. `alt_irq_interruptible`, which nothing calls. The
  build names no system clock, so its alarms never ring and the UART's timeout
  is infinite; `Interrupts` and `JtagUart` cover the configurations with a
  clock too, as the sources do.
* Text parsing, file names, the data that reads and writes of files carry, the
  wording of reports; `imshow.py`; board and build files.

The map covers about a fifth of the lines of the implementation. The
implementation itself, `hdl/` and `DVSProjApp/`, is covered nearly in full. Most of
what is left is in the board support package: the licence and comment blocks that
open each of its files, macros of register offsets (`system.h`, `nios2.h`),
alternative variants of drivers that are not compiled, and the parts listed
above. None of it holds behaviour that the program depends on and that is not
modelled here.

## 7. Plan

Done: the accelerator, the software scaler, the driver with its engines, the
service, application and benchmark; the SGDMA driver access by access, the
performance counter, the UART, the file layer, interrupts and alarms; the proofs
about the accelerator, the software scaler and their agreement, the driver's control
and data and its refinement of the service, the application, the benchmark, the file
layer, the UART with its refinement of two streams, interrupts and alarms, and the
SGDMA driver with its engine.

What is left:
1. `AccScale` and the accelerator inside `HwDriver` shown to be the same abstract
   scaler, and the driver's steps shown to be sequences of `Sgdma`'s, which
   closes the gaps between the levels.
2. The transmit FIFO with its depth, to replace the timing assumption by a bound
   on the words that may be left.
