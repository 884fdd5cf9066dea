----------------------------- MODULE Benchmark ------------------------------
(***************************************************************************)
(* The benchmark (benchmark_utils.c): it makes up test cases for an image, *)
(* runs the three scalers for each of them a few times, compares what they *)
(* leave in the destination buffer with the software scaler's image,       *)
(* measures the cycles that each of them takes, and writes the comparisons *)
(* and the times to a file.  The hardware scaler is the service that       *)
(* HwDriver implements.                                                    *)
(***************************************************************************)
EXTENDS HwService, Scaling, MachineInts, PerfCounter, Sequences

CONSTANTS
  BENCH_CASES, TEST_CASES, TEST_REPEATS,   \* At most as in the code.
  Sizes,                                   \* Of the image: [width, height].
  Durations                                \* The cycles that each of the scalers may take.

ASSUME BenchmarkAssumption ==
  /\ BENCH_CASES \in 1 .. 8 /\ TEST_CASES \in Nat /\ TEST_REPEATS \in Nat \ {0}
  /\ Sizes \subseteq [width : 1 .. IntLimit - 4, height : 1 .. IntLimit - 4]
  /\ Durations \in [1 .. 3 -> SUBSET Nat] /\ 0 .. 3 \subseteq Sections

VARIABLES
  pc,        \* Where runTests is.
  size,      \* Of the image.
  tests, ok, \* The test cases, as requests, and their results.
  times,     \* Their times, by whether they are those that were spent.
  images,    \* The image files, by whether they hold the test case's image.
  i, j,      \* The test case and the repeat.
  counter,   \* The performance counter.
  spent      \* History: the cycles that each scaler took in this repeat.

vars == <<service, pc, size, tests, ok, times, images, i, j, counter, spent>>

validScales == <<-4, -3, -2, -1, 1, 2, 3, 4>>

Cases   == 0 .. BENCH_CASES + TEST_CASES - 1
Results == 0 .. 3 * TEST_REPEATS - 1

\* What l + rand() % (h - l) may be.
RAND_INC_EXC(l, h) == l .. h - 1

\* Faulty: the start is not subtracted.
LengthsOfImage(start, n) == RAND_INC_EXC(1, n + 1)

\* How long a part of n pixels or lines may be from start on.
Lengths(start, n) == RAND_INC_EXC(1, n - start + 1)

WholeImage(n) ==
  [x |-> 0, y |-> 0, width |-> size.width, height |-> size.height,
   xScale |-> validScales[n + 1], yScale |-> validScales[n + 1]]

IsRandomPart(test) ==
  /\ test.x \in RAND_INC_EXC(0, size.width)
  /\ test.y \in RAND_INC_EXC(0, size.height)
  /\ test.width \in Lengths(test.x, size.width)
  /\ test.height \in Lengths(test.y, size.height)
  /\ \E a, b \in RAND_INC_EXC(0, BENCH_CASES) :
       test.xScale = validScales[a + 1] /\ test.yScale = validScales[b + 1]

\* Requests that generateTests may come up with, and a few beyond.
Candidates ==
  [x : 0 .. size.width, y : 0 .. size.height, width : 0 .. size.width + 1,
   height : 0 .. size.height + 1,
   xScale : {validScales[n] : n \in 1 .. BENCH_CASES},
   yScale : {validScales[n] : n \in 1 .. BENCH_CASES}]

\* A section that lasts d cycles.
Measured(c, n, d) == PERF_END(Elapse(PERF_BEGIN(c, n), d), n)

\* resizeImage for the command before has measured the scalers and reported.
AfterReport(c) == perf_print_formatted_report(Measured(PERF_START_MEASURING(PERF_RESET(c)), 1, 1))

\* main has started the counter, or a command before has stopped it; reading it
\* for the seed stops it.
Init ==
  /\ ServiceInit
  /\ pc = "start"
  /\ size \in Sizes
  /\ tests = <<>>
  /\ ok = [n \in Cases |-> [k \in Results |-> "uninitialized"]]
  /\ times = ok
  /\ images = [n \in Cases |-> "none"]
  /\ i = 0 /\ j = 0
  /\ \E d \in Durations[1] :
       LET running == Elapse(PERF_START_MEASURING(ResetState), d)
       IN  counter \in {perf_get_total_time(running).counter,
                        perf_get_total_time(AfterReport(running)).counter}
  /\ spent = [n \in 1 .. 3 |-> 0]

\* generateTests, one test case a step.
GenerateTest ==
  /\ pc = "start" /\ phase = "idle"
  /\ Len(tests) < BENCH_CASES + TEST_CASES
  /\ IF Len(tests) < BENCH_CASES
     THEN tests' = Append(tests, WholeImage(Len(tests)))
     ELSE \E test \in {c \in Candidates : IsRandomPart(c)} : tests' = Append(tests, test)
  /\ UNCHANGED <<service, pc, size, ok, times, images, i, j, counter, spent>>

\* Faulty: the second factor of 4 is left out.
OneSideEnlarged == Wrap(4 * size.width * size.height + (BENCH_CASES + TEST_CASES))

\* As an int: the size of a large image overflows.
destinationSize == Wrap(4 * size.width * 4 * size.height + (BENCH_CASES + TEST_CASES))

\* The two buffers, unless their size is negative; without them there is nothing to
\* write but what is there.
Allocate ==
  /\ pc = "start" /\ phase = "idle"
  /\ Len(tests) = BENCH_CASES + TEST_CASES
  /\ pc' \in {"software", "write"}
  /\ pc' = "software" => destinationSize >= 0
  /\ UNCHANGED <<service, size, tests, ok, times, images, i, j, counter, spent>>

test == tests[i + 1]

\* The pixels of a scaled part.
ScaledSize(t) == DestLen(AxisOf(t.xScale), t.width) * DestLen(AxisOf(t.yScale), t.height)

Overruns == ScaledSize(test) > destinationSize

\* scaleSW writes beyond a buffer that is too small.
SoftwareOverruns ==
  /\ pc = "software"
  /\ Overruns
  /\ pc' = "undefined"
  /\ UNCHANGED <<service, size, tests, ok, times, images, i, j, counter, spent>>

\* verify: whether the destination buffer holds the image of this test case.
Verdict == IF result = "scaled" /\ request = test THEN "equal" ELSE "different"

\* Faulty: the comparison before any hardware scaler has run counts.
VerdictAlways(idx) == Verdict

\* Before the hardware has run for the first time there is nothing to compare.
FirstVerdict(idx) == IF j = 0 /\ idx = 0 THEN "equal" ELSE Verdict

submitResult(idx) == ok' = [ok EXCEPT ![i][j * 3 + idx] = FirstVerdict(idx)]

\* scaleSW, measured, and its result.  The comparison takes its time.
Software ==
  /\ pc = "software"
  /\ ~Overruns
  /\ \E d \in Durations[1] :
       /\ counter' = Elapse(Measured(PERF_START_MEASURING(PERF_RESET(counter)), 1, d), 1)
       /\ spent' = [n \in 1 .. 3 |-> IF n = 1 THEN d + 1 ELSE 0]
  /\ submitResult(0)
  /\ pc' = "hardware"
  /\ UNCHANGED <<service, size, tests, times, images, i, j>>

CallScaler ==
  /\ pc \in {"hardware", "codesign"}
  /\ Call
  /\ request' = test
  /\ pc' = IF pc = "hardware" THEN "checkHW" ELSE "checkHSCD"
  /\ counter' = PERF_BEGIN(counter, IF pc = "hardware" THEN 2 ELSE 3)
  /\ UNCHANGED <<size, tests, ok, times, images, i, j, spent>>

\* writeResult: the image file of the test case, if it can be written.
writeResult == images' = [images EXCEPT ![i] = Verdict]

\* The next repeat, or the next test case.
GoOn ==
  IF j + 1 < TEST_REPEATS THEN i' = i /\ j' = j + 1 /\ pc' = "software" /\ UNCHANGED images
  ELSE /\ writeResult
       /\ i' = i + 1 /\ j' = 0 /\ pc' = IF i + 1 \in Cases THEN "software" ELSE "write"

\* Faulty: the repeat is tried again.
RetryRepeat ==
  /\ pc \in {"checkHW", "checkHSCD"} /\ phase = "idle"
  /\ status # 0
  /\ pc' = "software"
  /\ UNCHANGED <<service, size, tests, ok, times, images, i, j, counter, spent>>

\* checkHW has found an error: the rest of the repeat is left out.
SkipRepeat ==
  /\ pc \in {"checkHW", "checkHSCD"} /\ phase = "idle"
  /\ status # 0
  /\ GoOn
  /\ UNCHANGED <<service, size, tests, ok, times, counter, spent>>

SubmitHW ==
  /\ pc = "checkHW" /\ phase = "idle"
  /\ status = 0
  /\ submitResult(1)
  /\ counter' = Elapse(counter, 1)
  /\ pc' = "codesign"
  /\ UNCHANGED <<service, size, tests, times, images, i, j, spent>>

\* submitTimes: the sections are read one after the other.
submitTimes ==
  LET first  == perf_get_section_time(Elapse(counter, 1), 1)
      second == perf_get_section_time(first.counter, 2)
      third  == perf_get_section_time(second.counter, 3)
      Judge(time, n) == IF time = spent[n] THEN "spent" ELSE "wrong"
  IN  /\ times' = [times EXCEPT ![i][j * 3]     = Judge(first.time, 1),
                                ![i][j * 3 + 1] = Judge(second.time, 2),
                                ![i][j * 3 + 2] = Judge(third.time, 3)]
      /\ counter' = third.counter

SubmitHSCD ==
  /\ pc = "checkHSCD" /\ phase = "idle"
  /\ status = 0
  /\ submitResult(2)
  /\ submitTimes
  /\ GoOn
  /\ UNCHANGED <<service, size, tests, spent>>

\* The buffers are freed and writeResults writes ok and times.
WriteResults ==
  /\ pc = "write"
  /\ Release
  /\ pc' = "ended"
  /\ UNCHANGED <<size, tests, ok, times, images, i, j, counter, spent>>

\* The scaler that was called and the check after it.  The section ends when
\* the scaler returns.
Server ==
  /\ Serve
  /\ LET n == IF pc = "checkHW" THEN 2 ELSE 3
     IN  IF phase = "called" /\ phase' = "returned"
         THEN \E d \in Durations[n] :
                /\ counter' = PERF_END(Elapse(counter, d), n)
                /\ spent' = [spent EXCEPT ![n] = d + 1]
         ELSE UNCHANGED <<counter, spent>>
  /\ UNCHANGED <<pc, size, tests, ok, times, images, i, j>>

Run == GenerateTest \/ Allocate \/ SoftwareOverruns \/ Software \/ CallScaler \/ SkipRepeat \/ SubmitHW
       \/ SubmitHSCD \/ WriteResults

Stopped == (pc \in {"ended", "undefined"} \/ phase \in {"exit", "undefined"}) /\ UNCHANGED vars

Next == Run \/ Server \/ Stopped

Spec == Init /\ [][Next]_vars

FairSpec == Spec /\ WF_vars(Run) /\ WF_vars(Server)
-----------------------------------------------------------------------------
TypeOK ==
  /\ pc \in {"start", "software", "hardware", "checkHW", "codesign", "checkHSCD", "write", "ended",
             "undefined"}
  /\ size \in Sizes
  /\ tests \in Seq([x : Nat, y : Nat, width : Nat, height : Nat,
                    xScale : (-4 .. 4) \ {0}, yScale : (-4 .. 4) \ {0}])
  /\ ok \in [Cases -> [Results -> {"uninitialized", "equal", "different"}]]
  /\ times \in [Cases -> [Results -> {"uninitialized", "spent", "wrong"}]]
  /\ images \in [Cases -> {"none", "equal", "different"}]
  /\ i \in Nat /\ j \in 0 .. TEST_REPEATS - 1
  /\ counter \in Registers
  /\ spent \in [1 .. 3 -> Nat]

\* The largest scaled image, and the bytes added to it, are an int.
SmallImage == 16 * size.width * size.height + BENCH_CASES + TEST_CASES < IntLimit

\* Whatever test cases are made up, the variables stay within their types, every
\* part that may be scaled has pixels and lies in the image, and its scaled image fits
\* in the buffer that all test cases share as long as the size of that is an int
\* (benchmark_utils.c:65-70, 152).
TestsFit ==
  /\ TypeOK
  /\ \A n \in DOMAIN tests :
       LET t == tests[n] IN
       /\ t.width >= 1 /\ t.x + t.width <= size.width
       /\ t.height >= 1 /\ t.y + t.height <= size.height
       /\ SmallImage => ScaledSize(t) <= destinationSize
  /\ phase = "called" => request = test

\* As long as the hardware reports no error no comparison finds a difference and
\* each image file holds its own test case's image, and all of them are written in
\* the end (benchmark_utils.c:75-86, 223): no buffer is looked at that was not
\* filled yet, or was filled for another test case.
AllMatch ==
  status = 0 =>
    \A n \in Cases :
      /\ images[n] # "different"
      /\ \A k \in Results : ok[n][k] # "different"
      /\ pc = "ended" /\ i = BENCH_CASES + TEST_CASES =>
           images[n] = "equal" /\ \A k \in Results : ok[n][k] = "equal"

\* A time that is written is the time of that scaler in that repeat, without the
\* comparisons after it, the scalers beside it and the repeats before, also when
\* one of these was given up after an error with the counter running; and times
\* are written of a repeat only together with its three comparisons
\* (benchmark_utils.c:88-93, 171-217).
TimesRight ==
  \A n \in Cases : \A k \in Results :
    /\ times[n][k] # "wrong"
    /\ times[n][k] = "spent" => \A l \in 0 .. 2 : ok[n][(k \div 3) * 3 + l] # "uninitialized"

Corrupted == pc = "undefined" /\ ~SmallImage

\* The benchmark comes to an end whatever test cases it made up, unless it has
\* written beyond a buffer whose size has overflowed.
BenchmarkEnds == pc = "software" ~> pc = "ended" \/ phase = "undefined" \/ Corrupted
=============================================================================
