-------------------------- MODULE BenchmarkProofs --------------------------
(***************************************************************************)
(* The benchmark: its test cases fit the image, and the buffers as long as *)
(* their size is an int, what it compares belongs together, and the times  *)
(* that it writes are those that were spent, for any number of test cases  *)
(* and repeats.                                                            *)
(***************************************************************************)
EXTENDS Benchmark, TLAPS

-----------------------------------------------------------------------------
(* The performance counter.                                                *)

CounterMod == HalfMod * HalfMod

\* The modulus of a counter is positive.
LEMMA ModPositive == CounterMod \in Nat /\ CounterMod > 1
<1>1. HalfMod \in Nat /\ HalfMod >= 2
  BY PerfCounterAssumption
<1>2. HalfMod * HalfMod >= 2 * HalfMod
  BY <1>1
<1>. QED  BY <1>1, <1>2 DEF CounterMod

\* Counting stays in the register, and does not wrap below the modulus.
LEMMA CountedType ==
  ASSUME NEW c \in Registers, NEW n \in Sections, NEW d \in Nat
  PROVE  /\ Counted(c, n, d) \in Nat
         /\ c.time[n] + d < CounterMod => Counted(c, n, d) = c.time[n] + d
<1>1. c.time[n] \in Nat
  BY DEF Registers
<1>2. Counted(c, n, d) = (c.time[n] + d) % CounterMod
  BY DEF Counted, CounterMod
<1>. QED  BY <1>1, <1>2, ModPositive

\* What d cycles do to one section.
LEMMA Elapsed ==
  ASSUME NEW c \in Registers, NEW d \in Nat
  PROVE  /\ Elapse(c, d) \in Registers
         /\ Elapse(c, d).enabled = c.enabled
         /\ \A n \in Sections : Elapse(c, d).time[n] =
              IF c.enabled[0] /\ c.enabled[n] THEN Counted(c, n, d) ELSE c.time[n]
<1>1. \A n \in Sections : Counted(c, n, d) \in Nat
  BY CountedType
<1>2. CASE ~c.enabled[0]
  BY <1>2 DEF Elapse
<1>3. CASE c.enabled[0]
  <2>. DEFINE time == [n \in Sections |-> IF c.enabled[n] THEN Counted(c, n, d) ELSE c.time[n]]
  <2>1. time \in [Sections -> Nat]
    BY <1>1 DEF Registers
  <2>2. Elapse(c, d) = [c EXCEPT !.time = time]
    BY <1>3 DEF Elapse
  <2>3. Elapse(c, d).time = time /\ Elapse(c, d).enabled = c.enabled
    BY <2>2 DEF Registers
  <2>4. Elapse(c, d) \in Registers
    BY <2>1, <2>2 DEF Registers
  <2>. QED  BY <1>3, <2>3, <2>4
<1>. QED  BY <1>2, <1>3

\* What a write does to one section, when it is not a reset.
LEMMA Written ==
  ASSUME NEW c \in Registers, NEW address \in Nat
  PROVE  /\ IOWR(c, address, 0) \in Registers
         /\ \A n \in Sections :
              /\ IOWR(c, address, 0).enabled[n]
                   <=> (address # 4 * n /\ (address = 4 * n + 1 \/ c.enabled[n]))
              /\ IOWR(c, address, 0).time[n] =
                   IF c.enabled[n] /\ (c.enabled[0] \/ address = 1)
                   THEN Counted(c, n, 1) ELSE c.time[n]
<1>. DEFINE go     == {n \in Sections : address = 4 * n + 1}
            stop   == {n \in Sections : address = 4 * n}
            enable == c.enabled[0] \/ 0 \in go
            time   == [n \in Sections |-> IF c.enabled[n] /\ enable THEN Counted(c, n, 1)
                                          ELSE c.time[n]]
            events == [n \in Sections |-> IF n \in go /\ enable THEN c.events[n] + 1
                                          ELSE c.events[n]]
            enabled == [n \in Sections |-> n \notin stop /\ (n \in go \/ c.enabled[n])]
<1>1. Sections \subseteq 0 .. 7 /\ 0 \in Sections
  BY PerfCounterAssumption
<1>2. 0 % 2 # 1 /\ (0 \in go <=> address = 1)
  BY <1>1
<1>3. IOWR(c, address, 0) = [time |-> time, events |-> events, enabled |-> enabled]
  BY <1>2 DEF IOWR
<1>4. \A n \in Sections : Counted(c, n, 1) \in Nat
  BY CountedType
<1>5. /\ time \in [Sections -> Nat] /\ events \in [Sections -> Nat]
      /\ enabled \in [Sections -> BOOLEAN]
  BY <1>4 DEF Registers
<1>6. ASSUME NEW n \in Sections
      PROVE  /\ enabled[n] <=> (address # 4 * n /\ (address = 4 * n + 1 \/ c.enabled[n]))
             /\ time[n] = IF c.enabled[n] /\ (c.enabled[0] \/ address = 1)
                          THEN Counted(c, n, 1) ELSE c.time[n]
  BY <1>2
<1>. HIDE DEF time, events, enabled
<1>7. IOWR(c, address, 0) \in Registers
  BY <1>3, <1>5 DEF Registers
<1>. QED  BY <1>3, <1>6, <1>7

\* A reset.
LEMMA ResetGives == ASSUME NEW c PROVE PERF_RESET(c) = ResetState /\ ResetState \in Registers
<1>1. 0 \in {n \in Sections : 0 = 4 * n}
  BY PerfCounterAssumption
<1>2. 1 % 2 = 1
  OBVIOUS
<1>3. PERF_RESET(c) = ResetState
  BY <1>1, <1>2 DEF PERF_RESET, IOWR
<1>. QED  BY <1>3 DEF ResetState, Registers

\* The two halves of a counter make up its value.
LEMMA Halves ==
  ASSUME NEW n \in Nat, NEW m \in Nat, m > 0 PROVE (n \div m) * m + (n % m) = n
OBVIOUS

\* Reading a section that is not running gives its time and leaves it and every other
\* such section as it is.
LEMMA SectionRead ==
  ASSUME NEW c \in Registers, NEW n \in Sections
  PROVE  /\ perf_get_section_time(c, n).counter \in Registers
         /\ ~c.enabled[n] => perf_get_section_time(c, n).time = c.time[n]
         /\ \A k \in Sections : ~c.enabled[k] =>
              /\ ~perf_get_section_time(c, n).counter.enabled[k]
              /\ perf_get_section_time(c, n).counter.time[k] = c.time[k]
<1>. DEFINE stopped == PERF_STOP_MEASURING(c)
<1>1. /\ stopped \in Registers
      /\ \A k \in Sections : ~c.enabled[k] => ~stopped.enabled[k] /\ stopped.time[k] = c.time[k]
  <2>1. stopped = IOWR(c, 0, 0)
    BY DEF PERF_STOP_MEASURING, PERF_END
  <2>2. Sections \subseteq 0 .. 7 /\ 0 \in Nat
    BY PerfCounterAssumption
  <2>3. \A k \in Sections : 0 # 4 * k + 1
    BY <2>2
  <2>4. PICK address \in Nat : address = 0
    OBVIOUS
  <2>5. stopped = IOWR(c, address, 0)
    BY <2>1, <2>4
  <2>. DEFINE r == IOWR(c, address, 0)
  <2>6. /\ r \in Registers
        /\ \A k \in Sections :
             /\ r.enabled[k] <=> (address # 4 * k /\ (address = 4 * k + 1 \/ c.enabled[k]))
             /\ r.time[k] = IF c.enabled[k] /\ (c.enabled[0] \/ address = 1)
                           THEN Counted(c, k, 1) ELSE c.time[k]
    BY Written
  <2>. HIDE DEF r
  <2>7. \A k \in Sections : address # 4 * k + 1
    BY <2>3, <2>4
  <2>8. ASSUME NEW k \in Sections, ~c.enabled[k]
        PROVE  ~r.enabled[k] /\ r.time[k] = c.time[k]
    BY <2>6, <2>7, <2>8
  <2>. QED  BY <2>5, <2>6, <2>8 DEF r
<1>. HIDE DEF stopped
<1>2. /\ Elapse(stopped, 1) \in Registers /\ Elapse(stopped, 2) \in Registers
      /\ \A k \in Sections : ~c.enabled[k] =>
           /\ Elapse(stopped, 1).time[k] = c.time[k]
           /\ Elapse(stopped, 2).time[k] = c.time[k] /\ ~Elapse(stopped, 2).enabled[k]
  BY <1>1, Elapsed
<1>3. perf_get_section_time(c, n) =
        [counter |-> Elapse(stopped, 2),
         time |-> (Elapse(stopped, 1).time[n] \div HalfMod) * HalfMod + (stopped.time[n] % HalfMod)]
  BY DEF perf_get_section_time, stopped
<1>4. ASSUME ~c.enabled[n] PROVE perf_get_section_time(c, n).time = c.time[n]
  <2>1. perf_get_section_time(c, n).time = (c.time[n] \div HalfMod) * HalfMod + (c.time[n] % HalfMod)
    BY <1>1, <1>2, <1>3, <1>4
  <2>2. c.time[n] \in Nat /\ HalfMod \in Nat /\ HalfMod > 1
    BY PerfCounterAssumption DEF Registers
  <2>3. (c.time[n] \div HalfMod) * HalfMod + (c.time[n] % HalfMod) = c.time[n]
    BY <2>2, Halves
  <2>. QED  BY <2>1, <2>3
<1>. QED  BY <1>2, <1>3, <1>4

\* Sections 1 to 3 are there.
LEMMA TheSections == 0 .. 3 \subseteq Sections /\ Sections \subseteq 0 .. 7
BY BenchmarkAssumption, PerfCounterAssumption

\* The sections of c that are not running are the same in d.
KeepsOthers(c, d, n) ==
  \A k \in 1 .. 3 : k # n /\ ~c.enabled[k] => ~d.enabled[k] /\ d.time[k] = c.time[k]

\* PERF_BEGIN starts one section.
LEMMA Begun ==
  ASSUME NEW c \in Registers, NEW n \in 1 .. 3
  PROVE  /\ PERF_BEGIN(c, n) \in Registers
         /\ PERF_BEGIN(c, n).enabled[n]
         /\ ~c.enabled[n] => PERF_BEGIN(c, n).time[n] = c.time[n]
         /\ c.enabled[0] => PERF_BEGIN(c, n).enabled[0]
         /\ KeepsOthers(c, PERF_BEGIN(c, n), n)
<1>. DEFINE address == 4 * n + 1
            r == IOWR(c, address, 0)
<1>1. n \in Sections /\ 0 \in Sections /\ \A k \in 1 .. 3 : k \in Sections
  BY TheSections
<1>2. /\ address \in Nat /\ address # 1 /\ address # 4 * 0
      /\ \A k \in 1 .. 3 : address # 4 * k /\ (address = 4 * k + 1 <=> k = n)
  OBVIOUS
<1>. HIDE DEF address
<1>3. /\ r \in Registers
      /\ \A k \in Sections :
           /\ r.enabled[k] <=> (address # 4 * k /\ (address = 4 * k + 1 \/ c.enabled[k]))
           /\ r.time[k] = IF c.enabled[k] /\ (c.enabled[0] \/ address = 1)
                          THEN Counted(c, k, 1) ELSE c.time[k]
  BY <1>2, Written
<1>. HIDE DEF r
<1>4. r.enabled[n] /\ (~c.enabled[n] => r.time[n] = c.time[n])
  BY <1>1, <1>2, <1>3
<1>5. c.enabled[0] => r.enabled[0]
  BY <1>1, <1>2, <1>3
<1>6. KeepsOthers(c, r, n)
  BY <1>1, <1>2, <1>3 DEF KeepsOthers
<1>7. PERF_BEGIN(c, n) = r
  BY DEF PERF_BEGIN, r, address
<1>. QED  BY <1>3, <1>4, <1>5, <1>6, <1>7

\* PERF_END d cycles later stops it, and counts its own cycle.
LEMMA Ended ==
  ASSUME NEW c \in Registers, NEW n \in 1 .. 3, NEW d \in Nat
  PROVE  /\ PERF_END(Elapse(c, d), n) \in Registers
         /\ ~PERF_END(Elapse(c, d), n).enabled[n]
         /\ c.enabled[0] => PERF_END(Elapse(c, d), n).enabled[0]
         /\ c.enabled[0] /\ c.enabled[n] /\ c.time[n] + d + 1 < CounterMod =>
              PERF_END(Elapse(c, d), n).time[n] = c.time[n] + d + 1
         /\ KeepsOthers(c, PERF_END(Elapse(c, d), n), n)
<1>. DEFINE address == 4 * n
            e == Elapse(c, d)
            r == IOWR(e, address, 0)
<1>1. n \in Sections /\ 0 \in Sections /\ \A k \in 1 .. 3 : k \in Sections
  BY TheSections
<1>2. /\ address \in Nat /\ address # 1 /\ address # 4 * 0
      /\ \A k \in 1 .. 3 : address # 4 * k + 1 /\ (address = 4 * k <=> k = n)
  OBVIOUS
<1>3. /\ e \in Registers /\ e.enabled = c.enabled
      /\ \A k \in Sections : e.time[k] =
           IF c.enabled[0] /\ c.enabled[k] THEN Counted(c, k, d) ELSE c.time[k]
  BY Elapsed
<1>. HIDE DEF address, e
<1>4. /\ r \in Registers
      /\ \A k \in Sections :
           /\ r.enabled[k] <=> (address # 4 * k /\ (address = 4 * k + 1 \/ e.enabled[k]))
           /\ r.time[k] = IF e.enabled[k] /\ (e.enabled[0] \/ address = 1)
                          THEN Counted(e, k, 1) ELSE e.time[k]
  BY <1>2, <1>3, Written
<1>. HIDE DEF r
<1>5. ~r.enabled[n] /\ (c.enabled[0] => r.enabled[0])
  BY <1>1, <1>2, <1>3, <1>4
<1>6. KeepsOthers(c, r, n)
  BY <1>1, <1>2, <1>3, <1>4 DEF KeepsOthers
<1>7. ASSUME c.enabled[0], c.enabled[n], c.time[n] + d + 1 < CounterMod
      PROVE  r.time[n] = c.time[n] + d + 1
  <2>1. c.time[n] \in Nat /\ CounterMod \in Nat
    BY <1>1, ModPositive DEF Registers
  <2>2. c.time[n] + d < CounterMod
    BY <1>7, <2>1
  <2>3. e.time[n] = Counted(c, n, d) /\ Counted(c, n, d) = c.time[n] + d
    BY <1>1, <1>3, <1>7, <2>2, CountedType
  <2>4. Counted(e, n, 1) = e.time[n] + 1
    <3>1. e.time[n] + 1 < CounterMod
      BY <1>7, <2>1, <2>3
    <3>2. 1 \in Nat
      OBVIOUS
    <3>. QED  BY <1>1, <1>3, <3>1, <3>2, CountedType
  <2>5. r.time[n] = Counted(e, n, 1)
    BY <1>1, <1>3, <1>4, <1>7
  <2>. QED  BY <2>1, <2>3, <2>4, <2>5
<1>8. PERF_END(e, n) = r
  BY DEF PERF_END, r, address
<1>. QED  BY <1>4, <1>5, <1>6, <1>7, <1>8 DEF e

\* The software scaler's section after a reset, and a cycle after it.
LEMMA SoftwareMeasured ==
  ASSUME NEW c, NEW d \in Nat,
         NEW r, r = Elapse(Measured(PERF_START_MEASURING(PERF_RESET(c)), 1, d), 1)
  PROVE  /\ r \in Registers
         /\ r.enabled[0] /\ ~r.enabled[1] /\ ~r.enabled[2] /\ ~r.enabled[3]
         /\ d + 1 < CounterMod => r.time[1] = d + 1
         /\ r.time[2] = 0 /\ r.time[3] = 0
<1>. DEFINE a == PERF_START_MEASURING(ResetState)
            b == PERF_BEGIN(a, 1)
            e == PERF_END(Elapse(b, d), 1)
<1>1. PERF_RESET(c) = ResetState /\ ResetState \in Registers
  BY ResetGives
<1>2. /\ a \in Registers /\ a.enabled[0]
      /\ \A k \in 1 .. 3 : ~a.enabled[k] /\ a.time[k] = 0
  <2>1. a = IOWR(ResetState, 1, 0)
    BY DEF PERF_START_MEASURING, PERF_BEGIN
  <2>2. 1 \in Nat /\ \A k \in 1 .. 3 : k \in Sections
    BY TheSections
  <2>3. 0 \in Sections /\ 1 # 4 * 0 /\ 1 = 4 * 0 + 1
    BY TheSections
  <2>4. \A k \in 1 .. 3 : ~ResetState.enabled[k] /\ ResetState.time[k] = 0 /\ 1 # 4 * k + 1
    BY <2>2 DEF ResetState
  <2>. HIDE DEF a
  <2>5. /\ a \in Registers
        /\ \A k \in Sections :
             /\ a.enabled[k] <=> (1 # 4 * k /\ (1 = 4 * k + 1 \/ ResetState.enabled[k]))
             /\ a.time[k] = IF ResetState.enabled[k] /\ (ResetState.enabled[0] \/ 1 = 1)
                           THEN Counted(ResetState, k, 1) ELSE ResetState.time[k]
    BY <1>1, <2>1, <2>2, Written
  <2>6. a.enabled[0]
    BY <2>3, <2>5
  <2>. QED  BY <2>2, <2>4, <2>5, <2>6
<1>. HIDE DEF a
<1>3. /\ b \in Registers /\ b.enabled[0] /\ b.enabled[1] /\ b.time[1] = 0
      /\ ~b.enabled[2] /\ b.time[2] = 0 /\ ~b.enabled[3] /\ b.time[3] = 0
  BY <1>2, Begun DEF KeepsOthers
<1>. HIDE DEF b
<1>4. /\ e \in Registers /\ e.enabled[0] /\ ~e.enabled[1]
      /\ d + 1 < CounterMod => e.time[1] = d + 1
      /\ ~e.enabled[2] /\ e.time[2] = 0 /\ ~e.enabled[3] /\ e.time[3] = 0
  <2>1. /\ e \in Registers /\ ~e.enabled[1]
        /\ b.enabled[0] => e.enabled[0]
        /\ b.enabled[0] /\ b.enabled[1] /\ b.time[1] + d + 1 < CounterMod =>
             e.time[1] = b.time[1] + d + 1
        /\ KeepsOthers(b, e, 1)
    <3>1. PICK n \in 1 .. 3 : n = 1
      OBVIOUS
    <3>2. e = PERF_END(Elapse(b, d), n) /\ b \in Registers
      BY <1>3, <3>1
    <3>. HIDE DEF e
    <3>3. /\ e \in Registers /\ ~e.enabled[n]
          /\ b.enabled[0] => e.enabled[0]
          /\ b.enabled[0] /\ b.enabled[n] /\ b.time[n] + d + 1 < CounterMod =>
               e.time[n] = b.time[n] + d + 1
          /\ KeepsOthers(b, e, n)
      BY <3>2, Ended
    <3>. QED  BY <3>1, <3>3
  <2>2. \A k \in {2, 3} : k \in 1 .. 3 /\ k # 1
    OBVIOUS
  <2>3. 0 + d + 1 = d + 1
    OBVIOUS
  <2>. HIDE DEF e
  <2>4. ~e.enabled[2] /\ e.time[2] = 0 /\ ~e.enabled[3] /\ e.time[3] = 0
    BY <1>3, <2>1, <2>2 DEF KeepsOthers
  <2>. QED  BY <1>3, <2>1, <2>3, <2>4
<1>. HIDE DEF e
<1>5. r = Elapse(e, 1)
  BY <1>1 DEF Measured, e, b, a
<1>6. /\ r \in Registers /\ r.enabled = e.enabled
      /\ \A k \in Sections : ~e.enabled[k] => r.time[k] = e.time[k]
  <2>1. PICK n \in Nat : n = 1
    OBVIOUS
  <2>2. r = Elapse(e, n) /\ e \in Registers
    BY <1>4, <1>5, <2>1
  <2>. DEFINE f == Elapse(e, n)
  <2>3. /\ f \in Registers /\ f.enabled = e.enabled
        /\ \A k \in Sections : f.time[k] =
             IF e.enabled[0] /\ e.enabled[k] THEN Counted(e, k, n) ELSE e.time[k]
    BY <2>2, Elapsed
  <2>. HIDE DEF f
  <2>4. r = f
    BY <2>2 DEF f
  <2>. QED  BY <2>3, <2>4
<1>. QED  BY <1>4, <1>6, TheSections

-----------------------------------------------------------------------------
(* Types, test cases and control.                                          *)

Loop == {"software", "hardware", "checkHW", "codesign", "checkHSCD"}

\* What TestsFit says of the part that a test case scales.
Fits(t) ==
  /\ t.width >= 1 /\ t.x + t.width <= size.width
  /\ t.height >= 1 /\ t.y + t.height <= size.height

Scales == (-4 .. 4) \ {0}

Tests == [x : Nat, y : Nat, width : Nat, height : Nat, xScale : Scales, yScale : Scales]

\* Before the loop nothing has been called or submitted; a hardware scaler is called
\* only where its check waits for it, with the test case at hand.
ControlInv ==
  /\ pc = "start" =>
       /\ i = 0 /\ j = 0 /\ phase \in {"init", "initialized", "idle", "exit", "undefined"}
       /\ \A n \in Cases : /\ images[n] = "none"
                           /\ \A k \in Results : /\ ok[n][k] = "uninitialized"
                                                 /\ times[n][k] = "uninitialized"
  /\ pc \in Loop => i \in Cases
  /\ pc \in {"software", "hardware", "codesign", "write", "ended", "undefined"} => phase = "idle"
  /\ pc \in {"checkHW", "checkHSCD"} =>
       phase \in {"called", "returned", "idle", "undefined"} /\ request = test

BaseInv ==
  /\ TypeOK
  /\ \A n \in DOMAIN tests : Fits(tests[n])
  /\ ControlInv

\* A line of n pixels is at most four times as long when it is scaled.
LEMMA ScaledLength ==
  ASSUME NEW scale \in Scales, NEW n \in Nat, NEW m \in Nat, 1 <= n, n <= m
  PROVE  DestLen(AxisOf(scale), n) \in 0 .. 4 * m
<1>1. CASE scale > 0
  <2>1. scale = 1 \/ scale = 2 \/ scale = 3 \/ scale = 4
    BY <1>1 DEF Scales
  <2>. QED  BY <1>1, <2>1 DEF DestLen, AxisOf
<1>2. CASE ~(scale > 0)
  <2>1. scale = -1 \/ scale = -2 \/ scale = -3 \/ scale = -4
    BY <1>2 DEF Scales
  <2>. QED  BY <1>2, <2>1 DEF DestLen, AxisOf
<1>. QED  BY <1>1, <1>2

\* Products of bounded factors are bounded.
LEMMA Area ==
  ASSUME NEW a \in Nat, NEW b \in Nat, NEW m \in Nat, NEW n \in Nat, a <= 4 * m, b <= 4 * n
  PROVE  a * b <= 4 * m * 4 * n
<1>1. a * b <= (4 * m) * b
  OBVIOUS
<1>2. (4 * m) * b <= (4 * m) * (4 * n)
  OBVIOUS
<1>3. (4 * m) * (4 * n) = 4 * m * 4 * n /\ a * b \in Nat /\ (4 * m) * b \in Nat
  OBVIOUS
<1>. QED  BY <1>1, <1>2, <1>3

\* The sides of an image are positive.
LEMMA Sides == ASSUME size \in Sizes PROVE size.width \in Nat \ {0} /\ size.height \in Nat \ {0}
BY BenchmarkAssumption, IntAssumption

\* A part of a small image with pixels fits in the buffer when it is scaled: the size
\* of the buffer does not overflow.
LEMMA PartFits ==
  ASSUME size \in Sizes, SmallImage, NEW t \in Tests, Fits(t)
  PROVE  ScaledSize(t) <= destinationSize
<1>. DEFINE w == DestLen(AxisOf(t.xScale), t.width)
            h == DestLen(AxisOf(t.yScale), t.height)
            extra == BENCH_CASES + TEST_CASES
            largest == 4 * size.width * 4 * size.height
<1>1. size.width \in Nat /\ size.height \in Nat
  BY Sides
<1>2. /\ t.width \in Nat /\ t.height \in Nat /\ t.x \in Nat /\ t.y \in Nat
      /\ t.xScale \in Scales /\ t.yScale \in Scales
  BY DEF Tests
<1>3. 1 <= t.width /\ t.width <= size.width /\ 1 <= t.height /\ t.height <= size.height
  BY <1>1, <1>2 DEF Fits
<1>4. w \in 0 .. 4 * size.width /\ h \in 0 .. 4 * size.height
  BY <1>1, <1>2, <1>3, ScaledLength
<1>5. w \in Nat /\ h \in Nat /\ w <= 4 * size.width /\ h <= 4 * size.height
  BY <1>1, <1>4
<1>. HIDE DEF w, h
<1>6. w * h <= largest /\ w * h \in Nat
  BY <1>1, <1>5, Area
<1>7. largest \in Nat /\ extra \in Nat /\ largest + extra < IntLimit
  <2>1. 4 * size.width * 4 * size.height = 16 * size.width * size.height
    BY <1>1
  <2>2. extra \in Nat
    BY BenchmarkAssumption
  <2>3. largest \in Nat
    BY <1>1
  <2>4. 16 * size.width * size.height + extra
          = 16 * size.width * size.height + BENCH_CASES + TEST_CASES
    BY <1>1, BenchmarkAssumption
  <2>. QED  BY <2>1, <2>2, <2>3, <2>4 DEF SmallImage
<1>8. destinationSize = Wrap(largest + extra)
  BY DEF destinationSize
<1>. HIDE DEF largest, extra
<1>9. Wrap(largest + extra) = largest + extra
  <2>1. /\ largest + extra + IntLimit \in 0 .. 2 * IntLimit - 1
        /\ IntLimit \in Nat /\ IntLimit > 0
    BY <1>7, IntAssumption
  <2>2. (largest + extra + IntLimit) % (2 * IntLimit) = largest + extra + IntLimit
    BY <2>1
  <2>. QED  BY <1>7, <2>1, <2>2 DEF Wrap
<1>. QED  BY <1>6, <1>7, <1>8, <1>9 DEF ScaledSize, w, h

\* The two functions of results are updated in one place.
LEMMA Update ==
  ASSUME NEW S, NEW f \in [Cases -> [Results -> S]], NEW a \in Cases, NEW b \in Results, NEW v \in S
  PROVE  /\ [f EXCEPT ![a][b] = v] \in [Cases -> [Results -> S]]
         /\ \A n \in Cases, k \in Results :
              [f EXCEPT ![a][b] = v][n][k] = IF n = a /\ k = b THEN v ELSE f[n][k]
OBVIOUS

\* The places of the three results of a repeat.
LEMMA Places ==
  ASSUME j \in 0 .. TEST_REPEATS - 1
  PROVE  j * 3 \in Results /\ j * 3 + 1 \in Results /\ j * 3 + 2 \in Results
BY BenchmarkAssumption DEF Results

\* The state of the counter at the start.
LEMMA InitCounter == Init => counter \in Registers
<1>. SUFFICES ASSUME Init PROVE counter \in Registers
  OBVIOUS
<1>1. PICK d \in Durations[1] :
        LET running == Elapse(PERF_START_MEASURING(ResetState), d)
        IN  counter \in {perf_get_total_time(running).counter,
                         perf_get_total_time(AfterReport(running)).counter}
  BY DEF Init
<1>2. d \in Nat
  BY BenchmarkAssumption
<1>3. \A c : PERF_RESET(c) = ResetState /\ ResetState \in Registers
  BY ResetGives
<1>4. 0 \in Sections /\ 1 \in Sections /\ 2 \in Sections /\ 3 \in Sections
  BY TheSections
<1>5. \A c \in Registers : /\ PERF_START_MEASURING(c) \in Registers
                           /\ PERF_STOP_MEASURING(c) \in Registers
                           /\ PERF_BEGIN(c, 1) \in Registers /\ PERF_END(c, 1) \in Registers
  <2>1. 4 * 0 \in Nat /\ 4 * 0 + 1 \in Nat /\ 4 * 1 \in Nat /\ 4 * 1 + 1 \in Nat
    OBVIOUS
  <2>. QED  BY <2>1, Written DEF PERF_START_MEASURING, PERF_STOP_MEASURING, PERF_BEGIN, PERF_END
<1>6. \A c \in Registers, n \in Sections : perf_get_section_time(c, n).counter \in Registers
  BY SectionRead
<1>7. \A c \in Registers : perf_get_total_time(c).counter \in Registers
  BY <1>4, <1>6 DEF perf_get_total_time
<1>8. \A c \in Registers, n \in Nat : Elapse(c, n) \in Registers
  BY Elapsed
<1>. DEFINE running == Elapse(PERF_START_MEASURING(ResetState), d)
<1>9. running \in Registers
  BY <1>2, <1>3, <1>5, <1>8
<1>10. AfterReport(running) \in Registers
  <2>1. \A c \in Registers : Elapse(c, 1) \in Registers
    BY <1>8
  <2>. DEFINE a == Measured(PERF_START_MEASURING(PERF_RESET(running)), 1, 1)
  <2>2. a \in Registers
    BY <1>3, <1>5, <2>1 DEF Measured
  <2>. HIDE DEF a
  <2>3. perf_print_formatted_report(a) \in Registers
    BY <1>4, <1>5, <1>6, <1>7, <2>1, <2>2 DEF perf_print_formatted_report
  <2>. QED  BY <2>3 DEF AfterReport, a
<1>. HIDE DEF running
<1>. QED  BY <1>1, <1>7, <1>9, <1>10 DEF running

\* At the start nothing is there.
LEMMA InitBase == Init => BaseInv
<1>. SUFFICES ASSUME Init PROVE BaseInv
  OBVIOUS
<1>1. counter \in Registers
  BY InitCounter
<1>2. tests \in Seq(Tests) /\ DOMAIN tests = {}
  BY DEF Init
<1>3. 0 \in 0 .. TEST_REPEATS - 1
  BY BenchmarkAssumption
<1>. QED
  BY <1>1, <1>2, <1>3 DEF Init, ServiceInit, BaseInv, TypeOK, ControlInv, Loop, Tests, Scales

\* Whole images and random parts fit.
LEMMA GenerateBase == BaseInv /\ GenerateTest => BaseInv'
<1>. SUFFICES ASSUME BaseInv, GenerateTest PROVE BaseInv'
  OBVIOUS
<1>1. /\ size \in Sizes /\ tests \in Seq(Tests) /\ phase = "idle" /\ pc = "start"
      /\ \A n \in DOMAIN tests : Fits(tests[n])
  BY DEF BaseInv, TypeOK, GenerateTest, Tests, Scales
<1>2. size.width \in Nat \ {0} /\ size.height \in Nat \ {0}
  BY <1>1, Sides
<1>3. \A n \in 1 .. BENCH_CASES : validScales[n] \in Scales
  <2>1. \A n \in 1 .. 8 : validScales[n] \in Scales
    BY DEF validScales, Scales
  <2>. QED  BY <2>1, BenchmarkAssumption
<1>4. PICK t \in Tests : Fits(t) /\ tests' = Append(tests, t)
  <2>1. CASE Len(tests) < BENCH_CASES
    <3>1. Len(tests) \in Nat /\ Len(tests) + 1 \in 1 .. BENCH_CASES
      BY <1>1, <2>1, BenchmarkAssumption
    <3>2. WholeImage(Len(tests)) \in Tests
      BY <1>2, <1>3, <3>1 DEF WholeImage, Tests
    <3>3. Fits(WholeImage(Len(tests)))
      BY <1>2 DEF WholeImage, Fits
    <3>. QED  BY <2>1, <3>2, <3>3 DEF GenerateTest
  <2>2. CASE ~(Len(tests) < BENCH_CASES)
    <3>1. PICK t \in Candidates : IsRandomPart(t) /\ tests' = Append(tests, t)
      BY <2>2 DEF GenerateTest
    <3>2. t \in Tests
      BY <1>2, <1>3 DEF Candidates, Tests
    <3>3. /\ t.width >= 1 /\ t.x + t.width <= size.width
          /\ t.height >= 1 /\ t.y + t.height <= size.height
      <4>1. t.x \in Nat /\ t.y \in Nat /\ t.width \in Nat /\ t.height \in Nat
        BY <3>2 DEF Tests
      <4>2. /\ t.width \in Lengths(t.x, size.width)
            /\ t.height \in Lengths(t.y, size.height)
        BY <3>1 DEF IsRandomPart
      <4>3. \A x, n \in Nat : \A w \in Lengths(x, n) : w >= 1 /\ x + w <= n
        BY DEF Lengths, RAND_INC_EXC
      <4>. QED  BY <1>2, <4>1, <4>2, <4>3
    <3>4. Fits(t)
      BY <3>3 DEF Fits
    <3>. QED  BY <3>1, <3>2, <3>4
  <2>. QED  BY <2>1, <2>2
<1>5. /\ tests' \in Seq(Tests)
      /\ \A n \in DOMAIN tests' : Fits(tests'[n])
  BY <1>1, <1>4
<1>6. UNCHANGED <<phase, pc, size, ok, times, images, i, j, counter, spent>>
  BY DEF GenerateTest, service
<1>7. TypeOK'
  BY <1>5, <1>6 DEF BaseInv, TypeOK, Tests, Scales
<1>8. (\A n \in DOMAIN tests : Fits(tests[n]))'
  BY <1>5, <1>6 DEF Fits
<1>9. ControlInv'
  BY <1>1, <1>6 DEF BaseInv, ControlInv, Loop
<1>. QED  BY <1>7, <1>8, <1>9 DEF BaseInv

\* No other step makes up test cases.
LEMMA TestsKept ==
  ASSUME BaseInv, UNCHANGED <<size, tests>>, TypeOK', ControlInv' PROVE BaseInv'
BY DEF BaseInv, Fits

\* Allocation, successful or not, leaves an empty table of results.
LEMMA AllocateBase == BaseInv /\ Allocate => BaseInv'
<1>. SUFFICES ASSUME BaseInv, Allocate PROVE BaseInv'
  OBVIOUS
<1>1. UNCHANGED <<service, size, tests, ok, times, images, i, j, counter, spent>>
  BY DEF Allocate
<1>2. TypeOK'
  BY <1>1 DEF Allocate, BaseInv, TypeOK
<1>3. 0 \in Cases
  BY BenchmarkAssumption DEF Cases
<1>4. ControlInv'
  BY <1>1, <1>3 DEF Allocate, BaseInv, ControlInv, Loop, service
<1>. QED  BY <1>1, <1>2, <1>4, TestsKept

\* Nothing is kept of a program that has written beyond its buffer.
LEMMA OverrunsBase == BaseInv /\ SoftwareOverruns => BaseInv'
<1>. SUFFICES ASSUME BaseInv, SoftwareOverruns PROVE BaseInv'
  OBVIOUS
<1>1. /\ UNCHANGED <<service, size, tests, ok, times, images, i, j, counter, spent>>
      /\ pc = "software" /\ pc' = "undefined"
  BY DEF SoftwareOverruns
<1>2. TypeOK' /\ ControlInv'
  BY <1>1 DEF BaseInv, TypeOK, ControlInv, Loop, service
<1>. QED  BY <1>1, <1>2, TestsKept

\* The software scaler.
LEMMA SoftwareBase == BaseInv /\ Software => BaseInv'
<1>. SUFFICES ASSUME BaseInv, Software PROVE BaseInv'
  OBVIOUS
<1>1. /\ UNCHANGED <<service, size, tests, times, images, i, j>>
      /\ pc = "software" /\ pc' = "hardware"
  BY DEF Software
<1>2. counter' \in Registers /\ spent' \in [1 .. 3 -> Nat]
  <2>1. PICK d \in Durations[1] :
          /\ counter' = Elapse(Measured(PERF_START_MEASURING(PERF_RESET(counter)), 1, d), 1)
          /\ spent' = [n \in 1 .. 3 |-> IF n = 1 THEN d + 1 ELSE 0]
    BY DEF Software
  <2>2. d \in Nat
    BY BenchmarkAssumption
  <2>. QED  BY <2>1, <2>2, SoftwareMeasured
<1>3. i \in Cases /\ j \in 0 .. TEST_REPEATS - 1
  BY <1>1 DEF BaseInv, TypeOK, ControlInv, Loop
<1>4. ok' \in [Cases -> [Results -> {"uninitialized", "equal", "different"}]]
  <2>1. ok' = [ok EXCEPT ![i][j * 3 + 0] = FirstVerdict(0)]
    BY DEF Software, submitResult
  <2>2. j * 3 + 0 \in Results
    BY <1>3, Places
  <2>3. FirstVerdict(0) \in {"uninitialized", "equal", "different"}
    BY DEF FirstVerdict, Verdict
  <2>. QED  BY <1>3, <2>1, <2>2, <2>3, Update DEF BaseInv, TypeOK
<1>5. TypeOK'
  BY <1>1, <1>2, <1>4 DEF BaseInv, TypeOK
<1>6. ControlInv'
  BY <1>1, <1>3 DEF BaseInv, ControlInv, Loop, service
<1>. QED  BY <1>1, <1>5, <1>6, TestsKept

\* A hardware scaler is called with the test case.
LEMMA CallBase == BaseInv /\ CallScaler => BaseInv'
<1>. SUFFICES ASSUME BaseInv, CallScaler PROVE BaseInv'
  OBVIOUS
<1>1. /\ UNCHANGED <<size, tests, ok, times, images, i, j, spent>>
      /\ pc \in {"hardware", "codesign"} /\ pc' \in {"checkHW", "checkHSCD"}
      /\ phase' = "called" /\ request' = test
  BY DEF CallScaler, Call
<1>2. counter' \in Registers
  <2>1. PICK n \in 1 .. 3 : counter' = PERF_BEGIN(counter, n)
    BY DEF CallScaler
  <2>. QED  BY <2>1, Begun DEF BaseInv, TypeOK
<1>3. TypeOK'
  BY <1>1, <1>2 DEF BaseInv, TypeOK
<1>4. test' = test
  BY <1>1 DEF test
<1>5. ControlInv'
  BY <1>1, <1>4 DEF BaseInv, ControlInv, Loop
<1>. QED  BY <1>1, <1>3, <1>5, TestsKept

\* Going on to the next repeat, test case or the end.
LEMMA GoOnBase ==
  ASSUME BaseInv, GoOn, phase = "idle", pc \in Loop, UNCHANGED <<service, size, tests>>,
         ok' \in [Cases -> [Results -> {"uninitialized", "equal", "different"}]],
         times' \in [Cases -> [Results -> {"uninitialized", "spent", "wrong"}]],
         counter' \in Registers, spent' \in [1 .. 3 -> Nat]
  PROVE  BaseInv'
<1>1. i \in Cases /\ i \in Nat /\ j \in 0 .. TEST_REPEATS - 1 /\ TEST_REPEATS \in Nat \ {0}
  BY BenchmarkAssumption DEF BaseInv, TypeOK, ControlInv
<1>2. /\ i' \in Nat /\ j' \in 0 .. TEST_REPEATS - 1 /\ pc' \in {"software", "write"}
      /\ pc' = "software" => i' \in Cases
  BY <1>1 DEF GoOn
<1>3. images' \in [Cases -> {"none", "equal", "different"}]
  BY DEF GoOn, writeResult, Verdict, BaseInv, TypeOK
<1>4. TypeOK'
  BY <1>2, <1>3 DEF BaseInv, TypeOK
<1>5. ControlInv'
  BY <1>2 DEF BaseInv, ControlInv, Loop, service
<1>. QED  BY <1>4, <1>5, TestsKept

\* After an error the repeat is skipped.
LEMMA SkipBase == BaseInv /\ SkipRepeat => BaseInv'
<1>. SUFFICES ASSUME BaseInv, SkipRepeat PROVE BaseInv'
  OBVIOUS
<1>1. /\ GoOn /\ phase = "idle" /\ pc \in Loop
      /\ UNCHANGED <<service, size, tests, ok, times, counter, spent>>
  BY DEF SkipRepeat, Loop
<1>. QED  BY <1>1, GoOnBase DEF BaseInv, TypeOK

\* What submitTimes reads are times that were spent or not, and each reading leaves
\* the counter as it should.
LEMMA TimesSubmitted ==
  ASSUME BaseInv, submitTimes, i \in Cases
  PROVE  /\ times' \in [Cases -> [Results -> {"uninitialized", "spent", "wrong"}]]
         /\ counter' \in Registers
         /\ \A n \in Cases, k \in Results :
              times'[n][k] # times[n][k] =>
                /\ n = i /\ k \in {j * 3, j * 3 + 1, j * 3 + 2}
                /\ times'[n][k] # "uninitialized"
                /\ (\A m \in 1 .. 3 : ~counter.enabled[m] /\ counter.time[m] = spent[m]) =>
                     times'[n][k] = "spent"
<1>. DEFINE start  == Elapse(counter, 1)
            first  == perf_get_section_time(start, 1)
            second == perf_get_section_time(first.counter, 2)
            third  == perf_get_section_time(second.counter, 3)
            Judge(time, n) == IF time = spent[n] THEN "spent" ELSE "wrong"
            t1 == [times EXCEPT ![i][j * 3] = Judge(first.time, 1)]
            t2 == [t1 EXCEPT ![i][j * 3 + 1] = Judge(second.time, 2)]
            t3 == [t2 EXCEPT ![i][j * 3 + 2] = Judge(third.time, 3)]
            Values == {"uninitialized", "spent", "wrong"}
            AllSpent == \A m \in 1 .. 3 : ~counter.enabled[m] /\ counter.time[m] = spent[m]
<1>1. times' = t3 /\ counter' = third.counter
  BY DEF submitTimes
<1>2. /\ j * 3 \in Results /\ j * 3 + 1 \in Results /\ j * 3 + 2 \in Results
      /\ times \in [Cases -> [Results -> Values]] /\ counter \in Registers
  BY Places DEF BaseInv, TypeOK
<1>3. 1 \in Sections /\ 2 \in Sections /\ 3 \in Sections
  BY TheSections
<1>4. /\ start \in Registers
      /\ \A k \in Sections : ~counter.enabled[k] =>
           ~start.enabled[k] /\ start.time[k] = counter.time[k]
  <2>1. PICK n \in Nat : n = 1
    OBVIOUS
  <2>2. start = Elapse(counter, n)
    BY <2>1
  <2>. HIDE DEF start
  <2>. QED  BY <1>2, <2>2, Elapsed
<1>. HIDE DEF start
<1>5. /\ first.counter \in Registers /\ second.counter \in Registers /\ third.counter \in Registers
      /\ AllSpent => /\ first.time = spent[1] /\ second.time = spent[2] /\ third.time = spent[3]
  <2>1. /\ first.counter \in Registers
        /\ ~start.enabled[1] => first.time = start.time[1]
        /\ \A k \in Sections : ~start.enabled[k] =>
             ~first.counter.enabled[k] /\ first.counter.time[k] = start.time[k]
    BY <1>3, <1>4, SectionRead
  <2>. HIDE DEF first
  <2>2. /\ second.counter \in Registers
        /\ ~first.counter.enabled[2] => second.time = first.counter.time[2]
        /\ \A k \in Sections : ~first.counter.enabled[k] =>
             ~second.counter.enabled[k] /\ second.counter.time[k] = first.counter.time[k]
    BY <1>3, <2>1, SectionRead
  <2>. HIDE DEF second
  <2>3. /\ third.counter \in Registers
        /\ ~second.counter.enabled[3] => third.time = second.counter.time[3]
    BY <1>3, <2>2, SectionRead
  <2>. HIDE DEF third
  <2>. QED  BY <1>3, <1>4, <2>1, <2>2, <2>3
<1>. HIDE DEF first, second, third
<1>6. \A time, n : Judge(time, n) \in Values \ {"uninitialized"}
  OBVIOUS
<1>7. AllSpent => /\ Judge(first.time, 1) = "spent" /\ Judge(second.time, 2) = "spent"
                  /\ Judge(third.time, 3) = "spent"
  BY <1>5
<1>. HIDE DEF Judge
<1>8. /\ t1 \in [Cases -> [Results -> Values]]
      /\ \A n \in Cases, k \in Results :
           t1[n][k] = IF n = i /\ k = j * 3 THEN Judge(first.time, 1) ELSE times[n][k]
  BY <1>2, <1>6, Update
<1>. HIDE DEF t1
<1>9. /\ t2 \in [Cases -> [Results -> Values]]
      /\ \A n \in Cases, k \in Results :
           t2[n][k] = IF n = i /\ k = j * 3 + 1 THEN Judge(second.time, 2) ELSE t1[n][k]
  BY <1>2, <1>6, <1>8, Update
<1>. HIDE DEF t2
<1>10. /\ t3 \in [Cases -> [Results -> Values]]
       /\ \A n \in Cases, k \in Results :
            t3[n][k] = IF n = i /\ k = j * 3 + 2 THEN Judge(third.time, 3) ELSE t2[n][k]
  BY <1>2, <1>6, <1>9, Update
<1>. HIDE DEF t3
<1>. QED  BY <1>1, <1>5, <1>6, <1>7, <1>8, <1>9, <1>10

\* The first of the hardware scalers' results.
LEMMA SubmitHWBase == BaseInv /\ SubmitHW => BaseInv'
<1>. SUFFICES ASSUME BaseInv, SubmitHW PROVE BaseInv'
  OBVIOUS
<1>1. /\ UNCHANGED <<service, size, tests, times, images, i, j, spent>>
      /\ pc = "checkHW" /\ pc' = "codesign" /\ phase = "idle"
  BY DEF SubmitHW
<1>2. i \in Cases /\ j \in 0 .. TEST_REPEATS - 1
  BY <1>1 DEF BaseInv, TypeOK, ControlInv, Loop
<1>3. ok' \in [Cases -> [Results -> {"uninitialized", "equal", "different"}]]
  <2>1. ok' = [ok EXCEPT ![i][j * 3 + 1] = FirstVerdict(1)]
    BY DEF SubmitHW, submitResult
  <2>2. FirstVerdict(1) \in {"uninitialized", "equal", "different"}
    BY DEF FirstVerdict, Verdict
  <2>. QED  BY <1>2, <2>1, <2>2, Places, Update DEF BaseInv, TypeOK
<1>4. counter' \in Registers
  <2>1. PICK n \in Nat : n = 1
    OBVIOUS
  <2>2. counter' = Elapse(counter, n) /\ counter \in Registers
    BY <2>1 DEF SubmitHW, BaseInv, TypeOK
  <2>. QED  BY <2>2, Elapsed
<1>5. TypeOK'
  BY <1>1, <1>3, <1>4 DEF BaseInv, TypeOK
<1>6. ControlInv'
  BY <1>1, <1>2 DEF BaseInv, ControlInv, Loop, service
<1>. QED  BY <1>1, <1>5, <1>6, TestsKept

\* The second, the times, and the end of the repeat.
LEMMA SubmitHSCDBase == BaseInv /\ SubmitHSCD => BaseInv'
<1>. SUFFICES ASSUME BaseInv, SubmitHSCD PROVE BaseInv'
  OBVIOUS
<1>1. /\ UNCHANGED <<service, size, tests, spent>> /\ GoOn /\ submitTimes
      /\ pc = "checkHSCD" /\ phase = "idle" /\ pc \in Loop
  BY DEF SubmitHSCD, Loop
<1>2. i \in Cases /\ j \in 0 .. TEST_REPEATS - 1
  BY <1>1 DEF BaseInv, TypeOK, ControlInv
<1>3. ok' \in [Cases -> [Results -> {"uninitialized", "equal", "different"}]]
  <2>1. ok' = [ok EXCEPT ![i][j * 3 + 2] = FirstVerdict(2)]
    BY DEF SubmitHSCD, submitResult
  <2>2. FirstVerdict(2) \in {"uninitialized", "equal", "different"}
    BY DEF FirstVerdict, Verdict
  <2>. QED  BY <1>2, <2>1, <2>2, Places, Update DEF BaseInv, TypeOK
<1>4. /\ times' \in [Cases -> [Results -> {"uninitialized", "spent", "wrong"}]]
      /\ counter' \in Registers
  BY <1>1, <1>2, TimesSubmitted
<1>5. spent' \in [1 .. 3 -> Nat]
  BY <1>1 DEF BaseInv, TypeOK
<1>. QED  BY <1>1, <1>3, <1>4, <1>5, GoOnBase

\* Writing the results.
LEMMA WriteBase == BaseInv /\ WriteResults => BaseInv'
<1>. SUFFICES ASSUME BaseInv, WriteResults PROVE BaseInv'
  OBVIOUS
<1>1. TypeOK' /\ UNCHANGED <<size, tests>>
  BY DEF WriteResults, BaseInv, TypeOK
<1>2. ControlInv'
  BY DEF WriteResults, Release, BaseInv, ControlInv, Loop
<1>. QED  BY <1>1, <1>2, TestsKept

\* The service ends the section of the scaler that was called.
LEMMA ServerBase == BaseInv /\ Server => BaseInv'
<1>. SUFFICES ASSUME BaseInv, Server PROVE BaseInv'
  OBVIOUS
<1>1. /\ UNCHANGED <<pc, size, tests, ok, times, images, i, j>> /\ Serve
      /\ request' = request
  BY DEF Server, Serve, Initialize, Refuse, Scale, Overwrite, Overrun, Check
<1>2. counter' \in Registers /\ spent' \in [1 .. 3 -> Nat]
  <2>1. CASE UNCHANGED <<counter, spent>>
    BY <2>1 DEF BaseInv, TypeOK
  <2>2. CASE ~UNCHANGED <<counter, spent>>
    <3>1. PICK n \in 1 .. 3 :
            \E d \in Durations[n] : /\ counter' = PERF_END(Elapse(counter, d), n)
                                    /\ spent' = [spent EXCEPT ![n] = d + 1]
      BY <2>2 DEF Server
    <3>2. \A d \in Durations[n] : d \in Nat /\ d + 1 \in Nat
      BY BenchmarkAssumption
    <3>3. \A d \in Nat : PERF_END(Elapse(counter, d), n) \in Registers
      BY Ended DEF BaseInv, TypeOK
    <3>4. spent \in [1 .. 3 -> Nat]
      BY DEF BaseInv, TypeOK
    <3>. QED  BY <3>1, <3>2, <3>3, <3>4
  <2>. QED  BY <2>1, <2>2
<1>3. TypeOK'
  BY <1>1, <1>2 DEF BaseInv, TypeOK
<1>4. test' = test
  BY <1>1 DEF test
<1>5. ControlInv'
  BY <1>1, <1>4 DEF Serve, Initialize, Refuse, Scale, Overwrite, Overrun, Check, BaseInv, ControlInv, Loop
<1>. QED  BY <1>1, <1>3, <1>5, TestsKept

\* All steps together.
LEMMA NextBase == BaseInv /\ [Next]_vars => BaseInv'
<1>. SUFFICES ASSUME BaseInv, [Next]_vars PROVE BaseInv'
  OBVIOUS
<1>1. CASE Run
  BY <1>1, GenerateBase, AllocateBase, OverrunsBase, SoftwareBase, CallBase, SkipBase, SubmitHWBase,
     SubmitHSCDBase, WriteBase DEF Run
<1>2. CASE Server
  BY <1>2, ServerBase
<1>3. CASE UNCHANGED vars
  <2>1. TypeOK'
    BY <1>3 DEF BaseInv, TypeOK, vars, service
  <2>2. ControlInv'
    BY <1>3 DEF BaseInv, ControlInv, vars, service, test
  <2>. QED  BY <1>3, <2>1, <2>2, TestsKept DEF vars
<1>. QED  BY <1>1, <1>2, <1>3 DEF Next, Stopped

\* Hence in every state.
LEMMA BaseHolds == Spec => []BaseInv
BY InitBase, NextBase, PTL DEF Spec

\* However many test cases are made up, each part has pixels and lies in the image, and
\* it fits in the shared buffer when it is scaled if sixteen times the image and a byte
\* for each test case are an int (benchmark_utils.c:65-70, 152).
THEOREM TestsSound == Spec => []TestsFit
<1>1. BaseInv => TestsFit
  <2>. SUFFICES ASSUME BaseInv PROVE TestsFit
    OBVIOUS
  <2>1. \A n \in DOMAIN tests : tests[n] \in Tests /\ Fits(tests[n])
    <3>1. tests \in Seq(Tests)
      BY DEF BaseInv, TypeOK, Tests, Scales
    <3>. QED  BY <3>1 DEF BaseInv
  <2>2. size \in Sizes
    BY DEF BaseInv, TypeOK
  <2>3. \A n \in DOMAIN tests : SmallImage => ScaledSize(tests[n]) <= destinationSize
    BY <2>1, <2>2, PartFits
  <2>4. phase = "called" => request = test
    <3>1. phase = "called" => pc \in {"checkHW", "checkHSCD"}
      BY DEF BaseInv, ControlInv, TypeOK
    <3>. QED  BY <3>1 DEF BaseInv, ControlInv
  <2>5. TypeOK
    BY DEF BaseInv
  <2>6. \A n \in DOMAIN tests : Fits(tests[n])
    BY DEF BaseInv
  <2>. QED  BY <2>3, <2>4, <2>5, <2>6, Zenon DEF TestsFit, Fits
<1>. QED  BY <1>1, BaseHolds, PTL

-----------------------------------------------------------------------------
(* The times, as long as no scaler takes longer than a counter can count.    *)

Short == \A n \in 1 .. 3 : \A d \in Durations[n] : d + 1 < CounterMod

\* A section that has not been started since the reset, has been stopped, or is that of
\* the scaler that is called.
Blank(n) == ~counter.enabled[n] /\ counter.time[n] = 0
Over(n) == ~counter.enabled[n] /\ counter.time[n] = spent[n]
Called(n) ==
  /\ phase = "called" => counter.enabled[n] /\ counter.time[n] = 0
  /\ phase \in {"returned", "idle"} => Over(n)

\* Which section is in which state follows from where the repeat is.
TimeInv ==
  /\ pc \in Loop \ {"software"} => counter.enabled[0] /\ Over(1)
  /\ pc = "hardware" => Blank(2)
  /\ pc = "checkHW" => Called(2)
  /\ pc \in {"codesign", "checkHSCD"} => Over(2)
  /\ pc \in {"hardware", "checkHW", "codesign"} => Blank(3)
  /\ pc = "checkHSCD" => Called(3)

\* Each time is written after the comparisons of its repeat.
TimesInv ==
  /\ pc \in Loop \ {"software"} => ok[i][j * 3] # "uninitialized"
  /\ pc \in {"codesign", "checkHSCD"} => ok[i][j * 3 + 1] # "uninitialized"
  /\ TimesRight

\* The software scaler starts from a reset counter.
LEMMA SoftwareTime == ASSUME Short, BaseInv, Software PROVE TimeInv'
<1>1. PICK d \in Durations[1] :
        /\ counter' = Elapse(Measured(PERF_START_MEASURING(PERF_RESET(counter)), 1, d), 1)
        /\ spent' = [n \in 1 .. 3 |-> IF n = 1 THEN d + 1 ELSE 0]
  BY DEF Software
<1>2. d \in Nat /\ d + 1 < CounterMod
  BY BenchmarkAssumption DEF Short
<1>3. pc' = "hardware"
  BY DEF Software
<1>4. /\ counter'.enabled[0]
      /\ ~counter'.enabled[1] /\ ~counter'.enabled[2] /\ ~counter'.enabled[3]
      /\ counter'.time[1] = spent'[1] /\ counter'.time[2] = 0 /\ counter'.time[3] = 0
  <2>1. spent'[1] = d + 1
    BY <1>1
  <2>. QED  BY <1>1, <1>2, <2>1, SoftwareMeasured
<1>. QED  BY <1>3, <1>4 DEF TimeInv, Blank, Over, Called, Loop

\* A call starts its section.
LEMMA CallTime == ASSUME BaseInv, TimeInv, CallScaler PROVE TimeInv'
<1>1. counter \in Registers /\ phase' = "called" /\ UNCHANGED spent
  BY DEF CallScaler, Call, BaseInv, TypeOK
<1>2. CASE pc = "hardware"
  <2>1. PICK n \in 1 .. 3 : n = 2
    OBVIOUS
  <2>2. counter' = PERF_BEGIN(counter, n) /\ pc' = "checkHW"
    BY <1>2, <2>1 DEF CallScaler
  <2>3. /\ counter'.enabled[n] /\ (~counter.enabled[n] => counter'.time[n] = counter.time[n])
        /\ counter.enabled[0] => counter'.enabled[0]
        /\ KeepsOthers(counter, counter', n)
    BY <1>1, <2>2, Begun
  <2>4. 1 \in 1 .. 3 /\ 3 \in 1 .. 3 /\ n # 1 /\ n # 3
    BY <2>1
  <2>. QED
    BY <1>1, <1>2, <2>1, <2>2, <2>3, <2>4 DEF TimeInv, Blank, Over, Called, Loop, KeepsOthers
<1>3. CASE pc = "codesign"
  <2>1. PICK n \in 1 .. 3 : n = 3
    OBVIOUS
  <2>2. counter' = PERF_BEGIN(counter, n) /\ pc' = "checkHSCD"
    BY <1>3, <2>1 DEF CallScaler
  <2>3. /\ counter'.enabled[n] /\ (~counter.enabled[n] => counter'.time[n] = counter.time[n])
        /\ counter.enabled[0] => counter'.enabled[0]
        /\ KeepsOthers(counter, counter', n)
    BY <1>1, <2>2, Begun
  <2>4. 1 \in 1 .. 3 /\ 2 \in 1 .. 3 /\ n # 1 /\ n # 2
    BY <2>1
  <2>. QED
    BY <1>1, <1>3, <2>1, <2>2, <2>3, <2>4 DEF TimeInv, Blank, Over, Called, Loop, KeepsOthers
<1>. QED  BY <1>2, <1>3 DEF CallScaler

\* A return stops it.
LEMMA ServerTime == ASSUME Short, BaseInv, TimeInv, Server PROVE TimeInv'
<1>1. pc' = pc /\ (pc \in Loop => pc \in {"checkHW", "checkHSCD"})
  BY DEF Server, Serve, Initialize, Refuse, Scale, Overwrite, Overrun, Check, BaseInv, ControlInv,
         Loop
<1>2. CASE pc \notin Loop
  BY <1>1, <1>2 DEF TimeInv, Loop
<1>3. CASE pc \in Loop /\ phase = "called" /\ phase' = "returned"
  <2>1. PICK n \in 1 .. 3 : n = IF pc = "checkHW" THEN 2 ELSE 3
    OBVIOUS
  <2>2. PICK d \in Durations[n] : /\ counter' = PERF_END(Elapse(counter, d), n)
                                  /\ spent' = [spent EXCEPT ![n] = d + 1]
    BY <1>3, <2>1 DEF Server
  <2>3. d \in Nat /\ d + 1 < CounterMod /\ counter \in Registers /\ spent \in [1 .. 3 -> Nat]
    BY BenchmarkAssumption DEF Short, BaseInv, TypeOK
  <2>4. counter.enabled[0] /\ counter.enabled[n] /\ counter.time[n] = 0
    BY <1>1, <1>3, <2>1 DEF TimeInv, Called, Loop
  <2>5. counter.time[n] + d + 1 = d + 1
    BY <2>3, <2>4
  <2>6. /\ counter'.enabled[0] /\ ~counter'.enabled[n] /\ counter'.time[n] = d + 1
        /\ KeepsOthers(counter, counter', n)
    BY <2>2, <2>3, <2>4, <2>5, Ended
  <2>7. spent'[n] = d + 1 /\ \A k \in 1 .. 3 : k # n => spent'[k] = spent[k]
    BY <2>2, <2>3
  <2>8. 1 \in 1 .. 3 /\ 2 \in 1 .. 3 /\ 3 \in 1 .. 3 /\ n # 1
    BY <2>1
  <2>9. CASE pc = "checkHW"
    <3>1. n = 2
      BY <2>1, <2>9
    <3>. QED
      BY <1>1, <1>3, <2>6, <2>7, <2>8, <2>9, <3>1
      DEF TimeInv, Blank, Over, Called, Loop, KeepsOthers
  <2>10. CASE pc = "checkHSCD"
    <3>1. n = 3
      BY <2>1, <2>10
    <3>. QED
      BY <1>1, <1>3, <2>6, <2>7, <2>8, <2>10, <3>1
      DEF TimeInv, Blank, Over, Called, Loop, KeepsOthers
  <2>. QED  BY <1>1, <1>3, <2>9, <2>10
<1>4. CASE pc \in Loop /\ ~(phase = "called" /\ phase' = "returned")
  <2>1. UNCHANGED <<counter, spent>>
    BY <1>4 DEF Server
  <2>2. /\ phase' # "called"
        /\ phase' \in {"returned", "idle"} => phase \in {"returned", "idle"}
    BY <1>1, <1>4
    DEF Server, Serve, Initialize, Refuse, Scale, Overwrite, Overrun, Check, BaseInv, ControlInv
  <2>. QED
    BY <1>1, <2>1, <2>2 DEF TimeInv, Blank, Over, Called, Loop
<1>. QED  BY <1>2, <1>3, <1>4

\* TimeInv is inductive.
LEMMA NextTime == ASSUME Short, BaseInv, TimeInv, [Next]_vars PROVE TimeInv'
<1>1. CASE GenerateTest \/ Allocate \/ SoftwareOverruns \/ SkipRepeat \/ SubmitHSCD \/ WriteResults
  <2>1. pc' \in {"start", "software", "write", "ended", "undefined"}
    BY <1>1 DEF GenerateTest, Allocate, SoftwareOverruns, SkipRepeat, SubmitHSCD, WriteResults, GoOn
  <2>. QED  BY <2>1 DEF TimeInv, Loop
<1>2. CASE SubmitHW
  <2>1. PICK n \in Nat : n = 1
    OBVIOUS
  <2>2. counter' = Elapse(counter, n) /\ counter \in Registers
    BY <1>2, <2>1 DEF SubmitHW, BaseInv, TypeOK
  <2>3. /\ counter'.enabled = counter.enabled
        /\ \A k \in 1 .. 3 : ~counter.enabled[k] => counter'.time[k] = counter.time[k]
    <3>1. /\ counter'.enabled = counter.enabled
          /\ \A k \in Sections : ~counter.enabled[k] => counter'.time[k] = counter.time[k]
      BY <2>2, Elapsed
    <3>2. \A k \in 1 .. 3 : k \in Sections
      BY TheSections
    <3>. QED  BY <3>1, <3>2
  <2>4. 1 \in 1 .. 3 /\ 2 \in 1 .. 3 /\ 3 \in 1 .. 3
    OBVIOUS
  <2>5. pc = "checkHW" /\ pc' = "codesign" /\ phase = "idle" /\ UNCHANGED spent
    BY <1>2 DEF SubmitHW
  <2>. QED
    BY <2>3, <2>4, <2>5 DEF TimeInv, Blank, Over, Called, Loop
<1>3. CASE UNCHANGED vars
  BY <1>3 DEF vars, service, TimeInv, Blank, Over, Called
<1>. QED
  BY <1>1, <1>2, <1>3, SoftwareTime, CallTime, ServerTime DEF Next, Run, Stopped

\* No step takes a result back.
LEMMA ResultsStay ==
  ASSUME BaseInv, TimesRight, UNCHANGED times,
         \A n \in Cases, k \in Results :
           ok[n][k] # "uninitialized" => ok'[n][k] # "uninitialized"
  PROVE  TimesRight'
<1>1. \A k \in Results, l \in 0 .. 2 : (k \div 3) * 3 + l \in Results
  BY BenchmarkAssumption DEF Results
<1>. QED  BY <1>1 DEF TimesRight

\* TimesInv is inductive where the counter is right.
LEMMA NextTimes == ASSUME BaseInv, TimeInv, TimesInv, [Next]_vars PROVE TimesInv'
<1>. DEFINE Values == {"uninitialized", "equal", "different"}
<1>1. ok \in [Cases -> [Results -> Values]]
  BY DEF BaseInv, TypeOK
<1>2. CASE GenerateTest \/ Allocate \/ SoftwareOverruns \/ CallScaler \/ SkipRepeat \/ WriteResults
           \/ Server \/ UNCHANGED vars
  <2>1. /\ UNCHANGED <<ok, times>>
        /\ pc' \in Loop \ {"software"} => UNCHANGED <<i, j>>
        /\ pc' \in Loop \ {"software"} => pc \in Loop \ {"software"}
        /\ pc' \in {"codesign", "checkHSCD"} => pc \in {"codesign", "checkHSCD"}
    BY <1>2 DEF GenerateTest, Allocate, SoftwareOverruns, CallScaler, SkipRepeat, GoOn, WriteResults,
                Server, vars, Loop
  <2>2. TimesRight'
    BY <2>1, ResultsStay DEF TimesInv
  <2>. QED  BY <2>1, <2>2 DEF TimesInv, Loop
<1>3. CASE Software
  <2>1. /\ UNCHANGED <<times, i, j>> /\ pc' = "hardware"
        /\ i \in Cases /\ j \in 0 .. TEST_REPEATS - 1
    BY <1>3 DEF Software, BaseInv, TypeOK, ControlInv, Loop
  <2>2. ok' = [ok EXCEPT ![i][j * 3 + 0] = FirstVerdict(0)] /\ j * 3 + 0 = j * 3
    BY <1>3, <2>1 DEF Software, submitResult
  <2>3. FirstVerdict(0) \in Values \ {"uninitialized"}
    BY DEF FirstVerdict, Verdict
  <2>4. \A n \in Cases, k \in Results :
          ok'[n][k] = IF n = i /\ k = j * 3 THEN FirstVerdict(0) ELSE ok[n][k]
    BY <1>1, <2>1, <2>2, <2>3, Places, Update
  <2>5. TimesRight'
    BY <2>1, <2>3, <2>4, ResultsStay DEF TimesInv
  <2>. QED  BY <2>1, <2>3, <2>4, <2>5, Places DEF TimesInv
<1>4. CASE SubmitHW
  <2>1. /\ UNCHANGED <<times, i, j>> /\ pc = "checkHW" /\ pc' = "codesign"
        /\ i \in Cases /\ j \in 0 .. TEST_REPEATS - 1
    BY <1>4 DEF SubmitHW, BaseInv, TypeOK, ControlInv, Loop
  <2>2. ok' = [ok EXCEPT ![i][j * 3 + 1] = FirstVerdict(1)]
    BY <1>4 DEF SubmitHW, submitResult
  <2>3. FirstVerdict(1) \in Values \ {"uninitialized"}
    BY DEF FirstVerdict, Verdict
  <2>4. \A n \in Cases, k \in Results :
          ok'[n][k] = IF n = i /\ k = j * 3 + 1 THEN FirstVerdict(1) ELSE ok[n][k]
    BY <1>1, <2>1, <2>2, <2>3, Places, Update
  <2>5. TimesRight'
    BY <2>1, <2>3, <2>4, ResultsStay DEF TimesInv
  <2>. QED  BY <2>1, <2>3, <2>4, <2>5, Places DEF TimesInv, Loop
<1>5. CASE SubmitHSCD
  <2>1. /\ pc = "checkHSCD" /\ phase = "idle" /\ pc' \in {"software", "write"}
        /\ i \in Cases /\ j \in 0 .. TEST_REPEATS - 1 /\ submitTimes
    BY <1>5 DEF SubmitHSCD, GoOn, BaseInv, TypeOK, ControlInv, Loop
  <2>2. ok' = [ok EXCEPT ![i][j * 3 + 2] = FirstVerdict(2)]
    BY <1>5 DEF SubmitHSCD, submitResult
  <2>3. FirstVerdict(2) \in Values \ {"uninitialized"}
    BY DEF FirstVerdict, Verdict
  <2>4. \A n \in Cases, k \in Results :
          ok'[n][k] = IF n = i /\ k = j * 3 + 2 THEN FirstVerdict(2) ELSE ok[n][k]
    BY <1>1, <2>1, <2>2, <2>3, Places, Update
  <2>5. /\ j * 3 \in Results /\ j * 3 + 1 \in Results /\ j * 3 + 2 \in Results
        /\ ok[i][j * 3] # "uninitialized" /\ ok[i][j * 3 + 1] # "uninitialized"
    BY <2>1, Places DEF TimesInv, Loop
  <2>6. /\ ok'[i][j * 3] # "uninitialized" /\ ok'[i][j * 3 + 1] # "uninitialized"
        /\ ok'[i][j * 3 + 2] # "uninitialized"
    BY <2>1, <2>3, <2>4, <2>5
  <2>7. \A m \in 1 .. 3 : ~counter.enabled[m] /\ counter.time[m] = spent[m]
    <3>1. \A m \in 1 .. 3 : m = 1 \/ m = 2 \/ m = 3
      OBVIOUS
    <3>. QED  BY <2>1, <3>1 DEF TimeInv, Over, Called, Loop
  <2>8. \A n \in Cases, k \in Results :
          \/ times'[n][k] = times[n][k]
          \/ n = i /\ k \in {j * 3, j * 3 + 1, j * 3 + 2} /\ times'[n][k] = "spent"
    BY <2>1, <2>7, TimesSubmitted
  <2>9. TimesRight'
    <3>. SUFFICES ASSUME NEW n \in Cases, NEW k \in Results
                  PROVE  /\ times'[n][k] # "wrong"
                         /\ times'[n][k] = "spent" =>
                              \A l \in 0 .. 2 : ok'[n][(k \div 3) * 3 + l] # "uninitialized"
      BY DEF TimesRight
    <3>1. CASE times'[n][k] = times[n][k]
      <4>1. \A l \in 0 .. 2 : (k \div 3) * 3 + l \in Results
        BY BenchmarkAssumption DEF Results
      <4>2. \A q \in Results : ok[n][q] # "uninitialized" => ok'[n][q] # "uninitialized"
        BY <2>3, <2>4
      <4>3. /\ times[n][k] # "wrong"
            /\ times[n][k] = "spent" =>
                 \A l \in 0 .. 2 : ok[n][(k \div 3) * 3 + l] # "uninitialized"
        BY DEF TimesInv, TimesRight
      <4>. QED  BY <3>1, <4>1, <4>2, <4>3
    <3>2. CASE n = i /\ k \in {j * 3, j * 3 + 1, j * 3 + 2} /\ times'[n][k] = "spent"
      <4>1. (k \div 3) * 3 = j * 3
        BY <2>1, <3>2
      <4>2. \A l \in 0 .. 2 : l = 0 \/ l = 1 \/ l = 2
        OBVIOUS
      <4>3. j * 3 + 0 = j * 3
        BY <2>1
      <4>. QED  BY <2>6, <3>2, <4>1, <4>2, <4>3
    <3>. QED  BY <2>8, <3>1, <3>2
  <2>. QED  BY <2>1, <2>9 DEF TimesInv, Loop
<1>. QED  BY <1>2, <1>3, <1>4, <1>5 DEF Next, Run, Stopped

\* If no scaler takes longer than the counter can count, every time that is written is
\* that of its own scaler, repeat and test case, whatever repeats were given up with a
\* section still running (benchmark_utils.c:88-93, 171-217).
THEOREM MeasuresRight == ASSUME Short PROVE Spec => []TimesRight
<1>1. Init => TimeInv /\ TimesInv
  <2>. SUFFICES ASSUME Init PROVE TimeInv /\ TimesInv
    OBVIOUS
  <2>1. BaseInv /\ pc = "start"
    BY InitBase DEF Init
  <2>. QED  BY <2>1 DEF TimeInv, TimesInv, TimesRight, BaseInv, ControlInv, Loop
<1>2. BaseInv /\ TimeInv /\ TimesInv /\ [Next]_vars => TimeInv' /\ TimesInv'
  BY NextTime, NextTimes
<1>3. TimesInv => TimesRight
  BY DEF TimesInv
<1>. QED  BY <1>1, <1>2, <1>3, BaseHolds, PTL DEF Spec

-----------------------------------------------------------------------------
(* The comparisons, as long as the hardware reports no error.              *)

\* The results of the repeat that are there.
Submitted == IF pc = "software" THEN 0 ELSE IF pc \in {"hardware", "checkHW"} THEN 1 ELSE 2

\* All results up to the repeat's are there and equal; those that follow will be compared
\* with what the last scaler left, which is the image of this test case.
MatchInv ==
  status = 0 =>
    /\ pc = "software" /\ j > 0 => result = "scaled" /\ request = test
    /\ pc \in {"checkHW", "checkHSCD"} /\ phase \in {"returned", "idle"} => result = "scaled"
    /\ \A n \in Cases : images[n] # "different" /\ \A k \in Results : ok[n][k] # "different"
    /\ \A n \in Cases : n < i => images[n] = "equal" /\ \A k \in Results : ok[n][k] = "equal"
    /\ pc \in Loop => \A k \in Results : k < j * 3 + Submitted => ok[i][k] = "equal"

\* One more result is equal.
LEMMA OneMore ==
  ASSUME BaseInv, i \in Cases, j \in 0 .. TEST_REPEATS - 1, NEW m \in 0 .. 2,
         ok' = [ok EXCEPT ![i][j * 3 + m] = "equal"],
         \A n \in Cases, k \in Results : ok[n][k] # "different",
         \A n \in Cases : n < i => \A k \in Results : ok[n][k] = "equal",
         \A k \in Results : k < j * 3 + m => ok[i][k] = "equal"
  PROVE  /\ \A n \in Cases, k \in Results : ok'[n][k] # "different"
         /\ \A n \in Cases : n < i => \A k \in Results : ok'[n][k] = "equal"
         /\ \A k \in Results : k < j * 3 + (m + 1) => ok'[i][k] = "equal"
<1>1. ok \in [Cases -> [Results -> {"uninitialized", "equal", "different"}]]
  BY DEF BaseInv, TypeOK
<1>2. j * 3 + m \in Results
  <2>1. m = 0 \/ m = 1 \/ m = 2
    OBVIOUS
  <2>. QED  BY <2>1, Places
<1>. DEFINE place == j * 3 + m
<1>3. \A n \in Cases, k \in Results :
        ok'[n][k] = IF n = i /\ k = place THEN "equal" ELSE ok[n][k]
  BY <1>1, <1>2, Update
<1>4. \A k \in Results : k < j * 3 + (m + 1) => k < place \/ k = place
  BY DEF Results
<1>5. \A n \in Cases : n < i => n # i
  BY DEF Cases
<1>. HIDE DEF place
<1>6. \A k \in Results : k < place => ok[i][k] = "equal"
  BY DEF place
<1>. QED  BY <1>3, <1>4, <1>5, <1>6

\* The software scaler's image is compared with that of the repeat before.
LEMMA SoftwareMatch == ASSUME BaseInv, MatchInv, Software PROVE MatchInv'
<1>. SUFFICES ASSUME status' = 0 PROVE MatchInv'
  BY DEF MatchInv
<1>1. /\ pc = "software" /\ pc' = "hardware" /\ status = 0
      /\ UNCHANGED <<images, i, j>> /\ i \in Cases /\ j \in 0 .. TEST_REPEATS - 1
  BY DEF Software, service, BaseInv, TypeOK, ControlInv, Loop
<1>2. FirstVerdict(0) = "equal"
  BY <1>1 DEF FirstVerdict, Verdict, MatchInv
<1>3. ok' = [ok EXCEPT ![i][j * 3 + 0] = "equal"]
  BY <1>2 DEF Software, submitResult
<1>4. PICK m \in 0 .. 2 : m = 0
  OBVIOUS
<1>5. /\ \A n \in Cases, k \in Results : ok'[n][k] # "different"
      /\ \A n \in Cases : n < i => \A k \in Results : ok'[n][k] = "equal"
      /\ \A k \in Results : k < j * 3 + (m + 1) => ok'[i][k] = "equal"
  BY <1>1, <1>3, <1>4, OneMore DEF MatchInv, Submitted, Loop
<1>. QED  BY <1>1, <1>4, <1>5 DEF MatchInv, Submitted, Loop

\* The hardware scaler's image.
LEMMA SubmitHWMatch == ASSUME BaseInv, MatchInv, SubmitHW PROVE MatchInv'
<1>1. /\ pc = "checkHW" /\ pc' = "codesign" /\ status = 0 /\ phase = "idle"
      /\ UNCHANGED <<images, i, j>> /\ i \in Cases /\ j \in 0 .. TEST_REPEATS - 1
      /\ request = test
  BY DEF SubmitHW, BaseInv, TypeOK, ControlInv, Loop
<1>2. FirstVerdict(1) = "equal"
  BY <1>1 DEF FirstVerdict, Verdict, MatchInv
<1>3. ok' = [ok EXCEPT ![i][j * 3 + 1] = "equal"]
  BY <1>2 DEF SubmitHW, submitResult
<1>4. PICK m \in 0 .. 2 : m = 1
  OBVIOUS
<1>5. /\ \A n \in Cases, k \in Results : ok'[n][k] # "different"
      /\ \A n \in Cases : n < i => \A k \in Results : ok'[n][k] = "equal"
      /\ \A k \in Results : k < j * 3 + (m + 1) => ok'[i][k] = "equal"
  BY <1>1, <1>3, <1>4, OneMore DEF MatchInv, Submitted, Loop
<1>. QED  BY <1>1, <1>4, <1>5 DEF MatchInv, Submitted, Loop

\* The last of the repeat, and the image file of the test case.
LEMMA SubmitHSCDMatch == ASSUME BaseInv, MatchInv, SubmitHSCD PROVE MatchInv'
<1>1. /\ pc = "checkHSCD" /\ status = 0 /\ phase = "idle" /\ GoOn
      /\ UNCHANGED <<service, tests>> /\ i \in Cases /\ i \in Nat /\ j \in 0 .. TEST_REPEATS - 1
      /\ request = test
  BY DEF SubmitHSCD, BaseInv, TypeOK, ControlInv, Loop
<1>2. result = "scaled" /\ FirstVerdict(2) = "equal" /\ Verdict = "equal"
  BY <1>1 DEF FirstVerdict, Verdict, MatchInv
<1>3. ok' = [ok EXCEPT ![i][j * 3 + 2] = "equal"]
  BY <1>2 DEF SubmitHSCD, submitResult
<1>4. PICK m \in 0 .. 2 : m = 2
  OBVIOUS
<1>5. /\ \A n \in Cases, k \in Results : ok'[n][k] # "different"
      /\ \A n \in Cases : n < i => \A k \in Results : ok'[n][k] = "equal"
      /\ \A k \in Results : k < j * 3 + (m + 1) => ok'[i][k] = "equal"
  BY <1>1, <1>3, <1>4, OneMore DEF MatchInv, Submitted, Loop
<1>6. CASE j + 1 < TEST_REPEATS
  <2>1. i' = i /\ j' = j + 1 /\ pc' = "software" /\ UNCHANGED images
    BY <1>1, <1>6 DEF GoOn
  <2>2. j' * 3 + 0 = j * 3 + (m + 1)
    BY <1>1, <1>4, <2>1
  <2>3. test' = test /\ result' = "scaled" /\ request' = request
    BY <1>1, <1>2, <2>1 DEF test, service
  <2>. QED
    BY <1>1, <1>5, <2>1, <2>2, <2>3 DEF MatchInv, Submitted, Loop
<1>7. CASE ~(j + 1 < TEST_REPEATS)
  <2>1. /\ i' = i + 1 /\ j' = 0 /\ pc' \in {"software", "write"}
        /\ images' = [images EXCEPT ![i] = "equal"]
    BY <1>1, <1>2, <1>7 DEF GoOn, writeResult
  <2>2. \A n \in Cases : images'[n] = IF n = i THEN "equal" ELSE images[n]
    BY <1>1, <2>1 DEF BaseInv, TypeOK
  <2>3. \A k \in Results : ok'[i][k] = "equal"
    <3>1. \A k \in Results : k < j * 3 + (m + 1)
      BY <1>1, <1>4, <1>7, BenchmarkAssumption DEF Results
    <3>. QED  BY <1>5, <3>1
  <2>4. \A n \in Cases : n < i' => n < i \/ n = i
    BY <1>1, <2>1 DEF Cases
  <2>5. \A n \in Cases : n < i' => images'[n] = "equal" /\ \A k \in Results : ok'[n][k] = "equal"
    BY <1>1, <1>5, <2>2, <2>3, <2>4 DEF MatchInv
  <2>6. \A n \in Cases : images'[n] # "different"
    BY <1>1, <2>2 DEF MatchInv
  <2>7. \A k \in Results : ~(k < 0 * 3 + 0)
    BY DEF Results
  <2>. QED
    BY <1>1, <1>5, <2>1, <2>5, <2>6, <2>7 DEF MatchInv, Submitted, Loop
<1>. QED  BY <1>6, <1>7

\* The service leaves a scaled image wherever it reports no error.
LEMMA ServerMatch == ASSUME BaseInv, MatchInv, Server PROVE MatchInv'
<1>1. UNCHANGED <<pc, size, tests, ok, times, images, i, j>> /\ Serve /\ request' = request
  BY DEF Server, Serve, Initialize, Refuse, Scale, Overwrite, Overrun, Check
<1>2. CASE pc = "start"
  <2>1. pc' = "start" /\ i' = 0 /\ j' = 0
        /\ \A n \in Cases : /\ images'[n] = "none"
                            /\ \A k \in Results : ok'[n][k] = "uninitialized"
    BY <1>1, <1>2 DEF BaseInv, ControlInv
  <2>2. \A n \in Cases : ~(n < 0)
    BY DEF Cases
  <2>. QED  BY <2>1, <2>2 DEF MatchInv, Loop
<1>3. CASE pc # "start"
  <2>1. phase \notin {"init", "initialized"}
    BY <1>3 DEF BaseInv, TypeOK, ControlInv
  <2>2. /\ status' = 0 => status = 0
        /\ status' = 0 /\ phase' \in {"returned", "idle"} =>
             result' = "scaled" \/ (phase = "returned" /\ result' = result)
    BY <1>1, <2>1 DEF Serve, Initialize, Refuse, Scale, Overwrite, Overrun, Check
  <2>3. pc # "software"
    BY <1>1 DEF Serve, Initialize, Refuse, Scale, Overwrite, Overrun, Check, BaseInv, ControlInv
  <2>. QED  BY <1>1, <2>2, <2>3 DEF MatchInv, Submitted, Loop
<1>. QED  BY <1>2, <1>3

\* MatchInv is inductive.
LEMMA NextMatch == ASSUME BaseInv, MatchInv, [Next]_vars PROVE MatchInv'
<1>1. CASE SkipRepeat
  BY <1>1 DEF SkipRepeat, service, MatchInv
<1>2. CASE Allocate
  <2>1. /\ UNCHANGED <<service, tests, ok, images, i, j>> /\ pc = "start"
        /\ pc' \in {"software", "write"} /\ i = 0 /\ j = 0
    BY <1>2 DEF Allocate, BaseInv, ControlInv
  <2>2. \A k \in Results : ~(k < 0 * 3 + 0)
    BY DEF Results
  <2>. QED  BY <2>1, <2>2 DEF service, MatchInv, Submitted, Loop
<1>3. CASE GenerateTest \/ SoftwareOverruns \/ CallScaler \/ WriteResults \/ UNCHANGED vars
  <2>1. /\ UNCHANGED <<ok, images, i, j>> /\ (status' = 0 => status = 0)
        /\ pc' \in Loop => pc \in Loop /\ Submitted' = Submitted
        /\ pc' = "software" => UNCHANGED <<tests, pc, result, request>>
        /\ pc' \in {"checkHW", "checkHSCD"} /\ phase' \in {"returned", "idle"} =>
             UNCHANGED <<pc, phase, result>>
    BY <1>3 DEF GenerateTest, SoftwareOverruns, CallScaler, Call, WriteResults, Release, vars, service, Loop, Submitted
  <2>. QED  BY <2>1 DEF MatchInv, test
<1>. QED
  BY <1>1, <1>2, <1>3, SoftwareMatch, SubmitHWMatch, SubmitHSCDMatch, ServerMatch
  DEF Next, Run, Stopped

\* As long as the hardware reports no error no comparison finds a difference, each image
\* file holds the image of its own test case, and in the end all of them are there: for
\* every number of test cases and repeats (benchmark_utils.c:75-86, 223).
THEOREM ComparesRight == Spec => []AllMatch
<1>1. Init => MatchInv
  <2>. SUFFICES ASSUME Init PROVE MatchInv
    OBVIOUS
  <2>1. BaseInv /\ pc = "start"
    BY InitBase DEF Init
  <2>2. \A n \in Cases : ~(n < 0)
    BY DEF Cases
  <2>. QED  BY <2>1, <2>2 DEF MatchInv, BaseInv, ControlInv, Loop
<1>2. BaseInv /\ MatchInv /\ [Next]_vars => MatchInv'
  BY NextMatch
<1>3. MatchInv => AllMatch
  <2>1. \A n \in Cases : n < BENCH_CASES + TEST_CASES
    BY BenchmarkAssumption DEF Cases
  <2>. QED  BY <2>1 DEF MatchInv, AllMatch
<1>. QED  BY <1>1, <1>2, <1>3, BaseHolds, PTL DEF Spec
=============================================================================
