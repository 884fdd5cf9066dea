----------------------------- MODULE PerfCounter -----------------------------
(***************************************************************************)
(* The performance counter (system_perf_cnt.v) and its driver, as          *)
(* functions of the record of the peripheral's registers: for each section *)
(* the cycles counted, the times it was started and whether it is enabled. *)
(* Section 0 enables all of them.                                          *)
(***************************************************************************)
EXTENDS Integers

CONSTANTS
  Sections,   \* The sections in use, 0 among them.
  HalfMod     \* 2^32: a counter is read in two halves.

ASSUME PerfCounterAssumption ==
  /\ Sections \subseteq 0 .. 7 /\ 0 \in Sections
  /\ HalfMod \in Nat /\ HalfMod > 1

Registers ==
  [time : [Sections -> Nat], events : [Sections -> Nat], enabled : [Sections -> BOOLEAN]]

ResetState ==
  [time |-> [n \in Sections |-> 0], events |-> [n \in Sections |-> 0],
   enabled |-> [n \in Sections |-> FALSE]]

\* The n-th counter after d more cycles.
Counted(c, n, d) == (c.time[n] + d) % (HalfMod * HalfMod)

\* d cycles without an access.
Elapse(c, d) ==
  IF ~c.enabled[0] THEN c
  ELSE [c EXCEPT !.time = [n \in Sections |-> IF c.enabled[n] THEN Counted(c, n, d) ELSE @[n]]]

\* The cycle in which data is written to an address.
IOWR(c, address, data) ==
  LET go   == {n \in Sections : address = 4 * n + 1}
      stop == {n \in Sections : address = 4 * n}
      global_enable == c.enabled[0] \/ 0 \in go
      global_reset  == 0 \in stop /\ data % 2 = 1
  IN  IF global_reset THEN ResetState
      ELSE [time |-> [n \in Sections |->
                        IF c.enabled[n] /\ global_enable THEN Counted(c, n, 1) ELSE c.time[n]],
            events |-> [n \in Sections |->
                          IF n \in go /\ global_enable THEN c.events[n] + 1 ELSE c.events[n]],
            enabled |-> [n \in Sections |-> n \notin stop /\ (n \in go \/ c.enabled[n])]]

PERF_BEGIN(c, n) == IOWR(c, 4 * n + 1, 0)
PERF_END(c, n)   == IOWR(c, 4 * n, 0)

\* Faulty: a reset that only stops.
ResetStops(c) == IOWR(c, 0, 0)

PERF_RESET(c) == IOWR(c, 0, 1)

PERF_START_MEASURING(c) == PERF_BEGIN(c, 0)
PERF_STOP_MEASURING(c)  == PERF_END(c, 0)

\* The two halves are read one after the other.
perf_get_section_time(c, n) ==
  LET stopped == PERF_STOP_MEASURING(c)
      lo == stopped.time[n] % HalfMod
      hi == Elapse(stopped, 1).time[n] \div HalfMod
  IN  [counter |-> Elapse(stopped, 2), time |-> hi * HalfMod + lo]

perf_get_total_time(c) == perf_get_section_time(c, 0)

\* What the report on three sections leaves: it reads the time of each and how
\* often it was started.
perf_print_formatted_report(c) ==
  LET Section(d, n) == Elapse(perf_get_section_time(d, n).counter, 1)
      total == perf_get_total_time(PERF_STOP_MEASURING(c)).counter
  IN  Section(Section(Section(total, 1), 2), 3)
=============================================================================
