---------------------------- MODULE MCBenchmark ----------------------------
(* Small instances of the benchmark for TLC. *)
EXTENDS Benchmark

MCDurations == <<{6}, {1, 4}, {3}>>
MCSections == 0 .. 3

\* Images whose buffer size is an int, one for which it overflows to 5 bytes, and one
\* for which it overflows to a negative number.
MCSizes ==
  {[width |-> 2, height |-> 2], [width |-> 3, height |-> 1], [width |-> 3, height |-> 3],
   [width |-> 5, height |-> 1]}
=============================================================================
