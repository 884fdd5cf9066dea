---------------------------- MODULE MCInterrupts -----------------------------
(* Two alarms, the clock and one other line, which goes before the clock.    *)
EXTENDS Interrupts

MCIrqs == {0, 1}
==============================================================================
