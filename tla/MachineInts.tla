---------------------------- MODULE MachineInts ----------------------------
(***************************************************************************)
(* The int type of the program, from -IntLimit to IntLimit - 1.  What goes *)
(* beyond it wraps, as the machine's addition and multiplication do.       *)
(***************************************************************************)
EXTENDS Integers

CONSTANT IntLimit   \* One more than the largest int.

ASSUME IntAssumption == IntLimit \in Nat \ {0}

Ints == -IntLimit .. IntLimit - 1

Wrap(n) == ((n + IntLimit) % (2 * IntLimit)) - IntLimit
=============================================================================
