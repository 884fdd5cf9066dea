------------------------------- MODULE Console -------------------------------
(* What the JTAG UART driver promises: two streams of characters that keep   *)
(* their order and lose nothing, one from the host's keyboard to the calls   *)
(* of read and one from the calls of write to the host's screen.             *)
EXTENDS Naturals, Sequences

CONSTANTS Chars, Capacity

VARIABLES
  input,    \* typed by the host, not yet read
  got,      \* what the call of read in progress has been given
  todo,     \* what the call of write in progress has still to accept
  output    \* accepted from write, not yet shown by the host

cvars == <<input, got, todo, output>>

Suffix(s, k) == SubSeq(s, k + 1, Len(s))

Init == input = <<>> /\ got = <<>> /\ todo = <<>> /\ output = <<>>

Type == \E c \in Chars :
  /\ Len(input) < Capacity
  /\ input' = Append(input, c)
  /\ UNCHANGED <<got, todo, output>>

Take == \E k \in 1..Len(input) :
  /\ got' = got \o SubSeq(input, 1, k)
  /\ input' = Suffix(input, k)
  /\ UNCHANGED <<todo, output>>

Call ==
  /\ got = <<>> /\ todo = <<>>
  /\ todo' \in Seq(Chars)
  /\ UNCHANGED <<input, got, output>>

Accept == \E k \in 1..Len(todo) :
  /\ Len(output) + k <= Capacity
  /\ output' = output \o SubSeq(todo, 1, k)
  /\ todo' = Suffix(todo, k)
  /\ UNCHANGED <<input, got>>

Show ==
  /\ output # <<>>
  /\ output' = Tail(output)
  /\ UNCHANGED <<input, got, todo>>

Return ==
  /\ got' = <<>> /\ todo' = <<>>
  /\ UNCHANGED <<input, output>>

Next == Type \/ Take \/ Call \/ Accept \/ Show \/ Return

Spec == Init /\ [][Next]_cvars
==============================================================================
