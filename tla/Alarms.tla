------------------------------- MODULE Alarms --------------------------------
(* The alarms of the system clock (alt_tick.c, alt_alarm_start.c) and the    *)
(* doubly linked list that holds them (alt_llist.h), as functions of a       *)
(* record. Its fields next and previous are the pointers, time and rollover  *)
(* those of each alarm, nticks is _alt_nticks. AlarmList stands for          *)
(* alt_alarm_list itself.                                                    *)
EXTENDS Integers, FiniteSets, Sequences

CONSTANTS
  AlarmIds,    \* the alarms of the program
  AlarmList,   \* alt_alarm_list
  TickMod      \* 2^32: the tick counter and the alarm times wrap

ASSUME AlarmsAssumption ==
  /\ IsFiniteSet(AlarmIds) /\ AlarmList \notin AlarmIds
  /\ TickMod \in Nat /\ TickMod > 1

Entries == AlarmIds \cup {AlarmList}

(* ALT_LLIST_HEAD: alone, an entry points to itself.                         *)
NoAlarms ==
  [next |-> [e \in Entries |-> e], previous |-> [e \in Entries |-> e],
   time |-> [a \in AlarmIds |-> 0], rollover |-> [a \in AlarmIds |-> FALSE],
   nticks |-> 0]

(* Faulty: the wrap of the alarm's time is not noted.                        *)
ArmedWithoutFlag(c, a, nticks) == [c EXCEPT !.time[a] = (nticks + c.nticks + 1) % TickMod]

(* alt_alarm_start up to the insertion, for an alarm in nticks ticks.        *)
Armed(c, a, nticks) ==
  LET time == (nticks + c.nticks + 1) % TickMod
  IN [c EXCEPT !.time[a] = time, !.rollover[a] = time < c.nticks]

(* alt_llist_insert at the head, in two halves: the entry's own pointers,    *)
(* and those of its neighbours.                                              *)
PointsIn(c, e) == [c EXCEPT !.previous[e] = AlarmList, !.next[e] = c.next[AlarmList]]
Linked(c, e) == [c EXCEPT !.previous[c.next[AlarmList]] = e, !.next[AlarmList] = e]

(* alt_llist_remove: the neighbours' pointers, and those of the entry. The   *)
(* time of a stopped alarm is forgotten: its start sets it.                  *)
Bypassed(c, e) ==
  [c EXCEPT !.previous[c.next[e]] = c.previous[e], !.next[c.previous[e]] = c.next[e]]
Unlinked(c, e) ==
  [c EXCEPT !.previous[e] = e, !.next[e] = e, !.time[e] = 0, !.rollover[e] = FALSE]

(* alt_tick: the count, what it does to a flag, when an alarm is due, and    *)
(* its next time.                                                            *)
Ticked(c) == [c EXCEPT !.nticks = (@ + 1) % TickMod]
FlagCleared(c, a) == [c EXCEPT !.rollover[a] = @ /\ c.nticks # 0]
Due(c, a) == c.time[a] <= c.nticks /\ ~c.rollover[a]

Rearmed(c, a, nticks) ==
  LET time == (c.time[a] + nticks) % TickMod
  IN [c EXCEPT !.time[a] = time, !.rollover[a] = @ \/ time < c.nticks]

(* The list is a ring that runs through exactly the given alarms, both ways: *)
(* following next from alt_alarm_list one leaves no part of it out.          *)
RingOf(c, alarms) ==
  LET ring == alarms \cup {AlarmList}
  IN /\ \A e \in ring :
          /\ c.next[e] \in ring /\ c.previous[c.next[e]] = e
          /\ c.previous[e] \in ring /\ c.next[c.previous[e]] = e
     /\ \A part \in SUBSET ring :
          AlarmList \in part /\ (\A e \in part : c.next[e] \in part) => part = ring
==============================================================================
