----------------------------- MODULE Interrupts ------------------------------
(* The HAL's interrupts and alarms: one processor that executes either the   *)
(* program or, between any two of its instructions, an interrupt. Both call  *)
(* the same functions: registering a routine, enabling and disabling single  *)
(* interrupts, starting and stopping alarms. A function is written as the    *)
(* sequence of instructions that it executes, each an access to something    *)
(* shared; what is left to execute is the variable code.                     *)
EXTENDS Alarms, FiniteSetsExt

CONSTANTS
  Irqs,        \* the interrupt lines; the lower number goes first
  Timer,       \* the line of the system clock
  Routines,    \* the routines that may be registered for another line
  CallbackAlarms,  \* the alarms that callbacks start; the program starts the others
  None

ASSUME InterruptsAssumption ==
  /\ Irqs \subseteq Nat /\ IsFiniteSet(Irqs) /\ Timer \in Irqs
  /\ CallbackAlarms \subseteq AlarmIds
  /\ None \notin Routines /\ "alt_tick" \notin Routines \cup {None}

VARIABLES
  pie,         \* the PIE bit of the status register
  contexts,    \* the values of PIE that alt_irq_disable_all has returned
  active,      \* alt_irq_active, and the register IENABLE that follows it
  loaded,      \* the copy of alt_irq_active in a processor register
  table,       \* alt_irq: the routine and its context for each line
  lines,       \* the lines that are raised
  code,        \* what is left of the function that executes
  program,     \* what is left of the interrupted program, or None
  clock,       \* the alarms, see Alarms
  asked,       \* history: the lines that should be enabled
  wait         \* history: ticks until each alarm is due, -1 when there is none

vars == <<pie, contexts, active, loaded, table, lines, code, program, clock, asked, wait>>

Lines == Irqs \ {Timer}
Pending == lines \cap active
Running == {a \in AlarmIds : wait[a] >= 0}

------------------------------------------------------------------------------
(* The functions.                                                            *)

DisableAll == <<[op |-> "disable"]>>
EnableAll == <<[op |-> "enable"]>>
Protected(body) == DisableAll \o (body \o EnableAll)

(* alt_irq_enable, alt_irq_disable, and alt_ic_irq_enable and _disable       *)
Load == <<[op |-> "load"]>>
Or(i) == <<[op |-> "or", irq |-> i]>>
AndNot(i) == <<[op |-> "andnot", irq |-> i]>>
IrqEnable(i) == Protected(Load \o Or(i))
IrqDisable(i) == Protected(Load \o AndNot(i))

(* alt_ic_isr_register, alt_iic_isr_register and alt_irq_register. The       *)
(* context of a routine is that routine's.                                   *)
Handler(i, isr) == <<[op |-> "handler", irq |-> i, isr |-> isr]>>
Context(i, isr) == <<[op |-> "context", irq |-> i, isr |-> isr]>>
Last(i, isr) == IF isr # None THEN IrqEnable(i) ELSE IrqDisable(i)
Registering(i, isr) == Handler(i, isr) \o (Context(i, isr) \o Last(i, isr))

(* Faulty: an interrupt may come between routine and context.                *)
IsrRegisterUnprotected(i, isr) == Registering(i, isr)

IsrRegister(i, isr) == Protected(Registering(i, isr))

Arm(a, nticks) == <<[op |-> "arm", alarm |-> a, nticks |-> nticks]>>
Point(a) == <<[op |-> "point", alarm |-> a]>>
Link(a) == <<[op |-> "link", alarm |-> a]>>
AlarmStart(a, nticks) == Protected(Arm(a, nticks) \o (Point(a) \o Link(a)))

Bypass(a) == <<[op |-> "bypass", alarm |-> a]>>
Unlink(a) == <<[op |-> "unlink", alarm |-> a]>>

(* Faulty: an interrupt may find the list half changed.                      *)
AlarmStopUnprotected(a) == Bypass(a) \o Unlink(a)

AlarmStop(a) == Protected(Bypass(a) \o Unlink(a))

Ack(i) == <<[op |-> "acknowledge", irq |-> i]>>
TickOnce == <<[op |-> "tick"]>>

(* A routine removes the cause of its interrupt first. That of another line  *)
(* may disable its line. The clock's calls alt_tick.                         *)
RoutineCodes(i) ==
  IF i = Timer THEN {Ack(i) \o TickOnce} ELSE {Ack(i), Ack(i) \o IrqDisable(i)}

(* The callback of alarm a may stop itself or start an alarm of its own that *)
(* is not in the list, since an alarm must not be started twice. Stopping    *)
(* the alarm that alt_tick goes to next is left out: that alarm then points  *)
(* to itself and alt_tick does not come to an end.                           *)
CallbackCodes(a) ==
  {<<>>, AlarmStop(a)} \cup {AlarmStart(b, 0) : b \in CallbackAlarms \ Running}

(* What the program calls, also with interrupts disabled around it.          *)
FunctionCalls ==
  (UNION {{IsrRegister(i, isr) : isr \in Routines \cup {None}} : i \in Lines})
    \cup {IrqEnable(i) : i \in {i \in Lines : table[i].isr # None}}
    \cup {IrqDisable(i) : i \in Lines}
    \cup (UNION {{AlarmStart(a, n) : n \in 0..(TickMod - 2)} :
                  a \in AlarmIds \ (Running \cup CallbackAlarms)})
    \cup {AlarmStop(a) : a \in AlarmIds}
Calls == FunctionCalls \cup {Protected(f) : f \in FunctionCalls}

------------------------------------------------------------------------------
(* altera_nios2_gen2_irq_init, then the clock's driver has registered.       *)
Init ==
  /\ pie = TRUE /\ contexts = <<>> /\ active = {Timer} /\ loaded = {} /\ lines = {}
  /\ table = [i \in Irqs |-> IF i = Timer THEN [isr |-> "alt_tick", context |-> "alt_tick"]
                                          ELSE [isr |-> None, context |-> None]]
  /\ code = <<>> /\ program = None /\ clock = NoAlarms
  /\ asked = {Timer} /\ wait = [a \in AlarmIds |-> -1]

(* A device raises its line and holds it until its routine is there.         *)
Raise(i) ==
  /\ i \notin lines /\ lines' = lines \cup {i}
  /\ UNCHANGED <<pie, contexts, active, loaded, table, code, program, clock, asked, wait>>

ThenDispatch == <<[op |-> "dispatch"]>>

(* The processor takes a pending interrupt before the next instruction and   *)
(* clears PIE. What it interrupts is kept, registers included.               *)
TakeInterrupt ==
  /\ pie /\ Pending # {}
  /\ program' = [code |-> code, loaded |-> loaded]
  /\ pie' = FALSE /\ code' = ThenDispatch
  /\ UNCHANGED <<contexts, active, loaded, table, lines, clock, asked, wait>>

Executes(op) == ~(pie /\ Pending # {}) /\ code # <<>> /\ code[1].op = op
This == code[1]
Rest == Tail(code)

(* alt_irq_handler: the lowest pending line's routine, until none is         *)
(* pending; then eret.                                                       *)
Dispatch ==
  /\ Executes("dispatch") /\ Pending # {}
  /\ \E routine \in RoutineCodes(Min(Pending)) : code' = routine \o code
  /\ UNCHANGED <<pie, contexts, active, loaded, table, lines, program, clock, asked, wait>>

Return ==
  /\ Executes("dispatch") /\ Pending = {}
  /\ pie' = TRUE /\ code' = program.code /\ loaded' = program.loaded /\ program' = None
  /\ UNCHANGED <<contexts, active, table, lines, clock, asked, wait>>

Call ==
  /\ code = <<>> /\ Pending = {} /\ code' \in Calls
  /\ UNCHANGED <<pie, contexts, active, loaded, table, lines, program, clock, asked, wait>>

Acknowledge ==
  /\ Executes("acknowledge") /\ lines' = lines \ {This.irq} /\ code' = Rest
  /\ UNCHANGED <<pie, contexts, active, loaded, table, program, clock, asked, wait>>

(* Faulty: the status is read after PIE was cleared.                         *)
SetPieReadLate ==
  /\ \/ Executes("disable") /\ contexts' = <<FALSE>> \o contexts /\ pie' = FALSE
     \/ Executes("enable") /\ pie' = contexts[1] /\ contexts' = Tail(contexts)
  /\ code' = Rest
  /\ UNCHANGED <<active, loaded, table, lines, program, clock, asked, wait>>

(* alt_irq_disable_all, alt_irq_enable_all                                   *)
SetPie ==
  /\ \/ Executes("disable") /\ contexts' = <<pie>> \o contexts /\ pie' = FALSE
     \/ Executes("enable") /\ pie' = contexts[1] /\ contexts' = Tail(contexts)
  /\ code' = Rest
  /\ UNCHANGED <<active, loaded, table, lines, program, clock, asked, wait>>

LoadActive ==
  /\ Executes("load") /\ loaded' = active /\ code' = Rest
  /\ UNCHANGED <<pie, contexts, active, table, lines, program, clock, asked, wait>>

StoreActive ==
  /\ \/ Executes("or") /\ active' = loaded \cup {This.irq} /\ asked' = asked \cup {This.irq}
     \/ Executes("andnot") /\ active' = loaded \ {This.irq} /\ asked' = asked \ {This.irq}
  /\ code' = Rest /\ loaded' = {}
  /\ UNCHANGED <<pie, contexts, table, lines, program, clock, wait>>

SetRoutine ==
  /\ \/ Executes("handler") /\ table' = [table EXCEPT ![This.irq].isr = This.isr]
     \/ Executes("context") /\ table' = [table EXCEPT ![This.irq].context = This.isr]
  /\ code' = Rest
  /\ UNCHANGED <<pie, contexts, active, loaded, lines, program, clock, asked, wait>>

(* The steps of alt_alarm_start and alt_alarm_stop.                          *)
StartAlarm ==
  /\ \/ Executes("arm") /\ clock' = Armed(clock, This.alarm, This.nticks)
        /\ wait' = [wait EXCEPT ![This.alarm] = This.nticks + 1]
     \/ Executes("point") /\ clock' = PointsIn(clock, This.alarm) /\ UNCHANGED wait
     \/ Executes("link") /\ clock' = Linked(clock, This.alarm) /\ UNCHANGED wait
  /\ code' = Rest
  /\ UNCHANGED <<pie, contexts, active, loaded, table, lines, program, asked>>

StopAlarm ==
  /\ \/ Executes("bypass") /\ clock' = Bypassed(clock, This.alarm) /\ UNCHANGED wait
     \/ Executes("unlink") /\ clock' = Unlinked(clock, This.alarm)
        /\ wait' = [wait EXCEPT ![This.alarm] = -1]
  /\ code' = Rest
  /\ UNCHANGED <<pie, contexts, active, loaded, table, lines, program, asked>>

(* alt_tick: a step of its loop, and what follows a callback.                *)
Visit(e) == <<[op |-> "visit", alarm |-> e]>>
Called(a) == <<[op |-> "called", alarm |-> a]>>

Tick ==
  /\ Executes("tick")
  /\ clock' = Ticked(clock)
  /\ wait' = [a \in AlarmIds |-> IF a \in Running THEN wait[a] - 1 ELSE -1]
  /\ code' = Visit(clock.next[AlarmList]) \o Rest
  /\ UNCHANGED <<pie, contexts, active, loaded, table, lines, program, asked>>

VisitAlarm ==
  /\ Executes("visit")
  /\ IF This.alarm = AlarmList THEN code' = Rest /\ UNCHANGED clock
     ELSE LET a == This.alarm
              cleared == FlagCleared(clock, a)
              after == Visit(clock.next[a]) \o Rest
          IN /\ clock' = cleared
             /\ IF Due(cleared, a)
                THEN \E callback \in CallbackCodes(a) :
                       code' = callback \o (Called(a) \o after)
                ELSE code' = after
  /\ UNCHANGED <<pie, contexts, active, loaded, table, lines, program, asked, wait>>

(* The callback has returned the ticks until it is next called, or zero. The *)
(* time of an alarm that has stopped itself is never looked at.              *)
CallbackReturns ==
  /\ Executes("called")
  /\ LET a == This.alarm IN
     \/ code' = AlarmStop(a) \o Rest /\ UNCHANGED <<clock, wait>>
     \/ \E nticks \in 1..(TickMod - 1) :
          /\ IF a \notin Running THEN UNCHANGED <<clock, wait>>
             ELSE clock' = Rearmed(clock, a, nticks) /\ wait' = [wait EXCEPT ![a] = nticks]
          /\ code' = Rest
  /\ UNCHANGED <<pie, contexts, active, loaded, table, lines, program, asked>>

Processor ==
  \/ TakeInterrupt \/ Dispatch \/ Return \/ Acknowledge \/ SetPie \/ LoadActive \/ StoreActive
  \/ SetRoutine \/ StartAlarm \/ StopAlarm \/ Tick \/ VisitAlarm \/ CallbackReturns

Next == Processor \/ Call \/ \E i \in Irqs : Raise(i)

Spec == Init /\ [][Next]_vars
FairSpec == Spec /\ WF_vars(Processor)
------------------------------------------------------------------------------
(* Properties.                                                               *)

InTick == \E k \in DOMAIN code : code[k].op \in {"visit", "called"}

(* An alarm is called in exactly the tick that it was asked for, counted     *)
(* from its start or from its last call, never in an earlier or later one,   *)
(* also when the tick counter or its time wrap in between, and whatever      *)
(* callbacks start and stop (alt_tick.c:96-141, alt_alarm_start.c:82-96).    *)
Punctual ==
  /\ code # <<>> /\ This.op = "called" => wait[This.alarm] \in {0, -1}
  /\ ~InTick => \A a \in Running : wait[a] > 0

(* Wherever the program is interrupted, an interrupt finds the list of       *)
(* alarms whole, with exactly the alarms that were started and not stopped   *)
(* (alt_tick.c:70-72, alt_alarm_start.c:78-99).                              *)
ListIntact ==
  pie \/ (code # <<>> /\ This.op \in {"dispatch", "tick", "visit"}) => RingOf(clock, Running)

(* A routine is called for a line that was left enabled, and with its own    *)
(* context; no enabling or disabling is undone by another that comes between *)
(* its load and its store (alt_legacy_irq.h:68-99,                           *)
(* alt_iic_isr_register.c:84-97).                                            *)
DispatchSound ==
  /\ pie => active = asked
  /\ code # <<>> /\ This.op = "dispatch" =>
       \A i \in Pending : i \in asked /\ table[i].isr # None /\ table[i].context = table[i].isr

(* A line that is raised and enabled is served, or disabled, unless lines of *)
(* higher priority are raised again and again: calls restore PIE to what it  *)
(* was, however they are nested, and the routines end (alt_irq.h:113-159,    *)
(* alt_irq_handler.c:128-159).                                               *)
Served ==
  \A i \in Irqs :
    \/ i \in Pending ~> i \notin Pending
    \/ \E j \in Irqs : j < i /\ []<>(j \in Pending)
==============================================================================
