-------------------------- MODULE InterruptsProofs --------------------------
(* Theorems about interrupts and alarms, for any lines and routines, any     *)
(* number of alarms and any width of the tick counter. The inductive         *)
(* invariant HalInv says where the processor is: what is left to execute is  *)
(* the rest of a function, then as many EnableAll as contexts has values,    *)
(* then what the handler has still to do; and what of the table, the list    *)
(* and the alarms' times holds there. The lemmas about sequences, the list   *)
(* and the arithmetic of ticks come first, then one for each action.         *)
EXTENDS Interrupts, SequenceTheorems, WellFoundedInduction, TLAPS

------------------------------------------------------------------------------
(* What holds between any two instructions.                                  *)

(* The instructions.                                                         *)
Instructions ==
  [op : {"disable", "enable", "load", "tick", "dispatch"}]
    \cup [op : {"or", "andnot", "acknowledge"}, irq : Irqs]
    \cup [op : {"handler", "context"}, irq : Lines, isr : Routines \cup {None}]
    \cup [op : {"arm"}, alarm : AlarmIds, nticks : 0..(TickMod - 2)]
    \cup [op : {"point", "link", "bypass", "unlink", "called"}, alarm : AlarmIds]
    \cup [op : {"visit"}, alarm : Entries]

Clocks ==
  [next : [Entries -> Entries], previous : [Entries -> Entries],
   time : [AlarmIds -> 0..(TickMod - 1)], rollover : [AlarmIds -> BOOLEAN],
   nticks : 0..(TickMod - 1)]

Tables ==
  [Irqs -> [isr : Routines \cup {None, "alt_tick"}, context : Routines \cup {None, "alt_tick"}]]

TypeOK ==
  /\ pie \in BOOLEAN /\ contexts \in Seq(BOOLEAN)
  /\ active \in SUBSET Irqs /\ loaded \in SUBSET Irqs
  /\ lines \in SUBSET Irqs /\ asked \in SUBSET Irqs
  /\ table \in Tables
  /\ code \in Seq(Instructions)
  /\ clock \in Clocks
  /\ wait \in [AlarmIds -> -1..(TickMod - 1)]

(* What the handler has still to do once the function that it executes has   *)
(* ended; nothing in the program.                                            *)
Endings ==
  {<<>>, ThenDispatch} \cup {Visit(e) \o ThenDispatch : e \in Entries}
    \cup (UNION {{Called(a) \o (Visit(e) \o ThenDispatch) : e \in Entries} : a \in AlarmIds})

(* The routines before they call a function.                                 *)
Beginnings ==
  (UNION {{routine \o ThenDispatch : routine \in RoutineCodes(i)} : i \in Irqs})
    \cup {TickOnce \o ThenDispatch}

(* After part, as many functions end as have disabled interrupts.            *)
Ends(count) == [k \in 1..count |-> EnableAll[1]]
Left(part, end) == code = part \o Ends(Len(contexts)) \o end
Nested == contexts # <<>>

(* The alarm list holds the alarms that run, but for those in half, and the  *)
(* others point to themselves.                                               *)
ListBut(half) ==
  /\ RingOf(clock, Running \ half)
  /\ \A a \in AlarmIds \ (Running \cup half) : clock.next[a] = a /\ clock.previous[a] = a

(* Every line but those in half has its routine with its own context, and    *)
(* the enabled ones have one.                                                *)
TableBut(half) ==
  \A i \in Irqs \ half :
    table[i].context = table[i].isr /\ (i \in active => table[i].isr # None)

(* A function on a line, at its beginning or inside.                         *)
AtLine(i, end) ==
  \/ /\ table[i].isr # None /\ TableBut({})
     /\ \/ Left(IrqEnable(i), end) \/ Left(Protected(IrqEnable(i)), end)
        \/ Nested /\ Left(Load \o Or(i), end)
        \/ Nested /\ Left(Or(i), end) /\ loaded = active
  \/ /\ TableBut({})
     /\ Left(IrqDisable(i), end) \/ Left(Protected(IrqDisable(i)), end)
  \/ /\ Nested /\ TableBut({i}) /\ table[i].context = table[i].isr
     /\ \/ Left(IrqDisable(i), end)
        \/ Left(Load \o AndNot(i), end)
        \/ Left(AndNot(i), end) /\ loaded = active

(* isr_register.                                                             *)
AtRegister(i, isr, end) ==
  \/ TableBut({}) /\ Left(IsrRegister(i, isr), end)
  \/ TableBut({}) /\ Left(Protected(IsrRegister(i, isr)), end)
  \/ Nested /\ TableBut({}) /\ Left(Registering(i, isr), end)
  \/ Nested /\ TableBut({i}) /\ table[i].isr = isr /\ Left(Context(i, isr) \o Last(i, isr), end)

(* alt_alarm_start.                                                          *)
AtStart(a, nticks, end) ==
  \/ /\ a \notin Running /\ ListBut({})
     /\ \/ Left(AlarmStart(a, nticks), end) \/ Left(Protected(AlarmStart(a, nticks)), end)
        \/ Nested /\ Left(Arm(a, nticks) \o (Point(a) \o Link(a)), end)
  \/ /\ Nested /\ a \in Running /\ ListBut({a})
     /\ \/ Left(Point(a) \o Link(a), end)
        \/ /\ Left(Link(a), end)
           /\ clock.next[a] = clock.next[AlarmList] /\ clock.previous[a] = AlarmList

(* alt_alarm_stop.                                                           *)
AtStop(a, end) ==
  \/ /\ ListBut({})
     /\ \/ Left(AlarmStop(a), end) \/ Left(Protected(AlarmStop(a)), end)
        \/ Nested /\ Left(Bypass(a) \o Unlink(a), end)
  \/ Nested /\ ListBut({a}) /\ Left(Unlink(a), end)

(* The tick has still to visit the alarms in ahead. Those in late are due or *)
(* about to be stopped; the others have been given their next time.          *)
InVisits(end) == end # <<>> /\ end[1].op \in {"visit", "called"}
Late(end) == IF end # <<>> /\ end[1].op = "called" THEN {end[1].alarm} ELSE {}

(* Where the processor is.                                                   *)
At(end, ahead, late) ==
  \/ /\ TableBut({}) /\ ListBut({}) /\ late = Late(end)
     /\ \/ Left(<<>>, end)
        \/ code \in Beginnings /\ contexts = <<>> /\ end = ThenDispatch
  \/ /\ ListBut({}) /\ late = Late(end)
     /\ \E i \in Lines :
          \/ AtLine(i, end)
          \/ end = <<>> /\ \E isr \in Routines \cup {None} : AtRegister(i, isr, end)
  \/ /\ TableBut({}) /\ late = Late(end)
     /\ \E a \in AlarmIds, nticks \in 0..(TickMod - 2) :
          /\ end = <<>> \/ a \in CallbackAlarms
          /\ a \notin ahead \cup late /\ AtStart(a, nticks, end)
  \/ \E a \in AlarmIds :
       /\ TableBut({}) /\ AtStop(a, end)
       /\ a \notin ahead /\ late \in {Late(end), IF InVisits(end) THEN Late(end) \cup {a} ELSE {}}

(* The alarm's time and flag after, and before, the tick has visited it.     *)
Sum(a) == clock.nticks + wait[a]
TimeIsSum(a) == clock.time[a] = IF Sum(a) < TickMod THEN Sum(a) ELSE Sum(a) - TickMod
Visited(a) == wait[a] > 0 /\ TimeIsSum(a) /\ (clock.rollover[a] <=> Sum(a) >= TickMod)
Unvisited(a) ==
  /\ wait[a] \in 0..(TickMod - 2) /\ TimeIsSum(a)
  /\ clock.rollover[a] <=> (Sum(a) >= TickMod \/ clock.nticks = 0)

(* The alarms ahead are the end of the list from the next one on.            *)
EndOfList(e, ahead) ==
  /\ e \in ahead \/ (e = AlarmList /\ ahead = {})
  /\ clock.previous[e] \notin ahead
  /\ \A a \in ahead : clock.next[a] \in ahead \cup {AlarmList}
  /\ \A a \in ahead \ {e} : clock.previous[a] \in ahead

TimesInv(end, ahead, late) ==
  /\ ahead \subseteq Running \ late
  /\ \A a \in Running \ (ahead \cup late) : Visited(a)
  /\ \A a \in ahead : Unvisited(a)
  /\ IF InVisits(end) THEN EndOfList(end[Len(end) - 1].alarm, ahead) ELSE ahead = {}
  /\ end # <<>> /\ end[1].op = "called" =>
       LET a == end[1].alarm
       IN \/ wait[a] = -1
          \/ wait[a] = 0 /\ clock.time[a] = clock.nticks /\ ~clock.rollover[a]

(* Interrupts are enabled in the program outside of the functions, and what  *)
(* alt_irq_disable_all has returned says so for the outermost of them.       *)
MaskInv(end) ==
  /\ pie <=> (end = <<>> /\ ~Nested)
  /\ \A k \in 1..Len(contexts) : contexts[k] <=> (end = <<>> /\ k = Len(contexts))

(* An interrupt comes between calls, or before the first instruction of one. *)
Outside(c) == c = <<>> \/ c \in Calls
ProgramInv(end) ==
  IF end = <<>> THEN pie => Outside(code)
  ELSE program.loaded \in SUBSET Irqs /\ Outside(program.code)

Where(end, ahead, late) ==
  At(end, ahead, late) /\ TimesInv(end, ahead, late) /\ MaskInv(end) /\ ProgramInv(end)

Base == TypeOK /\ active = asked /\ table[Timer].isr = "alt_tick"

HalInv ==
  /\ Base
  /\ \E end \in Endings, ahead \in SUBSET Running, late \in SUBSET AlarmIds :
       Where(end, ahead, late)

------------------------------------------------------------------------------
(* Sequences of instructions.                                                *)

\* Of three parts the first may be one instruction.
LEMMA Cons ==
  ASSUME NEW S, NEW x \in S, NEW p \in Seq(S), NEW q \in Seq(S)
  PROVE  /\ (<<x>> \o p) \o q \in Seq(S) /\ (<<x>> \o p) \o q # <<>>
         /\ ((<<x>> \o p) \o q)[1] = x
         /\ Tail((<<x>> \o p) \o q) = p \o q
<1>1. <<x>> \in Seq(S) /\ Len(<<x>>) = 1 /\ <<x>>[1] = x
  OBVIOUS
<1>2. (<<x>> \o p) \o q = <<x>> \o (p \o q) /\ p \o q \in Seq(S) /\ Len(p \o q) = Len(p) + Len(q)
  BY <1>1, ConcatAssociative, ConcatProperties
<1>3. /\ <<x>> \o (p \o q) \in Seq(S) /\ Len(<<x>> \o (p \o q)) = 1 + Len(p \o q)
      /\ \A k \in 1 .. 1 + Len(p \o q) : (<<x>> \o (p \o q))[k] =
           IF k <= 1 THEN <<x>>[k] ELSE (p \o q)[k - 1]
  BY <1>1, <1>2, ConcatProperties
<1>4. (<<x>> \o (p \o q))[1] = x /\ <<x>> \o (p \o q) # <<>>
  BY <1>1, <1>2, <1>3, LenProperties, EmptySeq
<1>5. Tail(<<x>> \o (p \o q)) = p \o q
  <2>1. /\ Tail(<<x>> \o (p \o q)) \in Seq(S) /\ Len(Tail(<<x>> \o (p \o q))) = Len(p \o q)
        /\ \A k \in 1 .. Len(p \o q) : Tail(<<x>> \o (p \o q))[k] = (<<x>> \o (p \o q))[k + 1]
    BY <1>2, <1>3, <1>4, HeadTailProperties, LenProperties
  <2>2. \A k \in 1 .. Len(p \o q) : Tail(<<x>> \o (p \o q))[k] = (p \o q)[k]
    BY <1>2, <1>3, <2>1, LenProperties
  <2> QED  BY <1>2, <2>1, <2>2, SeqEqual
<1> QED  BY <1>2, <1>3, <1>4, <1>5

\* One instruction alone.
LEMMA Single ==
  ASSUME NEW S, NEW x \in S, NEW q \in Seq(S)
  PROVE  /\ <<x>> \o q \in Seq(S) /\ <<x>> \o q # <<>> /\ (<<x>> \o q)[1] = x
         /\ Tail(<<x>> \o q) = q
<1>1. <<x>> \o <<>> = <<x>> /\ <<>> \o q = q /\ <<>> \in Seq(S) /\ <<x>> \in Seq(S)
  BY EmptySeq, ConcatEmptySeq
<1> QED  BY <1>1, Cons

\* The calls that enable interrupts again.
LEMMA EndsAre ==
  /\ EnableAll[1] = [op |-> "enable"] /\ EnableAll = <<EnableAll[1]>>
  /\ EnableAll[1] \in Instructions
  /\ Ends(0) = <<>>
  /\ \A k \in Nat : Ends(k) \in Seq(Instructions) /\ Ends(k + 1) = EnableAll \o Ends(k)
<1>1. EnableAll[1] = [op |-> "enable"] /\ EnableAll = <<EnableAll[1]>>
  BY DEF EnableAll
<1>2. EnableAll[1] \in Instructions
  BY <1>1 DEF Instructions
<1>3. \A k \in Nat : Ends(k) \in Seq(Instructions) /\ Len(Ends(k)) = k
                      /\ \A m \in 1 .. k : Ends(k)[m] = EnableAll[1]
  BY <1>2 DEF Ends
<1>4. Ends(0) = <<>>
  BY <1>3, EmptySeq
<1>5. ASSUME NEW k \in Nat PROVE Ends(k + 1) = EnableAll \o Ends(k)
  <2>1. /\ EnableAll \in Seq(Instructions) /\ Len(EnableAll) = 1
    BY <1>1, <1>2
  <2>2. /\ EnableAll \o Ends(k) \in Seq(Instructions) /\ Len(EnableAll \o Ends(k)) = 1 + k
        /\ \A m \in 1 .. 1 + k : (EnableAll \o Ends(k))[m] =
             IF m <= 1 THEN EnableAll[m] ELSE Ends(k)[m - 1]
    BY <2>1, <1>3, ConcatProperties
  <2>3. \A m \in 1 .. 1 + k : (EnableAll \o Ends(k))[m] = EnableAll[1]
    BY <2>2, <1>3
  <2>4. /\ Ends(k + 1) \in Seq(Instructions) /\ Len(Ends(k + 1)) = 1 + k
        /\ \A m \in 1 .. 1 + k : Ends(k + 1)[m] = EnableAll[1]
    BY <1>3
  <2> QED  BY <2>2, <2>3, <2>4, SeqEqual
<1> QED  BY <1>1, <1>2, <1>3, <1>4, <1>5

\* A sequence of one instruction.
One(s, op) == s = <<s[1]>> /\ s[1] \in Instructions /\ s[1].op = op

\* The instructions.
LEMMA Instrs ==
  /\ One(Load, "load") /\ One(TickOnce, "tick") /\ One(ThenDispatch, "dispatch")
  /\ One(DisableAll, "disable") /\ One(EnableAll, "enable")
  /\ \A i \in Irqs :
       /\ One(Or(i), "or") /\ Or(i)[1].irq = i
       /\ One(AndNot(i), "andnot") /\ AndNot(i)[1].irq = i
       /\ One(Ack(i), "acknowledge") /\ Ack(i)[1].irq = i
  /\ \A i \in Lines, isr \in Routines \cup {None} :
       /\ One(Handler(i, isr), "handler")
       /\ Handler(i, isr)[1].irq = i /\ Handler(i, isr)[1].isr = isr
       /\ One(Context(i, isr), "context")
       /\ Context(i, isr)[1].irq = i /\ Context(i, isr)[1].isr = isr
  /\ \A a \in AlarmIds, nticks \in 0..(TickMod - 2) :
       One(Arm(a, nticks), "arm") /\ Arm(a, nticks)[1].alarm = a /\ Arm(a, nticks)[1].nticks = nticks
  /\ \A a \in AlarmIds :
       /\ One(Point(a), "point") /\ Point(a)[1].alarm = a
       /\ One(Link(a), "link") /\ Link(a)[1].alarm = a
       /\ One(Bypass(a), "bypass") /\ Bypass(a)[1].alarm = a
       /\ One(Unlink(a), "unlink") /\ Unlink(a)[1].alarm = a
       /\ One(Called(a), "called") /\ Called(a)[1].alarm = a
  /\ \A e \in Entries : One(Visit(e), "visit") /\ Visit(e)[1].alarm = e
<1>1. /\ One(Load, "load") /\ One(TickOnce, "tick") /\ One(ThenDispatch, "dispatch")
      /\ One(DisableAll, "disable") /\ One(EnableAll, "enable")
  BY DEF One, Load, TickOnce, ThenDispatch, DisableAll, EnableAll, Instructions
<1>2. ASSUME NEW i \in Irqs
      PROVE  /\ One(Or(i), "or") /\ Or(i)[1].irq = i
             /\ One(AndNot(i), "andnot") /\ AndNot(i)[1].irq = i
             /\ One(Ack(i), "acknowledge") /\ Ack(i)[1].irq = i
  BY DEF One, Or, AndNot, Ack, Instructions
<1>3. ASSUME NEW i \in Lines, NEW isr \in Routines \cup {None}
      PROVE  /\ One(Handler(i, isr), "handler")
             /\ Handler(i, isr)[1].irq = i /\ Handler(i, isr)[1].isr = isr
             /\ One(Context(i, isr), "context")
             /\ Context(i, isr)[1].irq = i /\ Context(i, isr)[1].isr = isr
  BY DEF One, Handler, Context, Instructions
<1>4. ASSUME NEW a \in AlarmIds, NEW nticks \in 0..(TickMod - 2)
      PROVE  /\ One(Arm(a, nticks), "arm") /\ Arm(a, nticks)[1].alarm = a
             /\ Arm(a, nticks)[1].nticks = nticks
  BY DEF One, Arm, Instructions
<1>5. ASSUME NEW a \in AlarmIds
      PROVE  /\ One(Point(a), "point") /\ Point(a)[1].alarm = a
             /\ One(Link(a), "link") /\ Link(a)[1].alarm = a
             /\ One(Bypass(a), "bypass") /\ Bypass(a)[1].alarm = a
             /\ One(Unlink(a), "unlink") /\ Unlink(a)[1].alarm = a
             /\ One(Called(a), "called") /\ Called(a)[1].alarm = a
  BY DEF One, Point, Link, Bypass, Unlink, Called, Instructions
<1>6. ASSUME NEW e \in Entries
      PROVE  One(Visit(e), "visit") /\ Visit(e)[1].alarm = e
  BY DEF One, Visit, Instructions
<1> QED  BY <1>1, <1>2, <1>3, <1>4, <1>5, <1>6

\* One instruction, then others.
LEMMA OneMore ==
  ASSUME NEW s, NEW op, One(s, op), NEW p \in Seq(Instructions)
  PROVE  /\ s \in Seq(Instructions) /\ s # <<>> /\ s \o p \in Seq(Instructions) /\ s \o p # <<>>
         /\ (s \o p)[1] = s[1] /\ Tail(s \o p) = p /\ s \o <<>> = s /\ Len(s) = 1 /\ s[1].op = op
<1>1. s = <<s[1]>> /\ s[1] \in Instructions
  BY DEF One
<1>2. <<s[1]>> \o p \in Seq(Instructions) /\ <<s[1]>> \o p # <<>> /\ (<<s[1]>> \o p)[1] = s[1]
      /\ Tail(<<s[1]>> \o p) = p
  BY <1>1, Single
<1>3. ASSUME NEW x \in Instructions
      PROVE  <<x>> \in Seq(Instructions) /\ <<x>> # <<>> /\ <<x>> \o <<>> = <<x>> /\ Len(<<x>>) = 1
  <2>1. <<x>> \in Seq(Instructions) /\ <<x>> # <<>> /\ Len(<<x>>) = 1
    OBVIOUS
  <2> QED  BY <2>1, ConcatEmptySeq
<1>4. s \in Seq(Instructions) /\ s # <<>> /\ s \o <<>> = s /\ Len(s) = 1
  <2>1. PICK x \in Instructions : s = <<x>>
    BY <1>1
  <2> QED  BY <2>1, <1>3
<1> QED  BY <1>1, <1>2, <1>4 DEF One

\* The functions.
LEMMA Functions ==
  /\ \A b \in Seq(Instructions) : Protected(b) \in Seq(Instructions)
  /\ \A i \in Irqs : /\ Load \o Or(i) \in Seq(Instructions) /\ Load \o AndNot(i) \in Seq(Instructions)
                     /\ IrqEnable(i) \in Seq(Instructions) /\ IrqDisable(i) \in Seq(Instructions)
  /\ \A i \in Lines, isr \in Routines \cup {None} :
       /\ Last(i, isr) \in Seq(Instructions) /\ Context(i, isr) \o Last(i, isr) \in Seq(Instructions)
       /\ Registering(i, isr) \in Seq(Instructions) /\ IsrRegister(i, isr) \in Seq(Instructions)
  /\ \A a \in AlarmIds : /\ Point(a) \o Link(a) \in Seq(Instructions)
                         /\ Bypass(a) \o Unlink(a) \in Seq(Instructions)
                         /\ AlarmStop(a) \in Seq(Instructions)
  /\ \A a \in AlarmIds, nticks \in 0..(TickMod - 2) :
       /\ Arm(a, nticks) \o (Point(a) \o Link(a)) \in Seq(Instructions)
       /\ AlarmStart(a, nticks) \in Seq(Instructions)
<1>1. ASSUME NEW b \in Seq(Instructions) PROVE Protected(b) \in Seq(Instructions)
  <2>1. EnableAll \in Seq(Instructions)
    BY Instrs, OneMore, EmptySeq
  <2>2. b \o EnableAll \in Seq(Instructions)
    BY <2>1, ConcatProperties
  <2> QED  BY <2>2, Instrs, OneMore DEF Protected
<1>2. ASSUME NEW i \in Irqs
      PROVE  /\ Load \o Or(i) \in Seq(Instructions) /\ Load \o AndNot(i) \in Seq(Instructions)
             /\ IrqEnable(i) \in Seq(Instructions) /\ IrqDisable(i) \in Seq(Instructions)
  <2>1. Or(i) \in Seq(Instructions) /\ AndNot(i) \in Seq(Instructions)
    BY Instrs, OneMore, EmptySeq
  <2>2. Load \o Or(i) \in Seq(Instructions) /\ Load \o AndNot(i) \in Seq(Instructions)
    BY <2>1, Instrs, OneMore
  <2> QED  BY <1>1, <2>2 DEF IrqEnable, IrqDisable
<1>3. ASSUME NEW i \in Lines, NEW isr \in Routines \cup {None}
      PROVE  /\ Last(i, isr) \in Seq(Instructions)
             /\ Context(i, isr) \o Last(i, isr) \in Seq(Instructions)
             /\ Registering(i, isr) \in Seq(Instructions) /\ IsrRegister(i, isr) \in Seq(Instructions)
  <2>1. Last(i, isr) \in Seq(Instructions)
    BY <1>2 DEF Last, Lines
  <2>2. Context(i, isr) \o Last(i, isr) \in Seq(Instructions)
    BY <2>1, Instrs, OneMore
  <2>3. Registering(i, isr) \in Seq(Instructions)
    BY <2>2, Instrs, OneMore DEF Registering
  <2> QED  BY <1>1, <2>1, <2>2, <2>3 DEF IsrRegister
<1>4. ASSUME NEW a \in AlarmIds
      PROVE  /\ Point(a) \o Link(a) \in Seq(Instructions) /\ Bypass(a) \o Unlink(a) \in Seq(Instructions)
             /\ AlarmStop(a) \in Seq(Instructions)
  <2>1. Link(a) \in Seq(Instructions) /\ Unlink(a) \in Seq(Instructions)
    BY Instrs, OneMore, EmptySeq
  <2>2. Point(a) \o Link(a) \in Seq(Instructions) /\ Bypass(a) \o Unlink(a) \in Seq(Instructions)
    BY <2>1, Instrs, OneMore
  <2> QED  BY <1>1, <2>2 DEF AlarmStop
<1>5. ASSUME NEW a \in AlarmIds, NEW nticks \in 0..(TickMod - 2)
      PROVE  /\ Arm(a, nticks) \o (Point(a) \o Link(a)) \in Seq(Instructions)
             /\ AlarmStart(a, nticks) \in Seq(Instructions)
  <2>1. Arm(a, nticks) \o (Point(a) \o Link(a)) \in Seq(Instructions)
    BY <1>4, Instrs, OneMore
  <2> QED  BY <1>1, <2>1 DEF AlarmStart
<1> QED  BY <1>1, <1>2, <1>3, <1>4, <1>5

\* The endings.
LEMMA EndingsAre ==
  ASSUME NEW end \in Endings
  PROVE  /\ end \in Seq(Instructions)
         /\ \/ end = <<>> /\ ~InVisits(end) /\ Late(end) = {}
            \/ /\ end = ThenDispatch /\ ~InVisits(end) /\ Late(end) = {} /\ end # <<>>
               /\ end[1].op = "dispatch" /\ Tail(end) = <<>>
            \/ \E e \in Entries :
                 /\ end = Visit(e) \o ThenDispatch /\ InVisits(end) /\ Late(end) = {} /\ end # <<>>
                 /\ end[1].op = "visit" /\ end[1].alarm = e /\ end[Len(end) - 1].alarm = e
                 /\ Tail(end) = ThenDispatch
            \/ \E a \in AlarmIds, e \in Entries :
                 /\ end = Called(a) \o (Visit(e) \o ThenDispatch) /\ InVisits(end) /\ Late(end) = {a}
                 /\ end # <<>> /\ end[1].op = "called" /\ end[1].alarm = a
                 /\ end[Len(end) - 1].alarm = e /\ Tail(end) = Visit(e) \o ThenDispatch
<1>1. CASE end = <<>>
  BY <1>1, EmptySeq DEF InVisits, Late
<1>2. /\ ThenDispatch \in Seq(Instructions) /\ ThenDispatch # <<>> /\ ThenDispatch[1].op = "dispatch"
      /\ Len(ThenDispatch) = 1 /\ ThenDispatch \o <<>> = ThenDispatch /\ Tail(ThenDispatch) = <<>>
  <2>1. One(ThenDispatch, "dispatch") /\ <<>> \in Seq(Instructions)
    BY Instrs, EmptySeq
  <2>2. /\ ThenDispatch \in Seq(Instructions) /\ ThenDispatch # <<>> /\ ThenDispatch[1].op = "dispatch"
        /\ Len(ThenDispatch) = 1 /\ ThenDispatch \o <<>> = ThenDispatch
        /\ Tail(ThenDispatch \o <<>>) = <<>>
    BY <2>1, OneMore
  <2> QED  BY <2>2
<1>3. CASE end = ThenDispatch
  BY <1>2, <1>3 DEF InVisits, Late
<1>4. ASSUME NEW e \in Entries
      PROVE  /\ Visit(e) \o ThenDispatch \in Seq(Instructions) /\ Visit(e) \o ThenDispatch # <<>>
             /\ (Visit(e) \o ThenDispatch)[1] = Visit(e)[1] /\ Visit(e)[1].op = "visit"
             /\ Visit(e)[1].alarm = e /\ Tail(Visit(e) \o ThenDispatch) = ThenDispatch
             /\ Len(Visit(e) \o ThenDispatch) = 2
  <2>1. One(Visit(e), "visit") /\ Visit(e)[1].alarm = e
    BY Instrs
  <2>2. /\ Visit(e) \in Seq(Instructions) /\ Len(Visit(e)) = 1 /\ Visit(e)[1].op = "visit"
        /\ Visit(e) \o ThenDispatch \in Seq(Instructions) /\ Visit(e) \o ThenDispatch # <<>>
        /\ (Visit(e) \o ThenDispatch)[1] = Visit(e)[1] /\ Tail(Visit(e) \o ThenDispatch) = ThenDispatch
    BY <1>2, <2>1, OneMore
  <2>3. Len(Visit(e) \o ThenDispatch) = 1 + 1
    BY <1>2, <2>2, ConcatProperties
  <2> QED  BY <2>1, <2>2, <2>3
<1>5. CASE \E e \in Entries : end = Visit(e) \o ThenDispatch
  <2>1. PICK e \in Entries : end = Visit(e) \o ThenDispatch
    BY <1>5
  <2>2. /\ end \in Seq(Instructions) /\ end # <<>> /\ end[1].op = "visit" /\ end[1].alarm = e
        /\ Len(end) = 2 /\ Tail(end) = ThenDispatch
    BY <1>4, <2>1
  <2>3. end[Len(end) - 1].alarm = e /\ InVisits(end) /\ Late(end) = {}
    BY <2>2 DEF InVisits, Late
  <2> QED  BY <2>1, <2>2, <2>3
<1>6. CASE \E a \in AlarmIds, e \in Entries : end = Called(a) \o (Visit(e) \o ThenDispatch)
  <2>1. PICK a \in AlarmIds, e \in Entries : end = Called(a) \o (Visit(e) \o ThenDispatch)
    BY <1>6
  <2>2. One(Called(a), "called") /\ Called(a)[1].alarm = a
    BY Instrs
  <2>3. Called(a) \in Seq(Instructions) /\ Len(Called(a)) = 1 /\ Called(a)[1].op = "called"
    BY <1>4, <2>1, <2>2, OneMore
  <2>4. /\ end \in Seq(Instructions) /\ end # <<>> /\ end[1] = Called(a)[1] /\ Called(a)[1].op = "called"
        /\ Tail(end) = Visit(e) \o ThenDispatch
    BY <1>4, <2>1, <2>2, <2>3, OneMore
  <2>5. Len(end) = 3 /\ end[2] = (Visit(e) \o ThenDispatch)[1]
    <3>1. /\ Len(end) = Len(Called(a)) + Len(Visit(e) \o ThenDispatch)
          /\ \A k \in 1 .. Len(Called(a)) + Len(Visit(e) \o ThenDispatch) :
               end[k] = IF k <= Len(Called(a)) THEN Called(a)[k]
                         ELSE (Visit(e) \o ThenDispatch)[k - Len(Called(a))]
      BY <1>4, <2>1, <2>3, ConcatProperties
    <3> QED  BY <1>4, <2>3, <3>1
  <2>6. end[Len(end) - 1].alarm = e
    BY <1>4, <2>5
  <2>7. InVisits(end) /\ Late(end) = {a}
    BY <2>2, <2>4 DEF InVisits, Late
  <2> QED  BY <2>1, <2>2, <2>4, <2>6, <2>7
<1>7. \/ end = <<>> \/ end = ThenDispatch \/ \E e \in Entries : end = Visit(e) \o ThenDispatch
      \/ \E a \in AlarmIds, e \in Entries : end = Called(a) \o (Visit(e) \o ThenDispatch)
  BY DEF Endings
<1> QED  BY <1>1, <1>3, <1>5, <1>6, <1>7

\* What the program may call.
LEMMA FunctionsCalled ==
  ASSUME NEW f
  PROVE  f \in FunctionCalls <=>
           \/ \E i \in Lines, isr \in Routines \cup {None} : f = IsrRegister(i, isr)
           \/ \E i \in Lines : f = IrqEnable(i) /\ table[i].isr # None
           \/ \E i \in Lines : f = IrqDisable(i)
           \/ \E a \in AlarmIds \ (Running \cup CallbackAlarms), n \in 0..(TickMod - 2) :
                f = AlarmStart(a, n)
           \/ \E a \in AlarmIds : f = AlarmStop(a)
<1>1. f \in UNION {{IsrRegister(i, isr) : isr \in Routines \cup {None}} : i \in Lines}
        <=> \E i \in Lines, isr \in Routines \cup {None} : f = IsrRegister(i, isr)
  OBVIOUS
<1>2. f \in {IrqEnable(i) : i \in {i \in Lines : table[i].isr # None}}
        <=> \E i \in Lines : f = IrqEnable(i) /\ table[i].isr # None
  OBVIOUS
<1>3. f \in {IrqDisable(i) : i \in Lines} <=> \E i \in Lines : f = IrqDisable(i)
  OBVIOUS
<1>4. f \in UNION {{AlarmStart(a, n) : n \in 0..(TickMod - 2)} :
                  a \in AlarmIds \ (Running \cup CallbackAlarms)}
        <=> \E a \in AlarmIds \ (Running \cup CallbackAlarms), n \in 0..(TickMod - 2) :
              f = AlarmStart(a, n)
  OBVIOUS
<1>5. f \in {AlarmStop(a) : a \in AlarmIds} <=> \E a \in AlarmIds : f = AlarmStop(a)
  OBVIOUS
<1> QED  BY <1>1, <1>2, <1>3, <1>4, <1>5, ZenonT(30) DEF FunctionCalls

\* The routines at their beginning.
LEMMA BeginningsAre ==
  ASSUME NEW c, c \in Beginnings
  PROVE  \/ c = TickOnce \o ThenDispatch
         \/ c = (Ack(Timer) \o TickOnce) \o ThenDispatch
         \/ \E i \in Irqs : c = Ack(i) \o ThenDispatch
         \/ \E i \in Lines : c = (Ack(i) \o IrqDisable(i)) \o ThenDispatch
<1>1. c = TickOnce \o ThenDispatch
      \/ \E i \in Irqs : \E r \in RoutineCodes(i) : c = r \o ThenDispatch
  <2>1. c \in UNION {{r \o ThenDispatch : r \in RoutineCodes(i)} : i \in Irqs}
          => \E i \in Irqs : \E r \in RoutineCodes(i) : c = r \o ThenDispatch
    OBVIOUS
  <2>2. c \in UNION {{r \o ThenDispatch : r \in RoutineCodes(i)} : i \in Irqs}
        \/ c = TickOnce \o ThenDispatch
    BY Zenon DEF Beginnings
  <2> QED  BY <2>1, <2>2
<1>2. CASE \E i \in Irqs : \E r \in RoutineCodes(i) : c = r \o ThenDispatch
  <2>1. PICK i \in Irqs : \E r \in RoutineCodes(i) : c = r \o ThenDispatch
    BY <1>2
  <2>2. PICK r \in RoutineCodes(i) : c = r \o ThenDispatch
    BY <2>1
  <2>3. CASE i = Timer
    BY <2>2, <2>3 DEF RoutineCodes
  <2>4. CASE i # Timer
    BY <2>2, <2>4 DEF RoutineCodes, Lines
  <2> QED  BY <2>3, <2>4
<1> QED  BY <1>1, <1>2

------------------------------------------------------------------------------
(* The first of the instructions that are left.                              *)

\* No part: one that enables interrupts, or the ending.
LEMMA LeftNone ==
  ASSUME TypeOK, NEW end \in Endings, Left(<<>>, end)
  PROVE  /\ Nested => /\ code # <<>> /\ This.op = "enable" /\ Len(contexts) \in Nat \ {0}
                      /\ Rest = (<<>> \o Ends(Len(contexts) - 1)) \o end
         /\ ~Nested => code = end
<1>1. end \in Seq(Instructions) /\ Len(contexts) \in Nat /\ (Nested <=> Len(contexts) # 0)
  BY EndingsAre, EmptySeq, LenProperties DEF TypeOK, Nested
<1>2. \A s \in Seq(Instructions) : <<>> \o s = s
  BY ConcatEmptySeq
<1>3. CASE ~Nested
  BY <1>1, <1>2, <1>3, EndsAre, EmptySeq DEF Left
<1>4. CASE Nested
  <2>1. Len(contexts) - 1 \in Nat /\ (Len(contexts) - 1) + 1 = Len(contexts)
    BY <1>1, <1>4
  <2>2. Ends(Len(contexts) - 1) \in Seq(Instructions) /\ One(EnableAll, "enable")
    BY <2>1, EndsAre, Instrs
  <2>3. Ends(Len(contexts)) = EnableAll \o Ends(Len(contexts) - 1)
    BY <2>1, EndsAre
  <2>4. Ends(Len(contexts)) \in Seq(Instructions) /\ EnableAll[1].op = "enable"
    BY <1>1, EndsAre, <2>2, OneMore
  <2>5. code = (EnableAll \o Ends(Len(contexts) - 1)) \o end
    BY <1>2, <2>3, <2>4 DEF Left
  <2>6. EnableAll = <<EnableAll[1]>> /\ EnableAll[1] \in Instructions
    BY EndsAre
  <2>7. /\ code # <<>> /\ code[1] = EnableAll[1] /\ Tail(code) = Ends(Len(contexts) - 1) \o end
    <3> DEFINE x == EnableAll[1]
    <3>1. code = (<<x>> \o Ends(Len(contexts) - 1)) \o end /\ x \in Instructions
      BY <2>5, <2>6
    <3> HIDE DEF x
    <3>2. code # <<>> /\ code[1] = x /\ Tail(code) = Ends(Len(contexts) - 1) \o end
      BY <3>1, <2>2, <1>1, Cons
    <3> QED  BY <3>2 DEF x
  <2> QED  BY <1>1, <1>2, <1>4, <2>1, <2>2, <2>4, <2>7 DEF This, Rest
<1> QED  BY <1>3, <1>4

\* An instruction before a part.
LEMMA LeftOne ==
  ASSUME TypeOK, NEW end \in Endings, NEW s, NEW op, One(s, op), NEW p \in Seq(Instructions)
  PROVE  /\ Left(s \o p, end) =>
              code # <<>> /\ This = s[1] /\ This.op = op /\ Rest = (p \o Ends(Len(contexts))) \o end
         /\ Left(s, end) =>
              code # <<>> /\ This = s[1] /\ This.op = op /\ Rest = (<<>> \o Ends(Len(contexts))) \o end
<1>1. end \in Seq(Instructions) /\ Len(contexts) \in Nat
  BY EndingsAre, LenProperties DEF TypeOK
<1>2. Ends(Len(contexts)) \in Seq(Instructions) /\ <<>> \in Seq(Instructions)
  BY <1>1, EndsAre, EmptySeq
<1>3. ASSUME NEW q \in Seq(Instructions), Left(s \o q, end)
      PROVE  code # <<>> /\ This = s[1] /\ Rest = (q \o Ends(Len(contexts))) \o end
  <2>1. PICK x \in Instructions : s = <<x>> /\ s[1] = x
    BY DEF One
  <2> DEFINE r == q \o Ends(Len(contexts))
  <2>2. r \in Seq(Instructions)
    BY <1>2, ConcatProperties
  <2>3. (s \o q) \o Ends(Len(contexts)) = s \o (q \o Ends(Len(contexts)))
    <3>1. s \in Seq(Instructions)
      BY <1>2, OneMore
    <3> QED  BY <1>2, <3>1, ConcatAssociative
  <2>4. code = (<<x>> \o r) \o end
    BY <1>3, <2>1, <2>3 DEF Left
  <2> HIDE DEF r
  <2>6. (<<x>> \o r) \o end # <<>> /\ ((<<x>> \o r) \o end)[1] = x /\ Tail((<<x>> \o r) \o end) = r \o end
    BY <1>1, <2>2, Cons
  <2>5. code # <<>> /\ code[1] = x /\ Tail(code) = (q \o Ends(Len(contexts))) \o end
    BY <2>4, <2>6 DEF r
  <2> QED  BY <2>1, <2>5 DEF This, Rest
<1>4. s \o <<>> = s /\ s[1].op = op
  BY <1>2, OneMore
<1> QED  BY <1>2, <1>3, <1>4

\* A function that disables interrupts around a part.
LEMMA LeftProtected ==
  ASSUME TypeOK, NEW end \in Endings, NEW b \in Seq(Instructions), Left(Protected(b), end)
  PROVE  code # <<>> /\ This.op = "disable" /\ Rest = (b \o Ends(Len(contexts) + 1)) \o end
<1>1. end \in Seq(Instructions) /\ Len(contexts) \in Nat
  BY EndingsAre, LenProperties DEF TypeOK
<1>2. Ends(Len(contexts)) \in Seq(Instructions) /\ One(DisableAll, "disable") /\ One(EnableAll, "enable")
  BY <1>1, EndsAre, Instrs
<1>3. EnableAll \in Seq(Instructions)
  BY <1>2, OneMore
<1>4. b \o EnableAll \in Seq(Instructions)
  BY <1>3, ConcatProperties
<1>5. code # <<>> /\ This.op = "disable" /\ Rest = ((b \o EnableAll) \o Ends(Len(contexts))) \o end
  BY <1>2, <1>4, LeftOne DEF Protected
<1>6. (b \o EnableAll) \o Ends(Len(contexts)) = b \o Ends(Len(contexts) + 1)
  <2>1. Ends(Len(contexts) + 1) = EnableAll \o Ends(Len(contexts))
    BY <1>1, EndsAre
  <2>2. (b \o EnableAll) \o Ends(Len(contexts)) = b \o (EnableAll \o Ends(Len(contexts)))
    BY <1>2, <1>3, ConcatAssociative
  <2> QED  BY <2>1, <2>2
<1> QED  BY <1>5, <1>6

\* What each place begins with.
LEMMA Ops ==
  ASSUME TypeOK, NEW end \in Endings
  PROVE  /\ Left(<<>>, end) => code = end \/ (code # <<>> /\ This.op = "enable")
         /\ \A i \in Lines :
              /\ Left(IrqEnable(i), end) \/ Left(Protected(IrqEnable(i)), end)
                   \/ Left(IrqDisable(i), end) \/ Left(Protected(IrqDisable(i)), end)
                   => code # <<>> /\ This.op = "disable"
              /\ Left(Load \o Or(i), end) \/ Left(Load \o AndNot(i), end) => code # <<>> /\ This.op = "load"
              /\ Left(Or(i), end) => code # <<>> /\ This.op = "or"
              /\ Left(AndNot(i), end) => code # <<>> /\ This.op = "andnot"
         /\ \A i \in Lines, isr \in Routines \cup {None} :
              /\ Left(IsrRegister(i, isr), end) \/ Left(Protected(IsrRegister(i, isr)), end)
                   => code # <<>> /\ This.op = "disable"
              /\ Left(Registering(i, isr), end) => code # <<>> /\ This.op = "handler"
              /\ Left(Context(i, isr) \o Last(i, isr), end) => code # <<>> /\ This.op = "context"
         /\ \A a \in AlarmIds, nticks \in 0..(TickMod - 2) :
              /\ Left(AlarmStart(a, nticks), end) \/ Left(Protected(AlarmStart(a, nticks)), end)
                   => code # <<>> /\ This.op = "disable"
              /\ Left(Arm(a, nticks) \o (Point(a) \o Link(a)), end) => code # <<>> /\ This.op = "arm"
         /\ \A a \in AlarmIds :
              /\ Left(Point(a) \o Link(a), end) => code # <<>> /\ This.op = "point"
              /\ Left(Link(a), end) => code # <<>> /\ This.op = "link"
              /\ Left(AlarmStop(a), end) \/ Left(Protected(AlarmStop(a)), end)
                   => code # <<>> /\ This.op = "disable"
              /\ Left(Bypass(a) \o Unlink(a), end) => code # <<>> /\ This.op = "bypass"
              /\ Left(Unlink(a), end) => code # <<>> /\ This.op = "unlink"
<1>1. Left(<<>>, end) => code = end \/ (code # <<>> /\ This.op = "enable")
  BY LeftNone
<1>2. ASSUME NEW i \in Lines
      PROVE  /\ Left(IrqEnable(i), end) \/ Left(Protected(IrqEnable(i)), end)
                  \/ Left(IrqDisable(i), end) \/ Left(Protected(IrqDisable(i)), end)
                  => code # <<>> /\ This.op = "disable"
             /\ Left(Load \o Or(i), end) \/ Left(Load \o AndNot(i), end) => code # <<>> /\ This.op = "load"
             /\ Left(Or(i), end) => code # <<>> /\ This.op = "or"
             /\ Left(AndNot(i), end) => code # <<>> /\ This.op = "andnot"
  <2>0. i \in Irqs
    BY DEF Lines
  <2>1. One(Load, "load") /\ One(Or(i), "or") /\ One(AndNot(i), "andnot")
    BY <2>0, Instrs
  <2>2. Or(i) \in Seq(Instructions) /\ AndNot(i) \in Seq(Instructions) /\ Load \o Or(i) \in Seq(Instructions)
        /\ Load \o AndNot(i) \in Seq(Instructions)
    BY <2>0, <2>1, OneMore, EmptySeq, Functions
  <2>3. IrqEnable(i) \in Seq(Instructions) /\ IrqDisable(i) \in Seq(Instructions)
    BY <2>0, Functions
  <2>4. Left(IrqEnable(i), end) \/ Left(IrqDisable(i), end) => code # <<>> /\ This.op = "disable"
    BY <2>2, LeftProtected DEF IrqEnable, IrqDisable
  <2>5. Left(Protected(IrqEnable(i)), end) \/ Left(Protected(IrqDisable(i)), end)
          => code # <<>> /\ This.op = "disable"
    BY <2>3, LeftProtected
  <2> QED  BY <2>1, <2>2, <2>4, <2>5, LeftOne
<1>3. ASSUME NEW i \in Lines, NEW isr \in Routines \cup {None}
      PROVE  /\ Left(IsrRegister(i, isr), end) \/ Left(Protected(IsrRegister(i, isr)), end)
                  => code # <<>> /\ This.op = "disable"
             /\ Left(Registering(i, isr), end) => code # <<>> /\ This.op = "handler"
             /\ Left(Context(i, isr) \o Last(i, isr), end) => code # <<>> /\ This.op = "context"
  <2>1. One(Handler(i, isr), "handler") /\ One(Context(i, isr), "context")
    BY Instrs
  <2>2. /\ Last(i, isr) \in Seq(Instructions) /\ Context(i, isr) \o Last(i, isr) \in Seq(Instructions)
        /\ Registering(i, isr) \in Seq(Instructions) /\ IsrRegister(i, isr) \in Seq(Instructions)
    BY Functions
  <2>3. Left(IsrRegister(i, isr), end) => code # <<>> /\ This.op = "disable"
    BY <2>2, LeftProtected DEF IsrRegister
  <2>4. Left(Protected(IsrRegister(i, isr)), end) => code # <<>> /\ This.op = "disable"
    BY <2>2, LeftProtected
  <2>5. Left(Registering(i, isr), end) => code # <<>> /\ This.op = "handler"
    BY <2>1, <2>2, LeftOne DEF Registering
  <2> QED  BY <2>1, <2>2, <2>3, <2>4, <2>5, LeftOne
<1>4. ASSUME NEW a \in AlarmIds, NEW nticks \in 0..(TickMod - 2)
      PROVE  /\ Left(AlarmStart(a, nticks), end) \/ Left(Protected(AlarmStart(a, nticks)), end)
                  => code # <<>> /\ This.op = "disable"
             /\ Left(Arm(a, nticks) \o (Point(a) \o Link(a)), end) => code # <<>> /\ This.op = "arm"
  <2>1. One(Arm(a, nticks), "arm") /\ Point(a) \o Link(a) \in Seq(Instructions)
        /\ Arm(a, nticks) \o (Point(a) \o Link(a)) \in Seq(Instructions)
        /\ AlarmStart(a, nticks) \in Seq(Instructions)
    BY Instrs, Functions
  <2>2. Left(AlarmStart(a, nticks), end) => code # <<>> /\ This.op = "disable"
    BY <2>1, LeftProtected DEF AlarmStart
  <2>3. Left(Protected(AlarmStart(a, nticks)), end) => code # <<>> /\ This.op = "disable"
    BY <2>1, LeftProtected
  <2> QED  BY <2>1, <2>2, <2>3, LeftOne
<1>5. ASSUME NEW a \in AlarmIds
      PROVE  /\ Left(Point(a) \o Link(a), end) => code # <<>> /\ This.op = "point"
             /\ Left(Link(a), end) => code # <<>> /\ This.op = "link"
             /\ Left(AlarmStop(a), end) \/ Left(Protected(AlarmStop(a)), end)
                  => code # <<>> /\ This.op = "disable"
             /\ Left(Bypass(a) \o Unlink(a), end) => code # <<>> /\ This.op = "bypass"
             /\ Left(Unlink(a), end) => code # <<>> /\ This.op = "unlink"
  <2>1. /\ One(Point(a), "point") /\ One(Link(a), "link") /\ One(Bypass(a), "bypass")
        /\ One(Unlink(a), "unlink")
    BY Instrs
  <2>2. /\ Link(a) \in Seq(Instructions) /\ Unlink(a) \in Seq(Instructions)
        /\ Bypass(a) \o Unlink(a) \in Seq(Instructions) /\ AlarmStop(a) \in Seq(Instructions)
    BY <2>1, OneMore, EmptySeq, Functions
  <2>3. Left(AlarmStop(a), end) => code # <<>> /\ This.op = "disable"
    BY <2>2, LeftProtected DEF AlarmStop
  <2>4. Left(Protected(AlarmStop(a)), end) => code # <<>> /\ This.op = "disable"
    BY <2>2, LeftProtected
  <2> QED  BY <2>1, <2>2, <2>3, <2>4, LeftOne
<1> QED  BY <1>1, <1>2, <1>3, <1>4, <1>5

------------------------------------------------------------------------------
(* The list of alarms.                                                       *)

\* What the operations on the list change.
LEMMA PointsInIs ==
  ASSUME NEW c \in Clocks, NEW a \in AlarmIds
  PROVE  /\ PointsIn(c, a).previous = [c.previous EXCEPT ![a] = AlarmList]
         /\ PointsIn(c, a).next = [c.next EXCEPT ![a] = c.next[AlarmList]]
         /\ PointsIn(c, a).time = c.time /\ PointsIn(c, a).rollover = c.rollover
         /\ PointsIn(c, a).nticks = c.nticks
<1>1. a \in Entries /\ AlarmList \in Entries /\ c.next[a] \in Entries /\ c.next[AlarmList] \in Entries
      /\ c.previous[a] \in Entries
  BY DEF Clocks, Entries
<1> QED  BY <1>1 DEF Clocks, PointsIn

\* The second half of an insertion.
LEMMA LinkedIs ==
  ASSUME NEW c \in Clocks, NEW a \in AlarmIds
  PROVE  /\ Linked(c, a).previous = [c.previous EXCEPT ![c.next[AlarmList]] = a]
         /\ Linked(c, a).next = [c.next EXCEPT ![AlarmList] = a]
         /\ Linked(c, a).time = c.time /\ Linked(c, a).rollover = c.rollover
         /\ Linked(c, a).nticks = c.nticks
<1>1. a \in Entries /\ AlarmList \in Entries /\ c.next[a] \in Entries /\ c.next[AlarmList] \in Entries
      /\ c.previous[a] \in Entries
  BY DEF Clocks, Entries
<1> QED  BY <1>1 DEF Clocks, Linked

\* The first half of a removal.
LEMMA BypassedIs ==
  ASSUME NEW c \in Clocks, NEW a \in AlarmIds
  PROVE  /\ Bypassed(c, a).previous = [c.previous EXCEPT ![c.next[a]] = c.previous[a]]
         /\ Bypassed(c, a).next = [c.next EXCEPT ![c.previous[a]] = c.next[a]]
         /\ Bypassed(c, a).time = c.time /\ Bypassed(c, a).rollover = c.rollover
         /\ Bypassed(c, a).nticks = c.nticks
<1>1. a \in Entries /\ AlarmList \in Entries /\ c.next[a] \in Entries /\ c.next[AlarmList] \in Entries
      /\ c.previous[a] \in Entries
  BY DEF Clocks, Entries
<1> QED  BY <1>1 DEF Clocks, Bypassed

\* The second, which also forgets the time.
LEMMA UnlinkedIs ==
  ASSUME NEW c \in Clocks, NEW a \in AlarmIds
  PROVE  /\ Unlinked(c, a).previous = [c.previous EXCEPT ![a] = a]
         /\ Unlinked(c, a).next = [c.next EXCEPT ![a] = a]
         /\ Unlinked(c, a).nticks = c.nticks
         /\ \A b \in AlarmIds \ {a} :
              Unlinked(c, a).time[b] = c.time[b] /\ Unlinked(c, a).rollover[b] = c.rollover[b]
  BY DEF Clocks, Unlinked

\* They leave a list of alarms one.
LEMMA StillClocks ==
  ASSUME NEW c \in Clocks, NEW a \in AlarmIds
  PROVE  /\ PointsIn(c, a) \in Clocks /\ Linked(c, a) \in Clocks
         /\ Bypassed(c, a) \in Clocks /\ Unlinked(c, a) \in Clocks
<1>1. a \in Entries /\ AlarmList \in Entries /\ c.next[a] \in Entries /\ c.next[AlarmList] \in Entries
      /\ c.previous[a] \in Entries /\ 0 \in 0..(TickMod - 1)
  BY AlarmsAssumption DEF Clocks, Entries
<1>2. PointsIn(c, a) \in Clocks
  BY <1>1 DEF Clocks, PointsIn
<1>3. Linked(c, a) \in Clocks
  BY <1>1 DEF Clocks, Linked
<1>4. Bypassed(c, a) \in Clocks
  BY <1>1 DEF Clocks, Bypassed
<1>5. Unlinked(c, a) \in Clocks
  BY <1>1 DEF Clocks, Unlinked
<1> QED  BY <1>2, <1>3, <1>4, <1>5

\* A list is whole if the pointers of its entries are as they were.
LEMMA RingSame ==
  ASSUME NEW c, NEW d, NEW S, RingOf(c, S),
         \A e \in S \cup {AlarmList} : d.next[e] = c.next[e] /\ d.previous[e] = c.previous[e]
  PROVE  RingOf(d, S)
<1> DEFINE ring == S \cup {AlarmList}
<1>1. \A e \in ring : /\ c.next[e] \in ring /\ c.previous[c.next[e]] = e
                      /\ c.previous[e] \in ring /\ c.next[c.previous[e]] = e
  BY DEF RingOf
<1>2. \A e \in ring : /\ d.next[e] \in ring /\ d.previous[d.next[e]] = e
                      /\ d.previous[e] \in ring /\ d.next[d.previous[e]] = e
  BY <1>1
<1>3. ASSUME NEW part \in SUBSET ring, AlarmList \in part, \A e \in part : d.next[e] \in part
      PROVE  part = ring
  <2>1. \A e \in part : c.next[e] \in part
    BY <1>3
  <2> QED  BY <1>3, <2>1 DEF RingOf
<1> QED  BY <1>2, <1>3 DEF RingOf

\* Inserting an entry that points in already.
LEMMA RingLinked ==
  ASSUME NEW c \in Clocks, NEW S \in SUBSET AlarmIds, RingOf(c, S), NEW a \in AlarmIds \ S,
         c.next[a] = c.next[AlarmList], c.previous[a] = AlarmList
  PROVE  RingOf(Linked(c, a), S \cup {a})
<1> DEFINE old == S \cup {AlarmList}
           new == (S \cup {a}) \cup {AlarmList}
           d == Linked(c, a)
           first == c.next[AlarmList]
<1>1. \A e \in old : /\ c.next[e] \in old /\ c.previous[c.next[e]] = e
                     /\ c.previous[e] \in old /\ c.next[c.previous[e]] = e
  BY DEF RingOf
<1>2. /\ c.next \in [Entries -> Entries] /\ c.previous \in [Entries -> Entries]
      /\ old \subseteq Entries /\ a \in Entries /\ a \notin old /\ AlarmList \in old /\ a # AlarmList
  BY AlarmsAssumption DEF Clocks, Entries
<1>3. /\ d.previous = [c.previous EXCEPT ![first] = a] /\ d.next = [c.next EXCEPT ![AlarmList] = a]
  BY LinkedIs
<1>4. /\ d.next[AlarmList] = a /\ \A e \in Entries \ {AlarmList} : d.next[e] = c.next[e]
      /\ d.previous[first] = a /\ \A e \in Entries \ {first} : d.previous[e] = c.previous[e]
      /\ first \in old /\ c.previous[first] = AlarmList
  BY <1>1, <1>2, <1>3
<1>5. d.next[a] = first /\ d.previous[a] = AlarmList
  BY <1>2, <1>4
<1> HIDE DEF d, first
<1>6. \A e \in new : /\ d.next[e] \in new /\ d.previous[d.next[e]] = e
                     /\ d.previous[e] \in new /\ d.next[d.previous[e]] = e
  <2> SUFFICES ASSUME NEW e \in new
               PROVE  /\ d.next[e] \in new /\ d.previous[d.next[e]] = e
                      /\ d.previous[e] \in new /\ d.next[d.previous[e]] = e
    OBVIOUS
  <2>1. CASE e = a
    BY <1>2, <1>4, <1>5, <2>1
  <2>2. CASE e \in old
    <3>1. d.next[e] \in new /\ d.previous[d.next[e]] = e
      <4>1. CASE e = AlarmList
        BY <1>2, <1>4, <1>5, <4>1
      <4>2. CASE e # AlarmList
        <5>1. d.next[e] = c.next[e] /\ c.next[e] \in old /\ c.previous[c.next[e]] = e
          BY <1>1, <1>2, <1>4, <2>2, <4>2
        <5>2. c.next[e] # first
          BY <1>4, <4>2, <5>1
        <5> QED  BY <1>2, <1>4, <5>1, <5>2
      <4> QED  BY <4>1, <4>2
    <3>2. d.previous[e] \in new /\ d.next[d.previous[e]] = e
      <4>1. CASE e = first
        BY <1>2, <1>4, <1>5, <4>1
      <4>2. CASE e # first
        <5>1. d.previous[e] = c.previous[e] /\ c.previous[e] \in old /\ c.next[c.previous[e]] = e
          BY <1>1, <1>2, <1>4, <2>2, <4>2
        <5>2. c.previous[e] # AlarmList
          BY <4>2, <5>1 DEF first
        <5> QED  BY <1>2, <1>4, <5>1, <5>2
      <4> QED  BY <4>1, <4>2
    <3> QED  BY <3>1, <3>2
  <2> QED  BY <2>1, <2>2
<1>7. ASSUME NEW part \in SUBSET new, AlarmList \in part, \A e \in part : d.next[e] \in part
      PROVE  part = new
  <2>1. a \in part /\ first \in part
    BY <1>4, <1>5, <1>7
  <2>2. \A e \in part \ {a} : c.next[e] \in part \ {a}
    <3> SUFFICES ASSUME NEW e \in part \ {a} PROVE c.next[e] \in part \ {a}
      OBVIOUS
    <3>1. e \in old
      OBVIOUS
    <3>2. c.next[e] \in old
      BY <1>1, <3>1
    <3>3. CASE e = AlarmList
      BY <1>2, <2>1, <3>2, <3>3 DEF first
    <3>4. CASE e # AlarmList
      BY <1>2, <1>4, <1>7, <3>1, <3>2, <3>4
    <3> QED  BY <3>3, <3>4
  <2>3. part \ {a} \in SUBSET old /\ AlarmList \in part \ {a}
    BY <1>2, <1>7
  <2>4. part \ {a} = old
    BY <2>2, <2>3 DEF RingOf
  <2> QED  BY <2>1, <2>4
<1>8. RingOf(d, S \cup {a})
  BY <1>6, <1>7 DEF RingOf
<1> QED  BY <1>8 DEF d

\* Taking an entry out.
LEMMA RingBypassed ==
  ASSUME NEW c \in Clocks, NEW S \in SUBSET AlarmIds, RingOf(c, S), NEW a \in S
  PROVE  RingOf(Bypassed(c, a), S \ {a})
<1> DEFINE old == S \cup {AlarmList}
           new == (S \ {a}) \cup {AlarmList}
           d == Bypassed(c, a)
           p == c.previous[a]
           n == c.next[a]
<1>1. \A e \in old : /\ c.next[e] \in old /\ c.previous[c.next[e]] = e
                     /\ c.previous[e] \in old /\ c.next[c.previous[e]] = e
  BY DEF RingOf
<1>2. /\ c.next \in [Entries -> Entries] /\ c.previous \in [Entries -> Entries]
      /\ old \subseteq Entries /\ a \in old /\ a # AlarmList /\ AlarmList \in new /\ new = old \ {a}
  BY AlarmsAssumption DEF Clocks, Entries
<1>3. a \in AlarmIds /\ n \in Entries /\ p \in Entries
  BY <1>1, <1>2
<1>4. /\ d.previous = [c.previous EXCEPT ![n] = p] /\ d.next = [c.next EXCEPT ![p] = n]
  BY <1>3, BypassedIs
<1>5. /\ d.next[p] = n /\ \A e \in Entries \ {p} : d.next[e] = c.next[e]
      /\ d.previous[n] = p /\ \A e \in Entries \ {n} : d.previous[e] = c.previous[e]
      /\ c.next[p] = a /\ c.previous[n] = a /\ p \in old /\ n \in old
  BY <1>1, <1>2, <1>3, <1>4
<1>6. p # a /\ n # a
  <2>1. ASSUME n = a PROVE FALSE
    <3>1. \A e \in new : c.next[e] \in new
      <4> SUFFICES ASSUME NEW e \in new PROVE c.next[e] \in new
        OBVIOUS
      <4>1. c.next[e] \in old /\ c.previous[c.next[e]] = e /\ e # a
        BY <1>1, <1>2
      <4>2. c.previous[a] = a
        BY <1>5, <2>1
      <4> QED  BY <1>2, <4>1, <4>2
    <3>2. new = old
      BY <1>2, <3>1 DEF RingOf
    <3> QED  BY <1>2, <3>2
  <2>2. n # a
    BY <2>1
  <2> QED  BY <1>5, <2>2
<1> HIDE DEF d, p, n
<1>7. \A e \in new : /\ d.next[e] \in new /\ d.previous[d.next[e]] = e
                     /\ d.previous[e] \in new /\ d.next[d.previous[e]] = e
  <2> SUFFICES ASSUME NEW e \in new
               PROVE  /\ d.next[e] \in new /\ d.previous[d.next[e]] = e
                      /\ d.previous[e] \in new /\ d.next[d.previous[e]] = e
    OBVIOUS
  <2>0. e \in old /\ e # a
    BY <1>2
  <2>1. d.next[e] \in new /\ d.previous[d.next[e]] = e
    <3>1. CASE e = p
      BY <1>2, <1>5, <1>6, <3>1
    <3>2. CASE e # p
      <4>1. d.next[e] = c.next[e] /\ c.next[e] \in old /\ c.previous[c.next[e]] = e
        BY <1>1, <1>2, <1>5, <2>0, <3>2
      <4>2. c.next[e] # n /\ c.next[e] # a
        BY <1>5, <2>0, <3>2, <4>1 DEF p
      <4> QED  BY <1>2, <1>5, <4>1, <4>2
    <3> QED  BY <3>1, <3>2
  <2>2. d.previous[e] \in new /\ d.next[d.previous[e]] = e
    <3>1. CASE e = n
      BY <1>2, <1>5, <1>6, <3>1
    <3>2. CASE e # n
      <4>1. d.previous[e] = c.previous[e] /\ c.previous[e] \in old /\ c.next[c.previous[e]] = e
        BY <1>1, <1>2, <1>5, <2>0, <3>2
      <4>2. c.previous[e] # p /\ c.previous[e] # a
        BY <1>5, <2>0, <3>2, <4>1 DEF n
      <4> QED  BY <1>2, <1>5, <4>1, <4>2
    <3> QED  BY <3>1, <3>2
  <2> QED  BY <2>1, <2>2
<1>8. ASSUME NEW part \in SUBSET new, AlarmList \in part, \A e \in part : d.next[e] \in part
      PROVE  part = new
  <2>1. CASE p \in part
    <3>1. n \in part
      BY <1>5, <1>8, <2>1
    <3>2. \A e \in part \cup {a} : c.next[e] \in part \cup {a}
      <4> SUFFICES ASSUME NEW e \in part \cup {a} PROVE c.next[e] \in part \cup {a}
        OBVIOUS
      <4>1. CASE e = a
        BY <3>1, <4>1 DEF n
      <4>2. CASE e = p
        BY <1>5, <4>2
      <4>3. CASE e # a /\ e # p
        BY <1>2, <1>5, <1>8, <4>3
      <4> QED  BY <4>1, <4>2, <4>3
    <3>3. part \cup {a} \in SUBSET old /\ AlarmList \in part \cup {a}
      BY <1>2, <1>8
    <3>4. part \cup {a} = old
      BY <3>2, <3>3 DEF RingOf
    <3>5. a \notin part
      BY <1>2
    <3> QED  BY <1>2, <3>4, <3>5
  <2>2. CASE p \notin part
    <3>1. \A e \in part : c.next[e] \in part
      BY <1>2, <1>5, <1>8, <2>2
    <3>2. part \in SUBSET old
      BY <1>2
    <3>3. part = old
      BY <1>8, <3>1, <3>2 DEF RingOf
    <3> QED  BY <1>5, <2>2, <3>3
  <2> QED  BY <2>1, <2>2
<1>9. RingOf(d, S \ {a})
  BY <1>7, <1>8 DEF RingOf
<1> QED  BY <1>9 DEF d

\* A part of a list that leads to itself backwards, too, is empty.
LEMMA NoPartAlone ==
  ASSUME NEW c, NEW S, RingOf(c, S), NEW part \in SUBSET S, AlarmList \notin part,
         \A e \in part : c.previous[e] \in part
  PROVE  part = {}
<1> DEFINE ring == S \cup {AlarmList}
<1>1. \A e \in ring : c.next[e] \in ring /\ c.previous[c.next[e]] = e
  BY DEF RingOf
<1>2. \A e \in ring \ part : c.next[e] \in ring \ part
  BY <1>1
<1>3. ring \ part = ring
  BY <1>2 DEF RingOf
<1> QED  BY <1>3

------------------------------------------------------------------------------
(* The arithmetic of the ticks.                                              *)

\* A remainder within one multiple of the modulus.
LEMMA Remainder ==
  ASSUME NEW x \in Nat, x < 2 * TickMod
  PROVE  x % TickMod = IF x < TickMod THEN x ELSE x - TickMod
<1>1. TickMod \in Nat /\ TickMod > 0
  BY AlarmsAssumption
<1> QED  BY <1>1

\* A tick.
LEMMA TickedIs ==
  ASSUME NEW c \in Clocks
  PROVE  /\ Ticked(c) \in Clocks /\ Ticked(c).next = c.next /\ Ticked(c).previous = c.previous
         /\ Ticked(c).time = c.time /\ Ticked(c).rollover = c.rollover
         /\ Ticked(c).nticks = IF c.nticks = TickMod - 1 THEN 0 ELSE c.nticks + 1
<1>1. TickMod \in Nat /\ TickMod > 1 /\ c.nticks \in 0..(TickMod - 1)
  BY AlarmsAssumption DEF Clocks
<1>2. c.nticks + 1 \in Nat /\ c.nticks + 1 < 2 * TickMod
  BY <1>1
<1>3. (c.nticks + 1) % TickMod = IF c.nticks = TickMod - 1 THEN 0 ELSE c.nticks + 1
  BY <1>1, <1>2, Remainder
<1>4. (c.nticks + 1) % TickMod \in 0..(TickMod - 1)
  BY <1>1, <1>3
<1> QED  BY <1>3, <1>4 DEF Ticked, Clocks

\* The start of an alarm.
LEMMA ArmedIs ==
  ASSUME NEW c \in Clocks, NEW a \in AlarmIds, NEW n \in 0..(TickMod - 2)
  PROVE  /\ Armed(c, a, n) \in Clocks
         /\ Armed(c, a, n).next = c.next /\ Armed(c, a, n).previous = c.previous
         /\ Armed(c, a, n).nticks = c.nticks
         /\ Armed(c, a, n).time[a] = IF c.nticks + (n + 1) < TickMod THEN c.nticks + (n + 1)
                                     ELSE c.nticks + (n + 1) - TickMod
         /\ Armed(c, a, n).rollover[a] <=> c.nticks + (n + 1) >= TickMod
         /\ \A b \in AlarmIds \ {a} : /\ Armed(c, a, n).time[b] = c.time[b]
                                      /\ Armed(c, a, n).rollover[b] = c.rollover[b]
<1> DEFINE t == (n + c.nticks + 1) % TickMod
<1>1. TickMod \in Nat /\ TickMod > 1 /\ c.nticks \in 0..(TickMod - 1) /\ n \in 0..(TickMod - 2)
  BY AlarmsAssumption DEF Clocks
<1>2. n + c.nticks + 1 \in Nat /\ n + c.nticks + 1 < 2 * TickMod
  BY <1>1
<1>3. t = IF n + c.nticks + 1 < TickMod THEN n + c.nticks + 1 ELSE n + c.nticks + 1 - TickMod
  <2>1. PICK x \in Nat : x = n + c.nticks + 1 /\ x < 2 * TickMod
    BY <1>2
  <2>2. t = x % TickMod
    BY <2>1
  <2> QED  BY <1>1, <2>1, <2>2, Remainder
<1> HIDE DEF t
<1>4. /\ t = IF c.nticks + (n + 1) < TickMod THEN c.nticks + (n + 1) ELSE c.nticks + (n + 1) - TickMod
      /\ t < c.nticks <=> c.nticks + (n + 1) >= TickMod
      /\ t \in 0..(TickMod - 1)
  BY <1>1, <1>3
<1> DEFINE f == t < c.nticks
<1>5. Armed(c, a, n) = [c EXCEPT !.time[a] = t, !.rollover[a] = f]
  BY DEF Armed, t
<1>6. f \in BOOLEAN
  OBVIOUS
<1>8. f <=> t < c.nticks
  OBVIOUS
<1> HIDE DEF f
<1>7. /\ Armed(c, a, n) \in Clocks
      /\ Armed(c, a, n).next = c.next /\ Armed(c, a, n).previous = c.previous
      /\ Armed(c, a, n).nticks = c.nticks
      /\ Armed(c, a, n).time[a] = t /\ Armed(c, a, n).rollover[a] = f
      /\ \A b \in AlarmIds \ {a} : /\ Armed(c, a, n).time[b] = c.time[b]
                                   /\ Armed(c, a, n).rollover[b] = c.rollover[b]
  <2>1. t \in 0..(TickMod - 1)
    BY <1>4
  <2>2. Armed(c, a, n) \in Clocks
    <3> DEFINE times == [c.time EXCEPT ![a] = t]
               flags == [c.rollover EXCEPT ![a] = f]
    <3>1. times \in [AlarmIds -> 0..(TickMod - 1)] /\ flags \in [AlarmIds -> BOOLEAN]
      BY <2>1, <1>6 DEF Clocks
    <3>2. Armed(c, a, n) = [c EXCEPT !.time = times, !.rollover = flags]
      BY <1>5 DEF Clocks
    <3> HIDE DEF times, flags
    <3> QED  BY <3>1, <3>2 DEF Clocks
  <2>3. /\ Armed(c, a, n).next = c.next /\ Armed(c, a, n).previous = c.previous
        /\ Armed(c, a, n).nticks = c.nticks
        /\ Armed(c, a, n).time = [c.time EXCEPT ![a] = t]
        /\ Armed(c, a, n).rollover = [c.rollover EXCEPT ![a] = f]
    BY <2>1, <1>5, <1>6 DEF Clocks
  <2> QED  BY <2>1, <2>2, <2>3, <1>6 DEF Clocks
<1> QED  BY <1>4, <1>7, <1>8

\* The next time of an alarm that is due.
LEMMA RearmedIs ==
  ASSUME NEW c \in Clocks, NEW a \in AlarmIds, NEW n \in 1..(TickMod - 1),
         c.time[a] = c.nticks, ~c.rollover[a]
  PROVE  /\ Rearmed(c, a, n) \in Clocks
         /\ Rearmed(c, a, n).next = c.next /\ Rearmed(c, a, n).previous = c.previous
         /\ Rearmed(c, a, n).nticks = c.nticks
         /\ Rearmed(c, a, n).time[a] = IF c.nticks + n < TickMod THEN c.nticks + n
                                       ELSE c.nticks + n - TickMod
         /\ Rearmed(c, a, n).rollover[a] <=> c.nticks + n >= TickMod
         /\ \A b \in AlarmIds \ {a} : /\ Rearmed(c, a, n).time[b] = c.time[b]
                                      /\ Rearmed(c, a, n).rollover[b] = c.rollover[b]
<1> DEFINE t == (c.time[a] + n) % TickMod
<1>1. TickMod \in Nat /\ TickMod > 1 /\ c.nticks \in 0..(TickMod - 1) /\ n \in 1..(TickMod - 1)
  BY AlarmsAssumption DEF Clocks
<1>2. c.time[a] + n \in Nat /\ c.time[a] + n < 2 * TickMod
  BY <1>1
<1>3. t = IF c.time[a] + n < TickMod THEN c.time[a] + n ELSE c.time[a] + n - TickMod
  <2>1. PICK x \in Nat : x = c.time[a] + n /\ x < 2 * TickMod
    BY <1>2
  <2>2. t = x % TickMod
    BY <2>1
  <2> QED  BY <1>1, <2>1, <2>2, Remainder
<1> HIDE DEF t
<1>4. /\ t = IF c.nticks + n < TickMod THEN c.nticks + n ELSE c.nticks + n - TickMod
      /\ t < c.nticks <=> c.nticks + n >= TickMod
      /\ t \in 0..(TickMod - 1)
  BY <1>1, <1>3
<1> DEFINE f == c.rollover[a] \/ t < c.nticks
<1>5. Rearmed(c, a, n) = [c EXCEPT !.time[a] = t, !.rollover[a] = f]
  BY DEF Rearmed, t
<1>6. f \in BOOLEAN
  OBVIOUS
<1>8. f <=> t < c.nticks
  OBVIOUS
<1> HIDE DEF f
<1>7. /\ Rearmed(c, a, n) \in Clocks
      /\ Rearmed(c, a, n).next = c.next /\ Rearmed(c, a, n).previous = c.previous
      /\ Rearmed(c, a, n).nticks = c.nticks
      /\ Rearmed(c, a, n).time[a] = t /\ Rearmed(c, a, n).rollover[a] = f
      /\ \A b \in AlarmIds \ {a} : /\ Rearmed(c, a, n).time[b] = c.time[b]
                                   /\ Rearmed(c, a, n).rollover[b] = c.rollover[b]
  <2>1. t \in 0..(TickMod - 1)
    BY <1>4
  <2>2. Rearmed(c, a, n) \in Clocks
    <3> DEFINE times == [c.time EXCEPT ![a] = t]
               flags == [c.rollover EXCEPT ![a] = f]
    <3>1. times \in [AlarmIds -> 0..(TickMod - 1)] /\ flags \in [AlarmIds -> BOOLEAN]
      BY <2>1, <1>6 DEF Clocks
    <3>2. Rearmed(c, a, n) = [c EXCEPT !.time = times, !.rollover = flags]
      BY <1>5 DEF Clocks
    <3> HIDE DEF times, flags
    <3> QED  BY <3>1, <3>2 DEF Clocks
  <2>3. /\ Rearmed(c, a, n).next = c.next /\ Rearmed(c, a, n).previous = c.previous
        /\ Rearmed(c, a, n).nticks = c.nticks
        /\ Rearmed(c, a, n).time = [c.time EXCEPT ![a] = t]
        /\ Rearmed(c, a, n).rollover = [c.rollover EXCEPT ![a] = f]
    BY <2>1, <1>5, <1>6 DEF Clocks
  <2> QED  BY <2>1, <2>2, <2>3, <1>6 DEF Clocks
<1> QED  BY <1>4, <1>7, <1>8

\* What a tick does to the flag of an alarm.
LEMMA FlagClearedIs ==
  ASSUME NEW c \in Clocks, NEW a \in AlarmIds
  PROVE  /\ FlagCleared(c, a) \in Clocks
         /\ FlagCleared(c, a).next = c.next /\ FlagCleared(c, a).previous = c.previous
         /\ FlagCleared(c, a).nticks = c.nticks /\ FlagCleared(c, a).time = c.time
         /\ FlagCleared(c, a).rollover[a] <=> (c.rollover[a] /\ c.nticks # 0)
         /\ \A b \in AlarmIds \ {a} : FlagCleared(c, a).rollover[b] = c.rollover[b]
  BY DEF Clocks, FlagCleared

------------------------------------------------------------------------------
(* What a step leaves as it was.                                             *)

\* The rest of a function is one of instructions, too.
LEMMA ThisIs ==
  ASSUME TypeOK, code # <<>>
  PROVE  This \in Instructions /\ Rest \in Seq(Instructions)
  BY DEF TypeOK, This, Rest

\* A function that has disabled interrupts.
LEMMA Entered ==
  ASSUME TypeOK, NEW end \in Endings, NEW b \in Seq(Instructions), Left(Protected(b), end),
         code' = Rest, NEW x \in BOOLEAN, contexts' = <<x>> \o contexts
  PROVE  Left(b, end)' /\ Nested'
<1>1. Len(contexts') = Len(contexts) + 1 /\ contexts' # <<>>
  BY DEF TypeOK
<1>2. code' = (b \o Ends(Len(contexts) + 1)) \o end
  BY LeftProtected
<1> QED  BY <1>1, <1>2 DEF Left, Nested

\* One that has gone on by an instruction.
LEMMA WentOn ==
  ASSUME TypeOK, NEW end \in Endings, NEW s, NEW op, One(s, op), NEW p \in Seq(Instructions),
         code' = Rest, contexts' = contexts
  PROVE  /\ Left(s \o p, end) => Left(p, end)'
         /\ Left(s, end) => Left(<<>>, end)'
<1>1. /\ Left(s \o p, end) => code' = (p \o Ends(Len(contexts'))) \o end
      /\ Left(s, end) => code' = (<<>> \o Ends(Len(contexts'))) \o end
  BY LeftOne
<1> QED  BY <1>1 DEF Left

\* The list and the table stay as they are.
LEMMA ListSame ==
  ASSUME UNCHANGED <<clock, wait>>, NEW half
  PROVE  ListBut(half)' <=> ListBut(half)
  BY DEF ListBut, Running

\* The table of routines stays as it is.
LEMMA TableSame ==
  ASSUME UNCHANGED <<table, active>>, NEW half
  PROVE  TableBut(half)' <=> TableBut(half)
  BY DEF TableBut

\* And so do the times and what the program calls.
LEMMA TimesSame ==
  ASSUME UNCHANGED <<clock, wait>>, NEW end, NEW ahead, NEW late
  PROVE  TimesInv(end, ahead, late)' <=> TimesInv(end, ahead, late)
  BY DEF TimesInv, Running, Visited, Unvisited, TimeIsSum, Sum, EndOfList

\* What the program may call depends on the table and the running alarms.
LEMMA CallsSame ==
  ASSUME UNCHANGED <<table, wait>>
  PROVE  Calls' = Calls
  BY DEF Calls, FunctionCalls, Running

------------------------------------------------------------------------------
(* Where the processor is, by its next instruction.                          *)

\* A routine begins with its line or with the tick.
LEMMA BeginningsOps ==
  ASSUME NEW c, c \in Beginnings
  PROVE  /\ c # <<>> /\ c[1].op \in {"tick", "acknowledge"} /\ c \in Seq(Instructions)
         /\ c[1].op = "tick" => Tail(c) = ThenDispatch
         /\ c[1].op = "acknowledge" =>
              \/ Tail(c) = ThenDispatch \/ Tail(c) = TickOnce \o ThenDispatch
              \/ \E i \in Lines : Tail(c) = IrqDisable(i) \o ThenDispatch
<1>0. Timer \in Irqs /\ Lines \subseteq Irqs
  BY InterruptsAssumption DEF Lines
<1>1. /\ One(TickOnce, "tick") /\ One(ThenDispatch, "dispatch")
      /\ \A i \in Irqs : One(Ack(i), "acknowledge")
  BY Instrs
<1>2. ThenDispatch \in Seq(Instructions) /\ TickOnce \in Seq(Instructions)
      /\ TickOnce \o ThenDispatch \in Seq(Instructions)
  BY <1>1, OneMore, EmptySeq
<1>3. ASSUME NEW i \in Irqs, NEW p \in Seq(Instructions)
      PROVE  /\ (Ack(i) \o p) \o ThenDispatch = Ack(i) \o (p \o ThenDispatch)
             /\ p \o ThenDispatch \in Seq(Instructions) /\ Ack(i) \in Seq(Instructions)
  BY <1>1, <1>2, OneMore, EmptySeq, ConcatAssociative, ConcatProperties
<1>4. CASE c = TickOnce \o ThenDispatch
  BY <1>1, <1>2, <1>4, OneMore
<1>5. CASE c = (Ack(Timer) \o TickOnce) \o ThenDispatch
  <2>1. c = Ack(Timer) \o (TickOnce \o ThenDispatch)
    BY <1>0, <1>2, <1>3, <1>5
  <2> QED  BY <1>0, <1>1, <1>2, <2>1, OneMore
<1>6. CASE \E i \in Irqs : c = Ack(i) \o ThenDispatch
  BY <1>1, <1>2, <1>6, OneMore
<1>7. CASE \E i \in Lines : c = (Ack(i) \o IrqDisable(i)) \o ThenDispatch
  <2>1. PICK i \in Lines : c = (Ack(i) \o IrqDisable(i)) \o ThenDispatch
    BY <1>7
  <2>2. IrqDisable(i) \in Seq(Instructions)
    BY <1>0, Functions
  <2>3. c = Ack(i) \o (IrqDisable(i) \o ThenDispatch) /\ IrqDisable(i) \o ThenDispatch \in Seq(Instructions)
    BY <1>0, <1>3, <2>1, <2>2
  <2>4. i \in Irqs /\ One(Ack(i), "acknowledge")
    BY <1>0, <1>1
  <2>5. /\ c # <<>> /\ c[1].op = "acknowledge" /\ c \in Seq(Instructions)
        /\ Tail(c) = IrqDisable(i) \o ThenDispatch
    BY <2>3, <2>4, OneMore
  <2> QED  BY <2>5
<1> QED  BY <1>4, <1>5, <1>6, <1>7, BeginningsAre

\* What comes after a function of the handler.
LEMMA EndingsOps ==
  ASSUME NEW end \in Endings, end # <<>>
  PROVE  end[1].op \in {"dispatch", "visit", "called"}
  BY EndingsAre

\* The handler and its routine, and alt_tick, between functions.
LEMMA BetweenFunctions ==
  ASSUME TypeOK, NEW end \in Endings, NEW ahead, NEW late, At(end, ahead, late), code # <<>>,
         This.op \in {"dispatch", "tick", "visit", "called", "acknowledge"}
  PROVE  /\ TableBut({}) /\ ListBut({}) /\ late = Late(end)
         /\ \/ code = end /\ ~Nested
            \/ code \in Beginnings /\ contexts = <<>> /\ end = ThenDispatch
<1>1. Left(<<>>, end) => code = end /\ ~Nested
  BY LeftNone
<1>2. \A i \in Lines : ~AtLine(i, end)
  BY Ops DEF AtLine
<1>3. \A i \in Lines, isr \in Routines \cup {None} : ~AtRegister(i, isr, end)
  BY Ops DEF AtRegister
<1>4. \A a \in AlarmIds, nticks \in 0..(TickMod - 2) : ~AtStart(a, nticks, end)
  BY Ops DEF AtStart
<1>5. \A a \in AlarmIds : ~AtStop(a, end)
  BY Ops DEF AtStop
<1> QED  BY <1>1, <1>2, <1>3, <1>4, <1>5 DEF At

\* At the end of a function.
LEMMA AtEnable ==
  ASSUME TypeOK, NEW end \in Endings, NEW ahead, NEW late, At(end, ahead, late), code # <<>>,
         This.op = "enable"
  PROVE  TableBut({}) /\ ListBut({}) /\ late = Late(end) /\ Nested /\ Left(<<>>, end)
<1>1. Left(<<>>, end) => Nested
  BY LeftNone, EndingsOps DEF This
<1>2. \A i \in Lines : ~AtLine(i, end)
  BY Ops DEF AtLine
<1>3. \A i \in Lines, isr \in Routines \cup {None} : ~AtRegister(i, isr, end)
  BY Ops DEF AtRegister
<1>4. \A a \in AlarmIds, nticks \in 0..(TickMod - 2) : ~AtStart(a, nticks, end)
  BY Ops DEF AtStart
<1>5. \A a \in AlarmIds : ~AtStop(a, end)
  BY Ops DEF AtStop
<1>6. code \notin Beginnings
  BY BeginningsOps DEF This
<1> QED  BY <1>1, <1>2, <1>3, <1>4, <1>5, <1>6 DEF At

\* Inside a function on a line.
LEMMA AtIrq ==
  ASSUME TypeOK, NEW end \in Endings, NEW ahead, NEW late, At(end, ahead, late), code # <<>>,
         This.op \in {"load", "or", "andnot"}
  PROVE  /\ ListBut({}) /\ late = Late(end) /\ Nested
         /\ \E i \in Lines :
              \/ /\ table[i].isr # None /\ TableBut({})
                 /\ \/ Left(Load \o Or(i), end) /\ This.op = "load"
                    \/ Left(Or(i), end) /\ loaded = active /\ This.op = "or"
              \/ /\ TableBut({i}) /\ table[i].context = table[i].isr
                 /\ \/ Left(Load \o AndNot(i), end) /\ This.op = "load"
                    \/ Left(AndNot(i), end) /\ loaded = active /\ This.op = "andnot"
<1>1. ~Left(<<>>, end)
  BY LeftNone, EndingsOps DEF This
<1>2. \A i \in Lines : AtLine(i, end) =>
        /\ Nested
        /\ \/ /\ table[i].isr # None /\ TableBut({})
              /\ \/ Left(Load \o Or(i), end) /\ This.op = "load"
                 \/ Left(Or(i), end) /\ loaded = active /\ This.op = "or"
           \/ /\ TableBut({i}) /\ table[i].context = table[i].isr
              /\ \/ Left(Load \o AndNot(i), end) /\ This.op = "load"
                 \/ Left(AndNot(i), end) /\ loaded = active /\ This.op = "andnot"
  BY Ops DEF AtLine
<1>3. \A i \in Lines, isr \in Routines \cup {None} : ~AtRegister(i, isr, end)
  BY Ops DEF AtRegister
<1>4. \A a \in AlarmIds, nticks \in 0..(TickMod - 2) : ~AtStart(a, nticks, end)
  BY Ops DEF AtStart
<1>5. \A a \in AlarmIds : ~AtStop(a, end)
  BY Ops DEF AtStop
<1>6. code \notin Beginnings
  BY BeginningsOps DEF This
<1>7. ListBut({}) /\ late = Late(end) /\ \E i \in Lines : AtLine(i, end)
  BY <1>1, <1>3, <1>4, <1>5, <1>6 DEF At
<1> QED  BY <1>2, <1>7

\* Inside isr_register.
LEMMA AtTable ==
  ASSUME TypeOK, NEW end \in Endings, NEW ahead, NEW late, At(end, ahead, late), code # <<>>,
         This.op \in {"handler", "context"}
  PROVE  /\ ListBut({}) /\ late = Late(end) /\ Nested /\ end = <<>>
         /\ \E i \in Lines, isr \in Routines \cup {None} :
              \/ This.op = "handler" /\ TableBut({}) /\ Left(Registering(i, isr), end)
              \/ /\ This.op = "context" /\ TableBut({i}) /\ table[i].isr = isr
                 /\ Left(Context(i, isr) \o Last(i, isr), end)
<1>1. ~Left(<<>>, end)
  BY LeftNone, EndingsOps DEF This
<1>2. \A i \in Lines : ~AtLine(i, end)
  BY Ops DEF AtLine
<1>3. \A i \in Lines, isr \in Routines \cup {None} : AtRegister(i, isr, end) =>
        /\ Nested
        /\ \/ This.op = "handler" /\ TableBut({}) /\ Left(Registering(i, isr), end)
           \/ /\ This.op = "context" /\ TableBut({i}) /\ table[i].isr = isr
              /\ Left(Context(i, isr) \o Last(i, isr), end)
  BY Ops DEF AtRegister
<1>4. \A a \in AlarmIds, nticks \in 0..(TickMod - 2) : ~AtStart(a, nticks, end)
  BY Ops DEF AtStart
<1>5. \A a \in AlarmIds : ~AtStop(a, end)
  BY Ops DEF AtStop
<1>6. code \notin Beginnings
  BY BeginningsOps DEF This
<1>7. /\ ListBut({}) /\ late = Late(end) /\ end = <<>>
      /\ \E i \in Lines, isr \in Routines \cup {None} : AtRegister(i, isr, end)
  BY <1>1, <1>2, <1>4, <1>5, <1>6 DEF At
<1> QED  BY <1>3, <1>7

\* Inside alt_alarm_start.
LEMMA AtInsert ==
  ASSUME TypeOK, NEW end \in Endings, NEW ahead, NEW late, At(end, ahead, late), code # <<>>,
         This.op \in {"arm", "point", "link"}
  PROVE  /\ TableBut({}) /\ late = Late(end) /\ Nested
         /\ \E a \in AlarmIds, nticks \in 0..(TickMod - 2) :
              /\ end = <<>> \/ a \in CallbackAlarms
              /\ a \notin ahead \cup late
              /\ \/ /\ This.op = "arm" /\ a \notin Running /\ ListBut({})
                    /\ Left(Arm(a, nticks) \o (Point(a) \o Link(a)), end)
                 \/ /\ This.op = "point" /\ a \in Running /\ ListBut({a})
                    /\ Left(Point(a) \o Link(a), end)
                 \/ /\ This.op = "link" /\ a \in Running /\ ListBut({a}) /\ Left(Link(a), end)
                    /\ clock.next[a] = clock.next[AlarmList] /\ clock.previous[a] = AlarmList
<1>1. ~Left(<<>>, end)
  BY LeftNone, EndingsOps DEF This
<1>2. \A i \in Lines : ~AtLine(i, end)
  BY Ops DEF AtLine
<1>3. \A i \in Lines, isr \in Routines \cup {None} : ~AtRegister(i, isr, end)
  BY Ops DEF AtRegister
<1>4. \A a \in AlarmIds, nticks \in 0..(TickMod - 2) : AtStart(a, nticks, end) =>
        /\ Nested
        /\ \/ /\ This.op = "arm" /\ a \notin Running /\ ListBut({})
              /\ Left(Arm(a, nticks) \o (Point(a) \o Link(a)), end)
           \/ /\ This.op = "point" /\ a \in Running /\ ListBut({a})
              /\ Left(Point(a) \o Link(a), end)
           \/ /\ This.op = "link" /\ a \in Running /\ ListBut({a}) /\ Left(Link(a), end)
              /\ clock.next[a] = clock.next[AlarmList] /\ clock.previous[a] = AlarmList
  BY Ops DEF AtStart
<1>5. \A a \in AlarmIds : ~AtStop(a, end)
  BY Ops DEF AtStop
<1>6. code \notin Beginnings
  BY BeginningsOps DEF This
<1>7. /\ TableBut({}) /\ late = Late(end)
      /\ \E a \in AlarmIds, nticks \in 0..(TickMod - 2) :
           /\ end = <<>> \/ a \in CallbackAlarms
           /\ a \notin ahead \cup late /\ AtStart(a, nticks, end)
  BY <1>1, <1>2, <1>3, <1>5, <1>6 DEF At
<1> QED  BY <1>4, <1>7

\* Inside alt_alarm_stop.
LEMMA AtRemove ==
  ASSUME TypeOK, NEW end \in Endings, NEW ahead, NEW late, At(end, ahead, late), code # <<>>,
         This.op \in {"bypass", "unlink"}
  PROVE  /\ TableBut({}) /\ Nested
         /\ \E a \in AlarmIds :
              /\ a \notin ahead
              /\ late \in {Late(end), IF InVisits(end) THEN Late(end) \cup {a} ELSE {}}
              /\ \/ This.op = "bypass" /\ ListBut({}) /\ Left(Bypass(a) \o Unlink(a), end)
                 \/ This.op = "unlink" /\ ListBut({a}) /\ Left(Unlink(a), end)
<1>1. ~Left(<<>>, end)
  BY LeftNone, EndingsOps DEF This
<1>2. \A i \in Lines : ~AtLine(i, end)
  BY Ops DEF AtLine
<1>3. \A i \in Lines, isr \in Routines \cup {None} : ~AtRegister(i, isr, end)
  BY Ops DEF AtRegister
<1>4. \A a \in AlarmIds, nticks \in 0..(TickMod - 2) : ~AtStart(a, nticks, end)
  BY Ops DEF AtStart
<1>5. \A a \in AlarmIds : AtStop(a, end) =>
        /\ Nested
        /\ \/ This.op = "bypass" /\ ListBut({}) /\ Left(Bypass(a) \o Unlink(a), end)
           \/ This.op = "unlink" /\ ListBut({a}) /\ Left(Unlink(a), end)
  BY Ops DEF AtStop
<1>6. code \notin Beginnings
  BY BeginningsOps DEF This
<1>7. \E a \in AlarmIds :
        /\ TableBut({}) /\ AtStop(a, end)
        /\ a \notin ahead /\ late \in {Late(end), IF InVisits(end) THEN Late(end) \cup {a} ELSE {}}
  BY <1>1, <1>2, <1>3, <1>4, <1>6 DEF At
<1> QED  BY <1>5, <1>7

\* While interrupts are enabled everything is whole.
LEMMA NotNested ==
  ASSUME NEW end, NEW ahead, NEW late, At(end, ahead, late), ~Nested
  PROVE  TableBut({}) /\ ListBut({})
<1>1. /\ \A i : AtLine(i, end) => TableBut({})
      /\ \A i, isr : AtRegister(i, isr, end) => TableBut({})
      /\ \A a, nticks : AtStart(a, nticks, end) => ListBut({})
      /\ \A a : AtStop(a, end) => ListBut({})
  BY DEF AtLine, AtRegister, AtStart, AtStop
<1> QED  BY <1>1 DEF At

------------------------------------------------------------------------------
(* The steps keep the invariant.                                             *)

\* It is enough to say where the processor is.
LEMMA Found ==
  ASSUME Base', NEW end \in Endings, NEW ahead \in SUBSET AlarmIds, NEW late \in SUBSET AlarmIds,
         At(end, ahead, late)', TimesInv(end, ahead, late)', MaskInv(end)', ProgramInv(end)'
  PROVE  HalInv'
<1>1. ahead \in SUBSET Running'
  BY DEF TimesInv, Running
<1> QED  BY <1>1 DEF HalInv, Where

\* What the contexts say follows from them, PIE and the ending alone.
LEMMA MaskSame ==
  ASSUME NEW end, MaskInv(end), UNCHANGED <<pie, contexts>>
  PROVE  MaskInv(end)'
  BY DEF MaskInv, Nested

\* What the program may call in the next state.
LEMMA FunctionsCalledNext ==
  (\A f : f \in FunctionCalls <=>
             \/ \E i \in Lines, isr \in Routines \cup {None} : f = IsrRegister(i, isr)
             \/ \E i \in Lines : f = IrqEnable(i) /\ table[i].isr # None
             \/ \E i \in Lines : f = IrqDisable(i)
             \/ \E a \in AlarmIds \ (Running \cup CallbackAlarms), n \in 0..(TickMod - 2) :
                  f = AlarmStart(a, n)
             \/ \E a \in AlarmIds : f = AlarmStop(a))'
<1>1. \A f : f \in FunctionCalls <=>
             \/ \E i \in Lines, isr \in Routines \cup {None} : f = IsrRegister(i, isr)
             \/ \E i \in Lines : f = IrqEnable(i) /\ table[i].isr # None
             \/ \E i \in Lines : f = IrqDisable(i)
             \/ \E a \in AlarmIds \ (Running \cup CallbackAlarms), n \in 0..(TickMod - 2) :
                  f = AlarmStart(a, n)
             \/ \E a \in AlarmIds : f = AlarmStop(a)
  BY FunctionsCalled
<1> QED  BY <1>1, PTL

\* Unless an alarm of the program is started or the table changes, what the
\* program may call it may call in the next state, too.
LEMMA CallsGrow ==
  ASSUME table' = table, Running' \subseteq Running \cup CallbackAlarms, NEW c, Outside(c)
  PROVE  Outside(c)'
<1>1. ASSUME NEW f \in FunctionCalls
      PROVE  f \in FunctionCalls'
  BY <1>1, FunctionsCalled, FunctionsCalledNext
<1> QED  BY <1>1 DEF Outside, Calls

\* In the handler, and in a function that has disabled interrupts, nothing
\* interrupts, and what is left of the interrupted program stays callable.
LEMMA ProgramSame ==
  ASSUME NEW end, ProgramInv(end), MaskInv(end), end # <<>> \/ Nested, pie' = pie,
         program' = program, end = <<>> \/ (table' = table /\ Running' \subseteq Running \cup CallbackAlarms)
  PROVE  ProgramInv(end)'
<1>1. ~pie'
  BY DEF MaskInv
<1> QED  BY <1>1, CallsGrow DEF ProgramInv

\* alt_irq_disable_all.
LEMMA DisableKeeps ==
  ASSUME Base, NEW end \in Endings, NEW ahead \in SUBSET AlarmIds, NEW late \in SUBSET AlarmIds,
         Where(end, ahead, late),
         Executes("disable"), contexts' = <<pie>> \o contexts, pie' = FALSE, code' = Rest,
         UNCHANGED <<active, loaded, table, lines, program, clock, asked, wait>>
  PROVE  HalInv'
<1>1. TypeOK /\ code # <<>> /\ This.op = "disable" /\ pie \in BOOLEAN
  BY DEF Base, TypeOK, Executes, This
<1>2. Base'
  <2>1. code' \in Seq(Instructions)
    BY <1>1, ThisIs
  <2>2. contexts' \in Seq(BOOLEAN)
    BY <1>1, Single DEF TypeOK
  <2> QED  BY <1>1, <2>1, <2>2 DEF Base, TypeOK
<1>3. \A b \in Seq(Instructions) : Left(Protected(b), end) => Left(b, end)' /\ Nested'
  BY <1>1, Entered
<1>4. At(end, ahead, late)'
  <2>1. /\ \A half : ListBut(half) => ListBut(half)'
        /\ \A half : TableBut(half) => TableBut(half)'
    BY ListSame, TableSame
  <2>2. CASE ListBut({}) /\ late = Late(end) /\ \E i \in Lines : AtLine(i, end)
    <3>1. PICK i \in Lines : AtLine(i, end)
      BY <2>2
    <3>2. i \in Irqs
      BY DEF Lines
    <3>3. /\ Load \o Or(i) \in Seq(Instructions) /\ Load \o AndNot(i) \in Seq(Instructions)
          /\ IrqEnable(i) \in Seq(Instructions) /\ IrqDisable(i) \in Seq(Instructions)
      BY <3>2, Functions
    <3>4. \/ Left(IrqEnable(i), end) /\ table[i].isr # None /\ TableBut({})
          \/ Left(Protected(IrqEnable(i)), end) /\ table[i].isr # None /\ TableBut({})
          \/ /\ Left(IrqDisable(i), end) /\ table[i].context = table[i].isr
             /\ TableBut({}) \/ TableBut({i})
          \/ Left(Protected(IrqDisable(i)), end) /\ TableBut({})
      BY <1>1, <3>1, <3>2, Ops DEF AtLine, TableBut
    <3>5. AtLine(i, end)'
      <4>1. TableBut({}) => TableBut({i})
        BY DEF TableBut
      <4>2. Left(IrqEnable(i), end) => Left(Load \o Or(i), end)' /\ Nested'
        BY <1>3, <3>3 DEF IrqEnable
      <4>3. Left(IrqDisable(i), end) => Left(Load \o AndNot(i), end)' /\ Nested'
        BY <1>3, <3>3 DEF IrqDisable
      <4>4. /\ Left(Protected(IrqEnable(i)), end) => Left(IrqEnable(i), end)' /\ Nested'
            /\ Left(Protected(IrqDisable(i)), end) => Left(IrqDisable(i), end)' /\ Nested'
        BY <1>3, <3>3
      <4> QED  BY <2>1, <3>4, <4>1, <4>2, <4>3, <4>4 DEF AtLine
    <3> QED  BY <2>1, <2>2, <3>5 DEF At
  <2>3. CASE ListBut({}) /\ late = Late(end) /\ end = <<>> /\
             \E i \in Lines, isr \in Routines \cup {None} : AtRegister(i, isr, end)
    <3>1. PICK i \in Lines, isr \in Routines \cup {None} : AtRegister(i, isr, end)
      BY <2>3
    <3>2. TableBut({}) /\ (Left(IsrRegister(i, isr), end) \/ Left(Protected(IsrRegister(i, isr)), end))
      BY <1>1, <3>1, Ops DEF AtRegister
    <3>3. Registering(i, isr) \in Seq(Instructions) /\ IsrRegister(i, isr) \in Seq(Instructions)
      BY Functions
    <3>4. Left(IsrRegister(i, isr), end) => Left(Registering(i, isr), end)' /\ Nested'
      BY <1>3, <3>3 DEF IsrRegister
    <3>5. Left(Protected(IsrRegister(i, isr)), end) => Left(IsrRegister(i, isr), end)' /\ Nested'
      BY <1>3, <3>3
    <3>6. AtRegister(i, isr, end)'
      BY <2>1, <3>2, <3>4, <3>5 DEF AtRegister
    <3> QED  BY <2>1, <2>3, <3>6 DEF At
  <2>4. CASE /\ TableBut({}) /\ late = Late(end)
             /\ \E a \in AlarmIds, nticks \in 0..(TickMod - 2) :
                  /\ end = <<>> \/ a \in CallbackAlarms
                  /\ a \notin ahead \cup late /\ AtStart(a, nticks, end)
    <3>1. PICK a \in AlarmIds, nticks \in 0..(TickMod - 2) :
            /\ end = <<>> \/ a \in CallbackAlarms
            /\ a \notin ahead \cup late /\ AtStart(a, nticks, end)
      BY <2>4
    <3>2. /\ a \notin Running /\ ListBut({})
          /\ Left(AlarmStart(a, nticks), end) \/ Left(Protected(AlarmStart(a, nticks)), end)
      BY <1>1, <3>1, Ops DEF AtStart
    <3>3. /\ Arm(a, nticks) \o (Point(a) \o Link(a)) \in Seq(Instructions)
          /\ AlarmStart(a, nticks) \in Seq(Instructions)
      BY Functions
    <3>4. Left(AlarmStart(a, nticks), end)
            => Left(Arm(a, nticks) \o (Point(a) \o Link(a)), end)' /\ Nested'
      BY <1>3, <3>3 DEF AlarmStart
    <3>5. Left(Protected(AlarmStart(a, nticks)), end) => Left(AlarmStart(a, nticks), end)' /\ Nested'
      BY <1>3, <3>3
    <3>6. Running' = Running
      BY DEF Running
    <3>7. AtStart(a, nticks, end)'
      BY <2>1, <3>2, <3>4, <3>5, <3>6 DEF AtStart
    <3> QED  BY <2>1, <2>4, <3>1, <3>7 DEF At
  <2>5. CASE \E a \in AlarmIds :
               /\ TableBut({}) /\ AtStop(a, end) /\ a \notin ahead
               /\ late \in {Late(end), IF InVisits(end) THEN Late(end) \cup {a} ELSE {}}
    <3>1. PICK a \in AlarmIds :
               /\ TableBut({}) /\ AtStop(a, end) /\ a \notin ahead
               /\ late \in {Late(end), IF InVisits(end) THEN Late(end) \cup {a} ELSE {}}
      BY <2>5
    <3>2. ListBut({}) /\ (Left(AlarmStop(a), end) \/ Left(Protected(AlarmStop(a)), end))
      BY <1>1, <3>1, Ops DEF AtStop
    <3>3. Bypass(a) \o Unlink(a) \in Seq(Instructions) /\ AlarmStop(a) \in Seq(Instructions)
      BY Functions
    <3>4. Left(AlarmStop(a), end) => Left(Bypass(a) \o Unlink(a), end)' /\ Nested'
      BY <1>3, <3>3 DEF AlarmStop
    <3>5. Left(Protected(AlarmStop(a)), end) => Left(AlarmStop(a), end)' /\ Nested'
      BY <1>3, <3>3
    <3>6. AtStop(a, end)'
      BY <2>1, <3>2, <3>4, <3>5 DEF AtStop
    <3> QED  BY <2>1, <3>1, <3>6 DEF At
  <2>6. ~Left(<<>>, end) /\ code \notin Beginnings
    BY <1>1, LeftNone, EndingsOps, BeginningsOps, LeftNone DEF This
  <2>7. At(end, ahead, late)
    BY DEF Where
  <2> QED  BY <2>2, <2>3, <2>4, <2>5, <2>6, <2>7 DEF At
<1>5. TimesInv(end, ahead, late)'
  BY TimesSame DEF Where
<1>6. MaskInv(end)'
  <2>1. /\ Len(contexts') = Len(contexts) + 1 /\ contexts'[1] = pie /\ Len(contexts) \in Nat
        /\ \A k \in 1 .. Len(contexts) : contexts'[k + 1] = contexts[k]
    BY <1>1 DEF TypeOK
  <2> QED  BY <2>1 DEF Where, MaskInv, Nested
<1>7. ProgramInv(end)'
  BY CallsSame DEF Where, ProgramInv, Outside
<1> QED  BY <1>2, <1>4, <1>5, <1>6, <1>7, Found

\* alt_irq_enable_all.
LEMMA EnableKeeps ==
  ASSUME Base, NEW end \in Endings, NEW ahead \in SUBSET AlarmIds, NEW late \in SUBSET AlarmIds,
         Where(end, ahead, late),
         Executes("enable"), pie' = contexts[1], contexts' = Tail(contexts), code' = Rest,
         UNCHANGED <<active, loaded, table, lines, program, clock, asked, wait>>
  PROVE  HalInv'
<1>1. TypeOK /\ code # <<>> /\ This.op = "enable" /\ At(end, ahead, late)
  BY DEF Base, Executes, This, Where
<1>2. TableBut({}) /\ ListBut({}) /\ late = Late(end) /\ Nested /\ Left(<<>>, end)
  BY <1>1, AtEnable
<1>3. /\ Len(contexts) \in Nat \ {0} /\ Len(contexts') = Len(contexts) - 1
      /\ contexts[1] \in BOOLEAN /\ contexts' \in Seq(BOOLEAN)
      /\ \A k \in 1 .. Len(contexts') : contexts'[k] = contexts[k + 1]
  BY <1>1, <1>2 DEF TypeOK, Nested
<1>4. Left(<<>>, end)'
  <2>1. Rest = (<<>> \o Ends(Len(contexts) - 1)) \o end
    BY <1>1, <1>2, LeftNone
  <2> QED  BY <1>3, <2>1 DEF Left
<1>5. Base'
  BY <1>1, <1>3, ThisIs DEF Base, TypeOK
<1>6. At(end, ahead, late)'
  BY <1>2, <1>4, ListSame, TableSame DEF At
<1>7. TimesInv(end, ahead, late)'
  BY TimesSame DEF Where
<1>8. Nested' <=> Len(contexts') # 0
  BY <1>3, EmptySeq DEF Nested
<1>9. MaskInv(end)'
  <2>0. \A k \in 1 .. Len(contexts) : contexts[k] <=> (end = <<>> /\ k = Len(contexts))
    BY DEF Where, MaskInv
  <2>1. pie' <=> (end = <<>> /\ Len(contexts) = 1)
    <3>1. 1 \in 1 .. Len(contexts)
      BY <1>3
    <3>2. contexts[1] <=> (end = <<>> /\ 1 = Len(contexts))
      BY <2>0, <3>1
    <3> QED  BY <3>2
  <2>2. ASSUME NEW k \in 1 .. Len(contexts')
        PROVE  contexts'[k] <=> (end = <<>> /\ k = Len(contexts'))
    <3>1. k + 1 \in 1 .. Len(contexts) /\ (k + 1 = Len(contexts) <=> k = Len(contexts'))
      BY <1>3
    <3>2. contexts[k + 1] <=> (end = <<>> /\ k + 1 = Len(contexts))
      BY <2>0, <3>1
    <3>3. contexts'[k] = contexts[k + 1]
      BY <1>3
    <3> QED  BY <3>1, <3>2, <3>3
  <2>3. Len(contexts) = 1 <=> ~Nested'
    BY <1>3, <1>8
  <2>4. pie' <=> (end = <<>> /\ ~Nested')
    BY <2>1, <2>3
  <2> QED  BY <2>2, <2>4 DEF MaskInv
<1>10. ProgramInv(end)'
  <2>1. CASE end = <<>>
    <3>1. SUFFICES ASSUME pie' PROVE code' = <<>>
      BY <2>1 DEF ProgramInv, Outside
    <3>2. Len(contexts') = 0
      BY <1>8, <1>9, <3>1 DEF MaskInv
    <3>3. code' = (<<>> \o Ends(0)) \o <<>>
      BY <1>4, <2>1, <3>2 DEF Left
    <3> QED  BY <3>3, EndsAre
  <2>2. CASE end # <<>>
    BY <2>2, CallsSame DEF Where, ProgramInv, Outside
  <2> QED  BY <2>1, <2>2
<1> QED  BY <1>5, <1>6, <1>7, <1>9, <1>10, Found

\* Both of them.
LEMMA SetPieKeeps ==
  ASSUME Base, NEW end \in Endings, NEW ahead \in SUBSET AlarmIds, NEW late \in SUBSET AlarmIds,
         Where(end, ahead, late), SetPie
  PROVE  HalInv'
  BY DisableKeeps, EnableKeeps DEF SetPie

\* The load of alt_irq_active.
LEMMA LoadActiveKeeps ==
  ASSUME Base, NEW end \in Endings, NEW ahead \in SUBSET AlarmIds, NEW late \in SUBSET AlarmIds,
         Where(end, ahead, late), LoadActive
  PROVE  HalInv'
<1>1. /\ TypeOK /\ code # <<>> /\ This.op = "load" /\ At(end, ahead, late)
      /\ code' = Rest /\ contexts' = contexts /\ loaded' = active /\ pie' = pie
      /\ UNCHANGED <<active, table, lines, program, clock, asked, wait>>
  BY DEF Base, Executes, This, Where, LoadActive
<1>2. /\ ListBut({}) /\ late = Late(end) /\ Nested
      /\ \E i \in Lines :
           \/ table[i].isr # None /\ TableBut({}) /\ Left(Load \o Or(i), end)
           \/ table[i].context = table[i].isr /\ TableBut({i}) /\ Left(Load \o AndNot(i), end)
  BY <1>1, AtIrq
<1>3. PICK i \in Lines :
           \/ table[i].isr # None /\ TableBut({}) /\ Left(Load \o Or(i), end)
           \/ table[i].context = table[i].isr /\ TableBut({i}) /\ Left(Load \o AndNot(i), end)
  BY <1>2
<1>4. /\ One(Load, "load") /\ Or(i) \in Seq(Instructions) /\ AndNot(i) \in Seq(Instructions)
  BY Instrs, OneMore, EmptySeq DEF Lines
<1>5. /\ Left(Load \o Or(i), end) => Left(Or(i), end)'
      /\ Left(Load \o AndNot(i), end) => Left(AndNot(i), end)'
  BY <1>1, <1>4, WentOn
<1>6. Base'
  BY <1>1, ThisIs DEF Base, TypeOK
<1>7. Nested' /\ (\A half : TableBut(half) => TableBut(half)') /\ ListBut({})'
  BY <1>1, <1>2, ListSame, TableSame DEF Nested
<1>8. AtLine(i, end)'
  BY <1>1, <1>3, <1>5, <1>7 DEF AtLine
<1>9. At(end, ahead, late)'
  BY <1>2, <1>7, <1>8 DEF At
<1>10. TimesInv(end, ahead, late)' /\ MaskInv(end)'
  BY <1>1, TimesSame, MaskSame DEF Where
<1>11. ProgramInv(end)'
  BY <1>1, <1>2, ProgramSame DEF Where, Running
<1> QED  BY <1>6, <1>9, <1>10, <1>11, Found

\* The store.
LEMMA StoreActiveKeeps ==
  ASSUME Base, NEW end \in Endings, NEW ahead \in SUBSET AlarmIds, NEW late \in SUBSET AlarmIds,
         Where(end, ahead, late), StoreActive
  PROVE  HalInv'
<1>1. /\ TypeOK /\ active = asked /\ code # <<>> /\ This.op \in {"or", "andnot"} /\ At(end, ahead, late)
      /\ code' = Rest /\ contexts' = contexts /\ loaded' = {} /\ pie' = pie
      /\ UNCHANGED <<table, lines, program, clock, wait>>
  BY DEF Base, Executes, This, Where, StoreActive
<1>2. /\ ListBut({}) /\ late = Late(end) /\ Nested
      /\ \E i \in Lines :
           \/ table[i].isr # None /\ TableBut({}) /\ Left(Or(i), end) /\ loaded = active /\ This.op = "or"
           \/ /\ table[i].context = table[i].isr /\ TableBut({i}) /\ Left(AndNot(i), end)
              /\ loaded = active /\ This.op = "andnot"
  BY <1>1, AtIrq
<1>3. PICK i \in Lines :
           \/ table[i].isr # None /\ TableBut({}) /\ Left(Or(i), end) /\ loaded = active /\ This.op = "or"
           \/ /\ table[i].context = table[i].isr /\ TableBut({i}) /\ Left(AndNot(i), end)
              /\ loaded = active /\ This.op = "andnot"
  BY <1>2
<1>4. i \in Irqs /\ One(Or(i), "or") /\ One(AndNot(i), "andnot") /\ Or(i)[1].irq = i /\ AndNot(i)[1].irq = i
  BY Instrs DEF Lines
<1>5. /\ Left(Or(i), end) => Left(<<>>, end)' /\ This.irq = i
      /\ Left(AndNot(i), end) => Left(<<>>, end)' /\ This.irq = i
  BY <1>1, <1>4, WentOn, LeftOne, EmptySeq
<1>6. /\ active' = asked' /\ active' \in SUBSET Irqs /\ Left(<<>>, end)'
      /\ \/ active' = active \cup {i} /\ table[i].isr # None /\ TableBut({})
         \/ active' = active \ {i} /\ table[i].context = table[i].isr /\ TableBut({i})
  <2>1. CASE This.op = "or"
    <3>1. /\ table[i].isr # None /\ TableBut({}) /\ Left(Or(i), end) /\ loaded = active
      BY <1>3, <2>1
    <3>2. Left(<<>>, end)' /\ This.irq = i
      BY <1>5, <3>1
    <3>3. active' = loaded \cup {This.irq} /\ asked' = asked \cup {This.irq}
      BY <2>1 DEF StoreActive, Executes, This
    <3> QED  BY <1>1, <1>4, <3>1, <3>2, <3>3 DEF TypeOK
  <2>2. CASE This.op = "andnot"
    <3>1. /\ table[i].context = table[i].isr /\ TableBut({i}) /\ Left(AndNot(i), end) /\ loaded = active
      BY <1>3, <2>2
    <3>2. Left(<<>>, end)' /\ This.irq = i
      BY <1>5, <3>1
    <3>3. active' = loaded \ {This.irq} /\ asked' = asked \ {This.irq}
      BY <2>2 DEF StoreActive, Executes, This
    <3> QED  BY <1>1, <1>4, <3>1, <3>2, <3>3 DEF TypeOK
  <2> QED  BY <1>1, <2>1, <2>2
<1>7. Base'
  BY <1>1, <1>6, ThisIs DEF Base, TypeOK
<1>8. TableBut({})' /\ ListBut({})'
  <2>1. ListBut({})'
    BY <1>1, <1>2, ListSame
  <2>2. \/ active' = active \cup {i} /\ table[i].isr # None /\ TableBut({})
        \/ active' = active \ {i} /\ table[i].context = table[i].isr /\ TableBut({i})
    BY <1>6
  <2> QED  BY <1>1, <1>4, <2>1, <2>2 DEF TableBut
<1>9. At(end, ahead, late)'
  BY <1>2, <1>6, <1>8 DEF At
<1>10. TimesInv(end, ahead, late)' /\ MaskInv(end)'
  BY <1>1, TimesSame, MaskSame DEF Where
<1>11. ProgramInv(end)'
  BY <1>1, <1>2, ProgramSame DEF Where, Running
<1> QED  BY <1>7, <1>9, <1>10, <1>11, Found

\* isr_register's stores.
LEMMA SetRoutineKeeps ==
  ASSUME Base, NEW end \in Endings, NEW ahead \in SUBSET AlarmIds, NEW late \in SUBSET AlarmIds,
         Where(end, ahead, late), SetRoutine
  PROVE  HalInv'
<1>1. /\ TypeOK /\ code # <<>> /\ This.op \in {"handler", "context"} /\ At(end, ahead, late)
      /\ code' = Rest /\ contexts' = contexts /\ pie' = pie
      /\ UNCHANGED <<active, loaded, lines, program, clock, asked, wait>>
  BY DEF Base, Executes, This, Where, SetRoutine
<1>2. /\ ListBut({}) /\ late = Late(end) /\ Nested /\ end = <<>>
      /\ \E i \in Lines, isr \in Routines \cup {None} :
           \/ This.op = "handler" /\ TableBut({}) /\ Left(Registering(i, isr), end)
           \/ /\ This.op = "context" /\ TableBut({i}) /\ table[i].isr = isr
              /\ Left(Context(i, isr) \o Last(i, isr), end)
  BY <1>1, AtTable
<1>3. PICK i \in Lines, isr \in Routines \cup {None} :
           \/ This.op = "handler" /\ TableBut({}) /\ Left(Registering(i, isr), end)
           \/ /\ This.op = "context" /\ TableBut({i}) /\ table[i].isr = isr
              /\ Left(Context(i, isr) \o Last(i, isr), end)
  BY <1>2
<1>4. /\ i \in Irqs /\ i # Timer
      /\ One(Handler(i, isr), "handler") /\ Handler(i, isr)[1].irq = i /\ Handler(i, isr)[1].isr = isr
      /\ One(Context(i, isr), "context") /\ Context(i, isr)[1].irq = i /\ Context(i, isr)[1].isr = isr
  BY Instrs DEF Lines
<1>5. /\ Last(i, isr) \in Seq(Instructions) /\ Context(i, isr) \o Last(i, isr) \in Seq(Instructions)
  BY Functions
<1>6. /\ Left(Registering(i, isr), end) =>
           Left(Context(i, isr) \o Last(i, isr), end)' /\ This.irq = i /\ This.isr = isr
      /\ Left(Context(i, isr) \o Last(i, isr), end) =>
           Left(Last(i, isr), end)' /\ This.irq = i /\ This.isr = isr
  BY <1>1, <1>4, <1>5, WentOn, LeftOne DEF Registering
<1>7. /\ table \in Tables
      /\ table[i] \in [isr : Routines \cup {None, "alt_tick"}, context : Routines \cup {None, "alt_tick"}]
  BY <1>1, <1>4 DEF Tables, TypeOK
<1>8. Nested' /\ ListBut({})'
  BY <1>1, <1>2, ListSame DEF Nested
<1>9. ASSUME This.op = "handler"
      PROVE  At(end, ahead, late)' /\ Base'
  <2>1. table' = [table EXCEPT ![i].isr = isr] /\ TableBut({}) /\ Left(Context(i, isr) \o Last(i, isr), end)'
    BY <1>3, <1>6, <1>9 DEF SetRoutine, Executes, This
  <2>2. /\ table' \in Tables
        /\ table'[i].isr = isr /\ \A j \in Irqs \ {i} : table'[j] = table[j]
    BY <1>4, <1>7, <2>1 DEF Tables
  <2>3. TableBut({i})'
    BY <1>1, <2>1, <2>2 DEF TableBut
  <2>4. AtRegister(i, isr, end)'
    BY <1>8, <2>1, <2>2, <2>3 DEF AtRegister
  <2>5. At(end, ahead, late)'
    BY <1>2, <1>8, <2>4 DEF At
  <2>6. Base'
    BY <1>1, <1>4, <2>2, ThisIs, InterruptsAssumption DEF Base, TypeOK
  <2> QED  BY <2>5, <2>6
<1>10. ASSUME This.op = "context"
       PROVE  At(end, ahead, late)' /\ Base'
  <2>1. /\ table' = [table EXCEPT ![i].context = isr] /\ TableBut({i}) /\ table[i].isr = isr
        /\ Left(Last(i, isr), end)'
    BY <1>3, <1>6, <1>10 DEF SetRoutine, Executes, This
  <2>2. /\ table' \in Tables
        /\ table'[i].isr = isr /\ table'[i].context = isr /\ \A j \in Irqs \ {i} : table'[j] = table[j]
    BY <1>4, <1>7, <2>1 DEF Tables
  <2>3. TableBut({i})'
    BY <1>1, <2>1, <2>2 DEF TableBut
  <2>4. isr # None => TableBut({})'
    BY <2>2, <2>3 DEF TableBut
  <2>5. isr # None => Left(IrqEnable(i), end)'
    BY <2>1 DEF Last
  <2>6. isr = None => Left(IrqDisable(i), end)'
    BY <2>1 DEF Last
  <2>7. AtLine(i, end)'
    BY <1>8, <2>2, <2>3, <2>4, <2>5, <2>6 DEF AtLine
  <2>8. At(end, ahead, late)'
    BY <1>2, <1>8, <2>7 DEF At
  <2>9. Base'
    BY <1>1, <1>4, <2>2, ThisIs, InterruptsAssumption DEF Base, TypeOK
  <2> QED  BY <2>8, <2>9
<1>11. TimesInv(end, ahead, late)' /\ MaskInv(end)'
  BY <1>1, TimesSame, MaskSame DEF Where
<1>12. ProgramInv(end)'
  BY <1>1, <1>2, ProgramSame DEF Where, Running
<1> QED  BY <1>1, <1>9, <1>10, <1>11, <1>12, Found
------------------------------------------------------------------------------
(* Taking an interrupt, serving it, and calls.                               *)

\* What the program calls is code, and an interrupt may find it there.
LEMMA CallsCode ==
  ASSUME NEW c \in Calls
  PROVE  c \in Seq(Instructions) /\ c # <<>>
<1>1. ASSUME NEW b \in Seq(Instructions)
      PROVE  Protected(b) \in Seq(Instructions) /\ Protected(b) # <<>>
  <2>1. One(DisableAll, "disable") /\ One(EnableAll, "enable")
    BY Instrs
  <2>2. b \o EnableAll \in Seq(Instructions)
    BY <2>1, OneMore, EmptySeq, ConcatProperties
  <2> QED  BY <2>1, <2>2, OneMore DEF Protected
<1>2. ASSUME NEW f \in FunctionCalls
      PROVE  \E b \in Seq(Instructions) : f = Protected(b)
  <2>1. CASE \E i \in Lines, isr \in Routines \cup {None} : f = IsrRegister(i, isr)
    BY <2>1, Functions DEF IsrRegister
  <2>2. CASE \E i \in Lines : f = IrqEnable(i) \/ f = IrqDisable(i)
    BY <2>2, Functions DEF IrqEnable, IrqDisable, Lines
  <2>3. CASE \E a \in AlarmIds, n \in 0..(TickMod - 2) : f = AlarmStart(a, n)
    BY <2>3, Functions DEF AlarmStart
  <2>4. CASE \E a \in AlarmIds : f = AlarmStop(a)
    BY <2>4, Functions DEF AlarmStop
  <2> QED  BY <2>1, <2>2, <2>3, <2>4, FunctionsCalled
<1> QED  BY <1>1, <1>2 DEF Calls

\* Before the first instruction of a function that the program calls.
LEMMA AtCall ==
  ASSUME TypeOK, code \in Calls, contexts = <<>>, TableBut({}), ListBut({})
  PROVE  At(<<>>, {}, {})
<1>0. <<>> \in Endings /\ Late(<<>>) = {}
  BY DEF Endings, Late
<1>1. Len(contexts) = 0 /\ Ends(0) = <<>>
  BY EndsAre
<1>2. ASSUME NEW b \in Seq(Instructions)
      PROVE  Left(b, <<>>) <=> code = b
  BY <1>1 DEF Left
<1>3. PICK f \in FunctionCalls : code = f \/ code = Protected(f)
  BY DEF Calls
<1>4. CASE \E i \in Lines, isr \in Routines \cup {None} : f = IsrRegister(i, isr)
  <2>1. PICK i \in Lines, isr \in Routines \cup {None} : f = IsrRegister(i, isr)
    BY <1>4
  <2>2. f \in Seq(Instructions) /\ Protected(f) \in Seq(Instructions)
    BY <2>1, Functions
  <2>3. AtRegister(i, isr, <<>>)
    BY <1>2, <1>3, <2>1, <2>2 DEF AtRegister
  <2> QED  BY <1>0, <2>3 DEF At
<1>5. CASE \E i \in Lines : (f = IrqEnable(i) /\ table[i].isr # None) \/ f = IrqDisable(i)
  <2>1. PICK i \in Lines : (f = IrqEnable(i) /\ table[i].isr # None) \/ f = IrqDisable(i)
    BY <1>5
  <2>2. f \in Seq(Instructions) /\ Protected(f) \in Seq(Instructions)
    BY <2>1, Functions DEF Lines
  <2>3. AtLine(i, <<>>)
    BY <1>2, <1>3, <2>1, <2>2 DEF AtLine
  <2> QED  BY <1>0, <2>3 DEF At
<1>6. CASE \E a \in AlarmIds \ (Running \cup CallbackAlarms), n \in 0..(TickMod - 2) : f = AlarmStart(a, n)
  <2>1. PICK a \in AlarmIds \ (Running \cup CallbackAlarms), n \in 0..(TickMod - 2) : f = AlarmStart(a, n)
    BY <1>6
  <2>2. f \in Seq(Instructions) /\ Protected(f) \in Seq(Instructions)
    BY <2>1, Functions
  <2>3. AtStart(a, n, <<>>)
    BY <1>2, <1>3, <2>1, <2>2 DEF AtStart
  <2> QED  BY <1>0, <2>1, <2>3 DEF At
<1>7. CASE \E a \in AlarmIds : f = AlarmStop(a)
  <2>1. PICK a \in AlarmIds : f = AlarmStop(a)
    BY <1>7
  <2>2. f \in Seq(Instructions) /\ Protected(f) \in Seq(Instructions)
    BY <2>1, Functions
  <2>3. AtStop(a, <<>>)
    BY <1>2, <1>3, <2>1, <2>2 DEF AtStop
  <2> QED  BY <1>0, <2>3 DEF At
<1> QED  BY <1>4, <1>5, <1>6, <1>7, FunctionsCalled

\* So is a state in which nothing is left to do.
LEMMA AtNothing ==
  ASSUME contexts = <<>>, NEW end \in Endings, code = end, TableBut({}), ListBut({})
  PROVE  \A ahead : At(end, ahead, Late(end))
<1>1. Len(contexts) = 0 /\ Ends(0) = <<>> /\ end \in Seq(Instructions)
  BY EndsAre, EndingsAre
<1>2. Left(<<>>, end)
  BY <1>1 DEF Left
<1> QED  BY <1>2 DEF At

\* The same of the next state.
LEMMA AtCallNext ==
  (TypeOK /\ code \in Calls /\ contexts = <<>> /\ TableBut({}) /\ ListBut({}) => At(<<>>, {}, {}))'
<1>1. TypeOK /\ code \in Calls /\ contexts = <<>> /\ TableBut({}) /\ ListBut({}) => At(<<>>, {}, {})
  BY AtCall
<1> QED  BY <1>1, PTL

\* The same of the next state.
LEMMA AtNothingNext ==
  (\A end \in Endings :
     contexts = <<>> /\ code = end /\ TableBut({}) /\ ListBut({}) => \A ahead : At(end, ahead, Late(end)))'
<1>1. \A end \in Endings :
        contexts = <<>> /\ code = end /\ TableBut({}) /\ ListBut({}) => \A ahead : At(end, ahead, Late(end))
  BY AtNothing
<1> QED  BY <1>1, PTL

\* A step that changes at most the lines.
LEMMA SameKeeps ==
  ASSUME Base, NEW end \in Endings, NEW ahead \in SUBSET AlarmIds, NEW late \in SUBSET AlarmIds,
         Where(end, ahead, late), lines' \in SUBSET Irqs,
         UNCHANGED <<pie, contexts, active, loaded, table, code, program, clock, asked, wait>>
  PROVE  HalInv'
<1>1. UNCHANGED <<pie, contexts, active, loaded, table, code, program, clock, asked, wait>>
      /\ Running' = Running
  BY DEF Running
<1>2. Base'
  BY <1>1 DEF Base, TypeOK
<1>3. At(end, ahead, late)'
  <2>1. /\ \A half : ListBut(half)' <=> ListBut(half)
        /\ \A half : TableBut(half)' <=> TableBut(half)
    BY <1>1, ListSame, TableSame
  <2>2. \A part : Left(part, end)' <=> Left(part, end)
    BY <1>1 DEF Left
  <2>3. Nested' <=> Nested
    BY <1>1 DEF Nested
  <2>4. \A j : AtLine(j, end) => AtLine(j, end)'
    BY <1>1, <2>1, <2>2, <2>3 DEF AtLine
  <2>5. \A j, isr : AtRegister(j, isr, end) => AtRegister(j, isr, end)'
    BY <1>1, <2>1, <2>2, <2>3 DEF AtRegister
  <2>6. \A a, n : AtStart(a, n, end) => AtStart(a, n, end)'
    BY <1>1, <2>1, <2>2, <2>3 DEF AtStart
  <2>7. \A a : AtStop(a, end) => AtStop(a, end)'
    BY <1>1, <2>1, <2>2, <2>3 DEF AtStop
  <2>8. At(end, ahead, late)
    BY DEF Where
  <2> QED  BY <1>1, <2>1, <2>2, <2>4, <2>5, <2>6, <2>7, <2>8 DEF At
<1>4. TimesInv(end, ahead, late)' /\ MaskInv(end)'
  BY <1>1, TimesSame, MaskSame DEF Where
<1>5. ProgramInv(end)'
  BY <1>1, CallsSame DEF Where, ProgramInv, Outside
<1> QED  BY <1>2, <1>3, <1>4, <1>5, Found

\* A device raises its line.
LEMMA RaiseKeeps ==
  ASSUME Base, NEW end \in Endings, NEW ahead \in SUBSET AlarmIds, NEW late \in SUBSET AlarmIds,
         Where(end, ahead, late), NEW i \in Irqs, Raise(i)
  PROVE  HalInv'
  BY SameKeeps DEF Raise, Base, TypeOK

\* An interrupt.
LEMMA TakeInterruptKeeps ==
  ASSUME Base, NEW end \in Endings, NEW ahead \in SUBSET AlarmIds, NEW late \in SUBSET AlarmIds,
         Where(end, ahead, late), TakeInterrupt
  PROVE  HalInv'
<1>1. /\ TypeOK /\ pie /\ At(end, ahead, late) /\ TimesInv(end, ahead, late)
      /\ MaskInv(end) /\ ProgramInv(end)
      /\ program' = [code |-> code, loaded |-> loaded] /\ pie' = FALSE /\ code' = ThenDispatch
      /\ UNCHANGED <<contexts, active, loaded, table, lines, clock, asked, wait>>
  BY DEF Base, Where, TakeInterrupt
<1>2. end = <<>> /\ ~Nested /\ Outside(code)
  BY <1>1 DEF MaskInv, ProgramInv
<1>3. TableBut({}) /\ ListBut({})
  BY <1>1, <1>2, NotNested
<1>4. late = {} /\ Late(<<>>) = {} /\ ahead = {} /\ ~InVisits(<<>>)
  BY <1>1, <1>2 DEF At, Late, InVisits, TimesInv
<1>5. /\ ThenDispatch \in Endings /\ ThenDispatch \in Seq(Instructions) /\ ~InVisits(ThenDispatch)
      /\ Late(ThenDispatch) = {} /\ ThenDispatch # <<>> /\ ThenDispatch[1].op = "dispatch"
  <2>1. ThenDispatch \in Endings /\ One(ThenDispatch, "dispatch")
    BY Instrs DEF Endings
  <2>2. ThenDispatch \in Seq(Instructions) /\ ThenDispatch # <<>> /\ ThenDispatch[1].op = "dispatch"
    BY <2>1, OneMore, EmptySeq
  <2> QED  BY <2>1, <2>2 DEF InVisits, Late
<1>6. Base'
  BY <1>1, <1>5 DEF Base, TypeOK
<1>7. At(ThenDispatch, {}, {})'
  <2>1. TableBut({})' /\ ListBut({})' /\ contexts' = <<>>
    BY <1>1, <1>2, <1>3, ListSame, TableSame DEF Nested
  <2>2. At(ThenDispatch, {}, Late(ThenDispatch))'
    BY <1>1, <1>5, <2>1, AtNothingNext
  <2> QED  BY <1>5, <2>2
<1>8. TimesInv(ThenDispatch, {}, {})'
  <2>1. TimesInv(<<>>, {}, {})'
    BY <1>1, <1>2, <1>4, TimesSame
  <2> QED  BY <1>4, <1>5, <2>1 DEF TimesInv
<1>9. MaskInv(ThenDispatch)'
  BY <1>1, <1>2, <1>5 DEF MaskInv, Nested
<1>10. ProgramInv(ThenDispatch)'
  <2>1. program'.code = code /\ program'.loaded \in SUBSET Irqs
    BY <1>1 DEF TypeOK
  <2>2. Outside(program.code)'
    BY <1>1, <1>2, <2>1, CallsSame DEF Outside
  <2> QED  BY <1>2, <1>5, <2>1, <2>2 DEF ProgramInv
<1> QED  BY <1>5, <1>6, <1>7, <1>8, <1>9, <1>10, Found

\* Of the pending lines one has the lowest number.
LEMMA LowestPending ==
  ASSUME TypeOK, Pending # {}
  PROVE  Min(Pending) \in Pending /\ Min(Pending) \in Irqs
<1>1. Pending \in SUBSET Nat /\ Pending \subseteq Irqs
  BY InterruptsAssumption DEF TypeOK, Pending
<1>2. PICK m \in Pending : \A k \in Pending : <<k, m>> \notin OpToRel(<, Nat)
  BY <1>1, WFMin, NatLessThanWellFounded, Zenon
<1>3. \A k \in Pending : k \in Nat /\ m \in Nat /\ <<k, m>> \in Nat \X Nat
  BY <1>1
<1>4. \A k \in Pending : ~(k < m)
  BY <1>2, <1>3, Zenon DEF OpToRel
<1>5. ASSUME NEW k \in Pending
      PROVE  m <= k
  <2>1. k \in Nat /\ m \in Nat /\ ~(k < m)
    BY <1>3, <1>4
  <2> QED  BY <2>1
<1>6. Min(Pending) \in Pending
  BY <1>5, Zenon DEF Min
<1> QED  BY <1>1, <1>6

\* The handler calls a routine.
LEMMA DispatchKeeps ==
  ASSUME Base, NEW end \in Endings, NEW ahead \in SUBSET AlarmIds, NEW late \in SUBSET AlarmIds,
         Where(end, ahead, late), Dispatch
  PROVE  HalInv'
<1>1. /\ TypeOK /\ code # <<>> /\ This.op = "dispatch" /\ At(end, ahead, late) /\ Pending # {}
      /\ UNCHANGED <<pie, contexts, active, loaded, table, lines, program, clock, asked, wait>>
  BY DEF Base, Executes, This, Where, Dispatch
<1>2. PICK routine \in RoutineCodes(Min(Pending)) : code' = routine \o code
  BY DEF Dispatch
<1>3. TableBut({}) /\ ListBut({}) /\ late = Late(end) /\ code = end /\ ~Nested
  BY <1>1, BetweenFunctions, BeginningsOps DEF This
<1>4. end = ThenDispatch
  BY <1>1, <1>3, EndingsAre DEF This
<1>5. code' \in Beginnings /\ code' \in Seq(Instructions)
  <2>1. code' \in Beginnings
    <3>1. \A i \in Irqs : \A r \in RoutineCodes(i) : r \o ThenDispatch \in Beginnings
      BY DEF Beginnings
    <3> QED  BY <1>1, <1>2, <1>3, <1>4, <3>1, LowestPending
  <2> QED  BY <2>1, BeginningsOps
<1>6. Base'
  BY <1>1, <1>5 DEF Base, TypeOK
<1>7. At(end, ahead, late)'
  <2>1. Beginnings' = Beginnings
    BY DEF Beginnings
  <2>2. contexts' = <<>> /\ TableBut({})' /\ ListBut({})'
    BY <1>1, <1>3, ListSame, TableSame DEF Nested
  <2> QED  BY <1>3, <1>4, <1>5, <2>1, <2>2 DEF At
<1>8. TimesInv(end, ahead, late)' /\ MaskInv(end)'
  BY <1>1, TimesSame, MaskSame DEF Where
<1>9. ProgramInv(end)'
  BY <1>1, <1>3, CallsSame DEF Where, ProgramInv, Outside
<1> QED  BY <1>6, <1>7, <1>8, <1>9, Found

\* What the program has left, and the program with nothing left.
LEMMA OutsideKeeps ==
  ASSUME Base', contexts = <<>>, TableBut({}), ListBut({}), TimesInv(<<>>, {}, {}), pie', Outside(code'),
         UNCHANGED <<contexts, active, table, clock, wait>>
  PROVE  HalInv'
<1>0. <<>> \in Endings /\ Late(<<>>) = {}
  BY DEF Endings, Late
<1>1. TableBut({})' /\ ListBut({})' /\ TimesInv(<<>>, {}, {})' /\ contexts' = <<>>
  BY ListSame, TableSame, TimesSame
<1>2. Calls' = Calls
  BY CallsSame
<1>3. At(<<>>, {}, {})'
  <2>1. CASE code' = <<>>
    BY <1>0, <1>1, <2>1, AtNothingNext
  <2>2. CASE code' \in Calls
    BY <1>1, <1>2, <2>2, AtCallNext DEF Base
  <2> QED  BY <2>1, <2>2 DEF Outside
<1>4. MaskInv(<<>>)'
  BY <1>1 DEF MaskInv, Nested
<1>5. ProgramInv(<<>>)'
  BY <1>2 DEF ProgramInv, Outside
<1> QED  BY <1>0, <1>1, <1>3, <1>4, <1>5, Found

\* The end of the interrupt.
LEMMA ReturnKeeps ==
  ASSUME Base, NEW end \in Endings, NEW ahead \in SUBSET AlarmIds, NEW late \in SUBSET AlarmIds,
         Where(end, ahead, late), Return
  PROVE  HalInv'
<1>1. /\ TypeOK /\ code # <<>> /\ This.op = "dispatch" /\ At(end, ahead, late)
      /\ TimesInv(end, ahead, late) /\ ProgramInv(end)
      /\ pie' = TRUE /\ code' = program.code /\ loaded' = program.loaded
      /\ UNCHANGED <<contexts, active, table, lines, clock, asked, wait>>
  BY DEF Base, Executes, This, Where, Return
<1>2. TableBut({}) /\ ListBut({}) /\ late = Late(end) /\ code = end /\ ~Nested
  BY <1>1, BetweenFunctions, BeginningsOps DEF This
<1>3. end = ThenDispatch /\ end # <<>> /\ end[1].op = "dispatch" /\ ~InVisits(end) /\ late = {}
  BY <1>1, <1>2, EndingsAre DEF This
<1>4. ahead = {} /\ TimesInv(<<>>, {}, {})
  BY <1>1, <1>3 DEF TimesInv, InVisits
<1>5. loaded' \in SUBSET Irqs /\ Outside(code')
  BY <1>1, <1>3 DEF ProgramInv
<1>6. Base'
  <2>1. code' \in Seq(Instructions)
    BY <1>5, CallsCode, EmptySeq DEF Outside
  <2> QED  BY <1>1, <1>5, <2>1 DEF Base, TypeOK
<1> QED  BY <1>1, <1>2, <1>4, <1>5, <1>6, OutsideKeeps DEF Nested

\* The program calls a function.
LEMMA CallKeeps ==
  ASSUME Base, NEW end \in Endings, NEW ahead \in SUBSET AlarmIds, NEW late \in SUBSET AlarmIds,
         Where(end, ahead, late), Call
  PROVE  HalInv'
<1>1. /\ TypeOK /\ code = <<>> /\ code' \in Calls /\ At(end, ahead, late)
      /\ TimesInv(end, ahead, late) /\ MaskInv(end)
      /\ UNCHANGED <<pie, contexts, active, loaded, table, lines, program, clock, asked, wait>>
  BY DEF Base, Where, Call
<1>2. end = <<>> /\ ~Nested /\ late = {}
  <2>1. \A i \in Lines : ~AtLine(i, end)
    BY <1>1, Ops DEF AtLine
  <2>2. \A i \in Lines, isr \in Routines \cup {None} : ~AtRegister(i, isr, end)
    BY <1>1, Ops DEF AtRegister
  <2>3. \A a \in AlarmIds, nticks \in 0..(TickMod - 2) : ~AtStart(a, nticks, end)
    BY <1>1, Ops DEF AtStart
  <2>4. \A a \in AlarmIds : ~AtStop(a, end)
    BY <1>1, Ops DEF AtStop
  <2>5. code \notin Beginnings
    BY <1>1, BeginningsOps
  <2>6. Left(<<>>, end) /\ late = Late(end)
    BY <1>1, <2>1, <2>2, <2>3, <2>4, <2>5 DEF At
  <2> QED  BY <1>1, <2>6, LeftNone DEF Late
<1>3. TableBut({}) /\ ListBut({}) /\ contexts = <<>> /\ pie
  BY <1>1, <1>2, NotNested DEF MaskInv, Nested
<1>4. ahead = {}
  BY <1>1, <1>2 DEF TimesInv, InVisits
<1>5. Base'
  BY <1>1, CallsCode DEF Base, TypeOK
<1> QED  BY <1>1, <1>2, <1>3, <1>4, <1>5, OutsideKeeps DEF Outside

\* A routine removes the cause of its interrupt.
LEMMA AcknowledgeKeeps ==
  ASSUME Base, NEW end \in Endings, NEW ahead \in SUBSET AlarmIds, NEW late \in SUBSET AlarmIds,
         Where(end, ahead, late), Acknowledge
  PROVE  HalInv'
<1>1. /\ TypeOK /\ code # <<>> /\ This.op = "acknowledge" /\ At(end, ahead, late) /\ code' = Rest
      /\ lines' = lines \ {This.irq}
      /\ UNCHANGED <<pie, contexts, active, loaded, table, program, clock, asked, wait>>
  BY DEF Base, Executes, This, Where, Acknowledge
<1>2. /\ TableBut({}) /\ ListBut({}) /\ late = Late(end)
      /\ code \in Beginnings /\ contexts = <<>> /\ end = ThenDispatch
  BY <1>1, BetweenFunctions, EndingsOps DEF This
<1>3. \/ code' = ThenDispatch \/ code' = TickOnce \o ThenDispatch
      \/ \E i \in Lines : code' = IrqDisable(i) \o ThenDispatch
  BY <1>1, <1>2, BeginningsOps DEF This, Rest
<1>4. Base'
  BY <1>1, ThisIs DEF Base, TypeOK
<1>5. TableBut({})' /\ ListBut({})' /\ contexts' = <<>>
  BY <1>1, <1>2, ListSame, TableSame
<1>6. At(end, ahead, late)'
  <2>1. CASE code' = ThenDispatch
    BY <1>2, <1>5, <2>1, AtNothingNext
  <2>2. CASE code' = TickOnce \o ThenDispatch
    BY <1>2, <1>5, <2>2 DEF At, Beginnings
  <2>3. CASE \E i \in Lines : code' = IrqDisable(i) \o ThenDispatch
    <3>1. PICK i \in Lines : code' = IrqDisable(i) \o ThenDispatch
      BY <2>3
    <3>2. Len(contexts') = 0 /\ Ends(0) = <<>> /\ IrqDisable(i) \o <<>> = IrqDisable(i)
      BY <1>5, EndsAre, Functions, ConcatEmptySeq DEF Lines
    <3>3. Left(IrqDisable(i), end)'
      BY <1>2, <3>1, <3>2 DEF Left
    <3>4. AtLine(i, end)'
      BY <1>5, <3>3 DEF AtLine
    <3> QED  BY <1>2, <1>5, <3>4 DEF At
  <2> QED  BY <1>3, <2>1, <2>2, <2>3
<1>7. TimesInv(end, ahead, late)' /\ MaskInv(end)'
  BY <1>1, TimesSame, MaskSame DEF Where
<1>8. ProgramInv(end)'
  <2>1. end # <<>>
    BY <1>2, Instrs, OneMore, EmptySeq
  <2> QED  BY <1>1, <2>1, CallsSame DEF Where, ProgramInv, Outside
<1> QED  BY <1>4, <1>6, <1>7, <1>8, Found
------------------------------------------------------------------------------
(* The alarms.                                                               *)

\* What is not touched.
LEMMA AlarmSame ==
  ASSUME clock'.nticks = clock.nticks, NEW b, wait'[b] = wait[b],
         clock'.time[b] = clock.time[b], clock'.rollover[b] = clock.rollover[b]
  PROVE  (Visited(b)' <=> Visited(b)) /\ (Unvisited(b)' <=> Unvisited(b))
  BY DEF Visited, Unvisited, TimeIsSum, Sum

\* Only the times of alarms change: the list is as it was.
LEMMA PointersSame ==
  ASSUME clock'.next = clock.next, clock'.previous = clock.previous
  PROVE  /\ \A e, ahead : EndOfList(e, ahead)' <=> EndOfList(e, ahead)
         /\ \A S : RingOf(clock', S) <=> RingOf(clock, S)
         /\ Running' = Running => \A half : ListBut(half)' <=> ListBut(half)
<1>1. \A S : RingOf(clock', S) <=> RingOf(clock, S)
  BY DEF RingOf
<1>2. \A e, ahead : EndOfList(e, ahead)' <=> EndOfList(e, ahead)
  BY DEF EndOfList
<1>3. Running' = Running => \A half : ListBut(half)' <=> ListBut(half)
  BY <1>1 DEF ListBut
<1> QED  BY <1>1, <1>2, <1>3

\* The handler between interrupts, and alt_tick between and in its calls.
LEMMA ThenDispatchIs ==
  /\ ThenDispatch \in Endings /\ ThenDispatch \in Seq(Instructions)
  /\ ~InVisits(ThenDispatch) /\ Late(ThenDispatch) = {}
  /\ ThenDispatch # <<>> /\ ThenDispatch[1].op = "dispatch" /\ Len(ThenDispatch) = 1
<1>1. One(ThenDispatch, "dispatch") /\ ThenDispatch \in Endings
  BY Instrs DEF Endings
<1>2. /\ ThenDispatch \in Seq(Instructions) /\ ThenDispatch # <<>> /\ Len(ThenDispatch) = 1
      /\ ThenDispatch[1].op = "dispatch"
  BY <1>1, OneMore, EmptySeq
<1> QED  BY <1>1, <1>2 DEF InVisits, Late

\* alt_tick before it visits an entry of the list.
LEMMA VisitsAre ==
  ASSUME NEW e \in Entries
  PROVE  LET visits == Visit(e) \o ThenDispatch
         IN /\ visits \in Endings /\ visits \in Seq(Instructions)
            /\ InVisits(visits) /\ Late(visits) = {}
            /\ visits # <<>> /\ visits[1].op = "visit" /\ visits[1].alarm = e
            /\ visits[Len(visits) - 1].alarm = e /\ Len(visits) = 2 /\ Tail(visits) = ThenDispatch
<1> DEFINE visits == Visit(e) \o ThenDispatch
<1>1. One(Visit(e), "visit") /\ Visit(e)[1].alarm = e /\ visits \in Endings
  BY Instrs DEF Endings
<1>2. /\ visits \in Seq(Instructions) /\ visits # <<>> /\ visits[1] = Visit(e)[1]
      /\ Tail(visits) = ThenDispatch /\ Visit(e)[1].op = "visit"
  BY <1>1, ThenDispatchIs, OneMore
<1>3. Len(visits) = 2
  BY <1>2, ThenDispatchIs
<1> HIDE DEF visits
<1>4. visits[Len(visits) - 1].alarm = e /\ InVisits(visits) /\ Late(visits) = {}
  BY <1>1, <1>2, <1>3 DEF InVisits, Late
<1> QED  BY <1>1, <1>2, <1>3, <1>4 DEF visits

\* alt_tick after a callback.
LEMMA CalledIs ==
  ASSUME NEW e \in Entries, NEW a \in AlarmIds
  PROVE  LET visits == Visit(e) \o ThenDispatch
             called == Called(a) \o visits
         IN /\ called \in Endings /\ called \in Seq(Instructions)
            /\ InVisits(called) /\ Late(called) = {a}
            /\ called # <<>> /\ called[1].op = "called" /\ called[1].alarm = a
            /\ called[Len(called) - 1].alarm = e /\ Tail(called) = visits
<1> DEFINE visits == Visit(e) \o ThenDispatch
           called == Called(a) \o visits
<1>0. called \in Endings
  BY DEF Endings
<1>1. /\ visits \in Seq(Instructions) /\ visits[1].alarm = e /\ Len(visits) = 2
  BY VisitsAre
<1> HIDE DEF visits
<1>2. One(Called(a), "called") /\ Called(a)[1].alarm = a
  BY Instrs
<1>3. /\ called \in Seq(Instructions) /\ called # <<>> /\ called[1] = Called(a)[1]
      /\ Tail(called) = visits /\ Called(a)[1].op = "called"
  BY <1>1, <1>2, OneMore
<1>4. Len(called) = 3 /\ called[2] = visits[1]
  BY <1>1, <1>3
<1> HIDE DEF called
<1>5. called[Len(called) - 1].alarm = e /\ InVisits(called) /\ Late(called) = {a}
  BY <1>1, <1>2, <1>3, <1>4 DEF InVisits, Late
<1> QED  BY <1>0, <1>2, <1>3, <1>5 DEF called, visits

\* Of the alarms that run every one is in the ring.
LEMMA InRing ==
  ASSUME RingOf(clock, Running), NEW e \in Running \cup {AlarmList}
  PROVE  /\ clock.next[e] \in Running \cup {AlarmList} /\ clock.previous[clock.next[e]] = e
         /\ clock.previous[e] \in Running \cup {AlarmList} /\ clock.next[clock.previous[e]] = e
  BY DEF RingOf

\* The tick: every alarm's time has come nearer, and the list is ahead.
LEMMA TickKeeps ==
  ASSUME Base, NEW end \in Endings, NEW ahead \in SUBSET AlarmIds, NEW late \in SUBSET AlarmIds,
         Where(end, ahead, late), Tick
  PROVE  HalInv'
<1>0. /\ clock.next[AlarmList] \in Entries /\ Running \in SUBSET AlarmIds
  BY DEF Base, TypeOK, Clocks, Entries, Running
<1> PICK e \in Entries, R \in SUBSET AlarmIds : e = clock.next[AlarmList] /\ R = Running
  BY <1>0
<1> DEFINE visits == Visit(e) \o ThenDispatch
<1>1. /\ TypeOK /\ code # <<>> /\ This.op = "tick" /\ At(end, ahead, late)
      /\ TimesInv(end, ahead, late) /\ MaskInv(end) /\ ProgramInv(end)
      /\ clock' = Ticked(clock) /\ code' = Visit(e) \o Rest
      /\ wait' = [a \in AlarmIds |-> IF a \in Running THEN wait[a] - 1 ELSE -1]
      /\ UNCHANGED <<pie, contexts, active, loaded, table, lines, program, asked>>
  BY DEF Base, Executes, This, Where, Tick
<1>2. /\ TableBut({}) /\ ListBut({}) /\ late = Late(end)
      /\ code \in Beginnings /\ contexts = <<>> /\ end = ThenDispatch
  BY <1>1, BetweenFunctions, EndingsOps DEF This
<1>3. Rest = ThenDispatch
  BY <1>1, <1>2, BeginningsOps DEF This, Rest
<1>4. RingOf(clock, Running) /\ \A a \in AlarmIds \ Running : clock.next[a] = a /\ clock.previous[a] = a
  BY <1>2 DEF ListBut
<1>5. e \in Running \cup {AlarmList} /\ e \in Entries /\ clock.previous[e] = AlarmList
  BY <1>4, InRing DEF Running, Entries
<1>6. end # <<>> /\ late = {} /\ ahead = {} /\ \A a \in Running : Visited(a)
  <2>1. end # <<>> /\ late = {} /\ ~InVisits(end)
    BY <1>2, ThenDispatchIs
  <2> QED  BY <1>1, <2>1 DEF TimesInv
<1>7. /\ code' = visits /\ visits \in Endings /\ visits \in Seq(Instructions)
      /\ InVisits(visits) /\ Late(visits) = {} /\ visits # <<>> /\ visits[1].op = "visit"
      /\ visits[Len(visits) - 1].alarm = e
  BY <1>1, <1>3, <1>5, VisitsAre
<1> HIDE DEF visits
<1>8. /\ clock \in Clocks /\ clock' \in Clocks /\ clock'.next = clock.next
      /\ clock'.previous = clock.previous /\ clock'.time = clock.time /\ clock'.rollover = clock.rollover
      /\ clock'.nticks = IF clock.nticks = TickMod - 1 THEN 0 ELSE clock.nticks + 1
  BY <1>1, TickedIs DEF TypeOK
<1>9. /\ clock.nticks \in 0..(TickMod - 1) /\ \A a \in AlarmIds : clock.time[a] \in 0..(TickMod - 1)
      /\ \A a \in AlarmIds : clock.rollover[a] \in BOOLEAN
      /\ TickMod \in Nat /\ TickMod > 1
  BY <1>8, AlarmsAssumption DEF Clocks
<1>10. ASSUME NEW a \in AlarmIds
       PROVE  wait[a] \in -1..(TickMod - 1) /\ wait'[a] = (IF a \in Running THEN wait[a] - 1 ELSE -1)
  BY <1>1 DEF TypeOK
<1>11. /\ wait' \in [AlarmIds -> -1..(TickMod - 1)] /\ Running' = Running
  <2>1. ASSUME NEW a \in AlarmIds
        PROVE  /\ wait'[a] \in -1..(TickMod - 1)
               /\ wait'[a] >= 0 <=> wait[a] >= 0
    <3>1. CASE a \in Running
      <4>1. wait[a] > 0
        BY <1>6, <3>1 DEF Visited
      <4> QED  BY <1>9, <1>10, <3>1, <4>1
    <3>2. CASE a \notin Running
      BY <1>9, <1>10, <3>2 DEF Running
    <3> QED  BY <3>1, <3>2
  <2>2. wait' \in [AlarmIds -> -1..(TickMod - 1)]
    BY <1>1, <2>1
  <2> QED  BY <2>1, <2>2 DEF Running
<1>12. Base'
  BY <1>1, <1>7, <1>8, <1>11 DEF Base, TypeOK
<1>13. At(visits, R, {})'
  <2>1. TableBut({})' /\ ListBut({})'
    BY <1>1, <1>2, <1>8, <1>11, PointersSame, TableSame
  <2>2. contexts' = <<>>
    BY <1>1, <1>2
  <2> QED  BY <1>7, <1>11, <2>1, <2>2, AtNothingNext
<1>14. ASSUME NEW a \in Running
       PROVE  Unvisited(a)'
  <2>1. /\ wait[a] \in 1..(TickMod - 1) /\ wait'[a] = wait[a] - 1 /\ a \in AlarmIds
        /\ clock.time[a] = (IF clock.nticks + wait[a] < TickMod THEN clock.nticks + wait[a]
                            ELSE clock.nticks + wait[a] - TickMod)
        /\ clock.rollover[a] <=> clock.nticks + wait[a] >= TickMod
    BY <1>6, <1>9, <1>10 DEF Visited, TimeIsSum, Sum, Running
  <2>2. CASE clock.nticks = TickMod - 1
    <3>1. clock'.nticks = 0 /\ Sum(a)' = wait[a] - 1
      BY <1>8, <1>9, <2>1, <2>2 DEF Sum
    <3>2. clock.time[a] = wait[a] - 1 /\ clock.rollover[a] = TRUE /\ wait[a] - 1 \in 0..(TickMod - 2)
      BY <1>9, <2>1, <2>2
    <3> QED  BY <1>8, <1>9, <2>1, <3>1, <3>2 DEF Unvisited, TimeIsSum
  <2>3. CASE clock.nticks # TickMod - 1
    <3>1. clock'.nticks = clock.nticks + 1 /\ clock'.nticks # 0 /\ Sum(a)' = clock.nticks + wait[a]
      BY <1>8, <1>9, <2>1, <2>3 DEF Sum
    <3>2. wait'[a] \in 0..(TickMod - 2)
      BY <1>9, <2>1
    <3> QED  BY <1>8, <1>9, <2>1, <3>1, <3>2 DEF Unvisited, TimeIsSum
  <2> QED  BY <2>2, <2>3
<1>15. TimesInv(visits, R, {})'
  <2>2. EndOfList(e, R)
    <3>1. e = AlarmList => Running = {}
      <4>1. ASSUME e = AlarmList
            PROVE  {AlarmList} = Running \cup {AlarmList}
        BY <1>4, <4>1 DEF RingOf
      <4> QED  BY <4>1, AlarmsAssumption DEF Running
    <3>2. AlarmList \notin Running
      BY AlarmsAssumption DEF Running
    <3>3. ASSUME NEW a \in Running \ {e}
          PROVE  clock.previous[a] \in Running
      BY <1>4, <3>2, InRing
    <3>4. \A a \in Running : clock.next[a] \in Running \cup {AlarmList}
      BY <1>4, InRing
    <3> QED  BY <1>5, <3>1, <3>2, <3>3, <3>4 DEF EndOfList
  <2>3. EndOfList(e, R)'
    <3>1. \A f, S : EndOfList(f, S)' <=> EndOfList(f, S)
      BY <1>8, PointersSame
    <3> QED  BY <1>8, <1>11, <2>2, <3>1 DEF EndOfList
  <2> QED  BY <1>7, <1>11, <1>14, <2>3 DEF TimesInv
<1>16. MaskInv(visits)'
  BY <1>1, <1>2, <1>6, <1>7 DEF MaskInv, Nested
<1>17. ProgramInv(visits)'
  BY <1>1, <1>6, <1>7, <1>11, CallsGrow DEF ProgramInv
<1> QED  BY <1>7, <1>12, <1>13, <1>15, <1>16, <1>17, Found DEF Running

\* alt_tick goes on to the next alarm: the others are ahead.
LEMMA NextAhead ==
  ASSUME TypeOK, RingOf(clock, Running), NEW ahead \in SUBSET Running, NEW a \in ahead,
         EndOfList(a, ahead)
  PROVE  EndOfList(clock.next[a], ahead \ {a})
<1>1. AlarmList \notin Running
  BY AlarmsAssumption DEF Running
<1>2. /\ clock.previous[a] \notin ahead /\ \A b \in ahead : clock.next[b] \in ahead \cup {AlarmList}
      /\ \A b \in ahead \ {a} : clock.previous[b] \in ahead
  BY DEF EndOfList
<1>3. \A b \in ahead : clock.previous[clock.next[b]] = b /\ clock.next[clock.previous[b]] = b
  BY InRing
<1>4. clock.next[a] # a
  <2>1. SUFFICES ASSUME clock.next[a] = a PROVE FALSE
    OBVIOUS
  <2>2. clock.previous[a] = a
    BY <1>3, <2>1
  <2> QED  BY <1>2, <2>2
<1>5. \A b \in ahead \ {a} : clock.next[b] # a
  BY <1>2, <1>3
<1>6. ASSUME NEW b \in ahead \ {a}, b # clock.next[a]
      PROVE  clock.previous[b] \in ahead \ {a}
  BY <1>2, <1>3, <1>6
<1>7. clock.next[a] = AlarmList => ahead \ {a} = {}
  <2>1. ASSUME clock.next[a] = AlarmList
        PROVE  \A b \in ahead \ {a} : clock.previous[b] \in ahead \ {a}
    BY <1>1, <1>6, <2>1
  <2> QED  BY <1>1, <2>1, NoPartAlone
<1>8. clock.previous[clock.next[a]] \notin ahead \ {a}
  BY <1>3
<1> QED  BY <1>2, <1>4, <1>5, <1>6, <1>7, <1>8 DEF EndOfList

\* When the visited alarm is due its time has come: nothing is left to wait.
LEMMA DueIs ==
  ASSUME TypeOK, NEW a \in AlarmIds, Unvisited(a), NEW c, c = FlagCleared(clock, a)
  PROVE  /\ Due(c, a) => wait[a] = 0 /\ c.time[a] = c.nticks /\ ~c.rollover[a]
         /\ ~Due(c, a) => /\ wait[a] > 0 /\ TimeIsSum(a) /\ c.time[a] = clock.time[a]
                          /\ c.rollover[a] <=> Sum(a) >= TickMod
<1>1. /\ clock \in Clocks /\ clock.nticks \in 0..(TickMod - 1) /\ TickMod \in Nat /\ TickMod > 1
      /\ clock.rollover[a] \in BOOLEAN
  BY AlarmsAssumption DEF TypeOK, Clocks
<1>2. /\ c.time[a] = clock.time[a] /\ c.nticks = clock.nticks
      /\ c.rollover[a] <=> (clock.rollover[a] /\ clock.nticks # 0)
  BY <1>1, FlagClearedIs
<1>3. /\ wait[a] \in 0..(TickMod - 2)
      /\ clock.time[a] = (IF clock.nticks + wait[a] < TickMod THEN clock.nticks + wait[a]
                          ELSE clock.nticks + wait[a] - TickMod)
      /\ clock.rollover[a] <=> (clock.nticks + wait[a] >= TickMod \/ clock.nticks = 0)
  BY <1>1 DEF Unvisited, TimeIsSum, Sum
<1>4. c.rollover[a] <=> clock.nticks + wait[a] >= TickMod
  BY <1>1, <1>2, <1>3
<1>5. Due(c, a) <=> c.time[a] <= c.nticks /\ ~(clock.nticks + wait[a] >= TickMod)
  BY <1>4 DEF Due
<1>6. Due(c, a) <=> wait[a] = 0
  BY <1>1, <1>2, <1>3, <1>5
<1> QED  BY <1>1, <1>2, <1>3, <1>4, <1>6 DEF Unvisited, Sum

\* A step of the loop in alt_tick.
LEMMA VisitAlarmKeeps ==
  ASSUME Base, NEW end \in Endings, NEW ahead \in SUBSET AlarmIds, NEW late \in SUBSET AlarmIds,
         Where(end, ahead, late), VisitAlarm
  PROVE  HalInv'
<1>1. /\ TypeOK /\ code # <<>> /\ This.op = "visit" /\ At(end, ahead, late)
      /\ TimesInv(end, ahead, late) /\ MaskInv(end) /\ ProgramInv(end)
      /\ UNCHANGED <<pie, contexts, active, loaded, table, lines, program, asked, wait>>
  BY DEF Base, Executes, This, Where, VisitAlarm
<1>2. TableBut({}) /\ ListBut({}) /\ late = Late(end) /\ code = end /\ contexts = <<>>
  BY <1>1, BetweenFunctions, BeginningsOps DEF This, Nested
<1>3. PICK e \in Entries : end = Visit(e) \o ThenDispatch
  BY <1>1, <1>2, EndingsAre DEF This
<1>4. /\ This.alarm = e /\ Rest = ThenDispatch /\ InVisits(end) /\ late = {} /\ end # <<>>
      /\ end[1].op = "visit" /\ end[Len(end) - 1].alarm = e
  BY <1>2, <1>3, VisitsAre DEF This, Rest
<1>5. /\ ahead \subseteq Running /\ (\A a \in Running \ ahead : Visited(a))
      /\ (\A a \in ahead : Unvisited(a)) /\ EndOfList(e, ahead)
  BY <1>1, <1>4 DEF TimesInv
<1>6. RingOf(clock, Running) /\ Running' = Running
  BY <1>1, <1>2 DEF ListBut, Running
<1>7. ~pie /\ Outside(program.code) /\ program.loaded \in SUBSET Irqs /\ Outside(program.code)'
  <2>1. Outside(program.code)' <=> Outside(program.code)
    BY <1>1, CallsSame DEF Outside
  <2> QED  BY <1>1, <1>4, <2>1 DEF MaskInv, ProgramInv
<1>8. ASSUME NEW f \in Endings, f # <<>>
      PROVE  MaskInv(f)' /\ ProgramInv(f)'
  BY <1>1, <1>2, <1>7, <1>8 DEF MaskInv, ProgramInv, Nested
<1>9. CASE e = AlarmList
  <2>1. code' = ThenDispatch /\ clock' = clock
    BY <1>4, <1>9 DEF VisitAlarm, This, Rest
  <2>2. ahead = {}
    BY <1>5, <1>9, AlarmsAssumption DEF EndOfList, Running
  <2>3. Base'
    BY <1>1, <2>1, ThenDispatchIs DEF Base, TypeOK
  <2>4. TableBut({})' /\ ListBut({})' /\ contexts' = <<>>
    BY <1>1, <1>2, <2>1, ListSame, TableSame
  <2>5. At(ThenDispatch, {}, {})'
    BY <2>1, <2>4, ThenDispatchIs, AtNothingNext
  <2>6. TimesInv(ThenDispatch, {}, {})'
    <3>1. \A a \in Running : Visited(a)'
      BY <1>1, <1>5, <2>1, <2>2, AlarmSame
    <3> QED  BY <1>6, <3>1, ThenDispatchIs DEF TimesInv
  <2> QED  BY <1>8, <2>3, <2>5, <2>6, ThenDispatchIs, Found
<1>10. CASE e # AlarmList
  <2>1. e \in AlarmIds /\ e \in ahead /\ e \in Running
    BY <1>5, <1>10 DEF EndOfList, Entries
  <2>2. PICK n \in Entries : n = clock.next[e]
    BY <1>1, <2>1 DEF TypeOK, Clocks, Entries
  <2> DEFINE after == Visit(n) \o ThenDispatch
             called == Called(e) \o after
  <2>3. /\ clock' = FlagCleared(clock, e)
        /\ IF Due(clock', e)
           THEN \E callback \in CallbackCodes(e) : code' = callback \o called
           ELSE code' = after
    BY <1>4, <1>10, <2>2 DEF VisitAlarm, This, Rest
  <2>4. /\ after \in Endings /\ after \in Seq(Instructions)
        /\ InVisits(after) /\ Late(after) = {} /\ after # <<>> /\ after[1].op = "visit"
        /\ after[Len(after) - 1].alarm = n
    BY VisitsAre
  <2>5. /\ called \in Endings /\ called \in Seq(Instructions)
        /\ InVisits(called) /\ Late(called) = {e} /\ called # <<>> /\ called[1].op = "called"
        /\ called[1].alarm = e /\ called[Len(called) - 1].alarm = n
    BY <2>1, CalledIs
  <2> HIDE DEF after, called
  <2>6. clock' \in Clocks /\ clock'.next = clock.next /\ clock'.previous = clock.previous
        /\ clock'.nticks = clock.nticks /\ clock'.time = clock.time
        /\ \A b \in AlarmIds \ {e} : clock'.rollover[b] = clock.rollover[b]
    <3>1. clock \in Clocks
      BY <1>1 DEF TypeOK
    <3> HIDE DEF Clocks
    <3> QED  BY <2>1, <2>3, <3>1, FlagClearedIs
  <2>7. TableBut({})' /\ ListBut({})' /\ contexts' = <<>>
    BY <1>1, <1>2, <1>6, <2>6, PointersSame, TableSame
  <2>8. EndOfList(n, ahead \ {e})'
    <3>1. EndOfList(n, ahead \ {e})
      BY <1>1, <1>5, <1>6, <2>1, <2>2, NextAhead
    <3> QED  BY <2>6, <3>1, PointersSame
  <2>9. /\ \A b \in Running \ ahead : Visited(b)'
        /\ \A b \in ahead \ {e} : Unvisited(b)'
    <3>1. \A b \in Running \ {e} : b \in AlarmIds
      BY DEF Running
    <3> QED  BY <1>1, <1>5, <2>1, <2>6, <3>1, AlarmSame
  <2>10. CASE ~Due(clock', e)
    <3>1. Visited(e)'
      <4>1. /\ wait[e] > 0 /\ TimeIsSum(e) /\ clock'.time[e] = clock.time[e]
            /\ clock'.rollover[e] <=> Sum(e) >= TickMod
        BY <1>1, <1>5, <2>1, <2>3, <2>10, DueIs
      <4> QED  BY <1>1, <2>6, <4>1 DEF Visited, TimeIsSum, Sum
    <3>2. code' = after
      BY <2>3, <2>10
    <3>3. Base'
      BY <1>1, <2>4, <2>6, <3>2 DEF Base, TypeOK
    <3>4. At(after, ahead \ {e}, {})'
      BY <2>4, <2>7, <3>2, AtNothingNext
    <3>5. TimesInv(after, ahead \ {e}, {})'
      BY <1>5, <1>6, <2>4, <2>8, <2>9, <3>1 DEF TimesInv
    <3> QED  BY <1>8, <2>4, <3>3, <3>4, <3>5, Found
  <2>11. CASE Due(clock', e)
    <3>1. wait[e] = 0 /\ clock'.time[e] = clock'.nticks /\ ~clock'.rollover[e]
      BY <1>1, <1>5, <2>1, <2>3, <2>11, DueIs
    <3>2. TimesInv(called, ahead \ {e}, {e})'
      BY <1>1, <1>5, <1>6, <2>1, <2>5, <2>8, <2>9, <3>1 DEF TimesInv
    <3>3. PICK callback \in CallbackCodes(e) : code' = callback \o called
      BY <2>3, <2>11
    <3>4. \A b \in Seq(Instructions) :
            code' = b \o called => Left(b, called)' /\ b \o called \in Seq(Instructions)
      <4>1. Len(contexts') = 0 /\ Ends(0) = <<>>
        BY <2>7, EndsAre
      <4>2. \A b \in Seq(Instructions) : b \o <<>> = b /\ b \o called \in Seq(Instructions)
        BY <2>5, ConcatEmptySeq, ConcatProperties
      <4> QED  BY <4>1, <4>2 DEF Left
    <3>5. At(called, ahead \ {e}, {e})' /\ code' \in Seq(Instructions)
      <4>1. CASE callback = <<>>
        <5>1. <<>> \in Seq(Instructions)
          BY EmptySeq
        <5> QED  BY <2>5, <2>7, <3>3, <3>4, <4>1, <5>1 DEF At
      <4>2. CASE callback = AlarmStop(e)
        <5>1. AlarmStop(e) \in Seq(Instructions)
          BY <2>1, Functions
        <5>2. AtStop(e, called)'
          BY <2>7, <3>3, <3>4, <4>2, <5>1 DEF AtStop
        <5> QED  BY <2>1, <2>5, <2>7, <3>3, <3>4, <4>2, <5>1, <5>2 DEF At
      <4>3. CASE \E b \in CallbackAlarms \ Running : callback = AlarmStart(b, 0)
        <5>1. PICK b \in CallbackAlarms \ Running : callback = AlarmStart(b, 0)
          BY <4>3
        <5>2. b \in AlarmIds /\ 0 \in 0..(TickMod - 2)
          BY AlarmsAssumption, InterruptsAssumption
        <5>3. AlarmStart(b, 0) \in Seq(Instructions)
          BY <5>2, Functions
        <5>4. AtStart(b, 0, called)'
          BY <1>6, <2>7, <3>3, <3>4, <5>1, <5>3 DEF AtStart
        <5>5. b \notin (ahead \ {e}) \cup {e}
          BY <1>5, <2>1, <5>1
        <5> QED  BY <2>5, <2>7, <3>3, <3>4, <5>1, <5>2, <5>3, <5>4, <5>5 DEF At
      <4> QED  BY <3>3, <4>1, <4>2, <4>3 DEF CallbackCodes
    <3>6. Base'
      BY <1>1, <2>6, <3>5 DEF Base, TypeOK
    <3>7. {e} \in SUBSET AlarmIds /\ ahead \ {e} \in SUBSET AlarmIds
      BY <2>1
    <3> QED  BY <1>8, <2>5, <3>2, <3>5, <3>6, <3>7, Found
  <2> QED  BY <2>10, <2>11
<1> QED  BY <1>9, <1>10

\* After the callback the alarm is given its next time, or stopped.
LEMMA CallbackReturnsKeeps ==
  ASSUME Base, NEW end \in Endings, NEW ahead \in SUBSET AlarmIds, NEW late \in SUBSET AlarmIds,
         Where(end, ahead, late), CallbackReturns
  PROVE  HalInv'
<1>1. /\ TypeOK /\ code # <<>> /\ This.op = "called" /\ At(end, ahead, late)
      /\ TimesInv(end, ahead, late) /\ MaskInv(end) /\ ProgramInv(end)
      /\ UNCHANGED <<pie, contexts, active, loaded, table, lines, program, asked>>
  BY DEF Base, Executes, This, Where, CallbackReturns
<1>2. TableBut({}) /\ ListBut({}) /\ late = Late(end) /\ code = end /\ contexts = <<>>
  BY <1>1, BetweenFunctions, BeginningsOps DEF This, Nested
<1>3. PICK a \in AlarmIds, e \in Entries : end = Called(a) \o (Visit(e) \o ThenDispatch)
  BY <1>1, <1>2, EndingsAre DEF This
<1> DEFINE after == Visit(e) \o ThenDispatch
<1>4. /\ This.alarm = a /\ Rest = after /\ InVisits(end) /\ late = {a} /\ end # <<>>
      /\ end[1].op = "called" /\ end[1].alarm = a /\ end[Len(end) - 1].alarm = e
  BY <1>2, <1>3, CalledIs DEF This, Rest
<1>5. /\ after \in Endings /\ after \in Seq(Instructions)
      /\ InVisits(after) /\ Late(after) = {} /\ after # <<>> /\ after[1].op = "visit"
      /\ after[Len(after) - 1].alarm = e
  BY VisitsAre
<1> HIDE DEF after
<1>6. /\ ahead \subseteq Running \ {a} /\ (\A b \in Running \ (ahead \cup {a}) : Visited(b))
      /\ (\A b \in ahead : Unvisited(b)) /\ EndOfList(e, ahead)
      /\ wait[a] = -1 \/ (wait[a] = 0 /\ clock.time[a] = clock.nticks /\ ~clock.rollover[a])
  BY <1>1, <1>4 DEF TimesInv
<1>7. ~pie /\ Outside(program.code) /\ program.loaded \in SUBSET Irqs
  BY <1>1, <1>4 DEF MaskInv, ProgramInv
<1>8. ASSUME Running' = Running
      PROVE  MaskInv(after)' /\ ProgramInv(after)'
  <2>1. Outside(program.code)'
    <3>1. PICK c : c = program.code
      OBVIOUS
    <3>2. Outside(c)'
      BY <1>1, <1>7, <1>8, <3>1, CallsGrow
    <3> QED  BY <1>1, <3>1, <3>2 DEF Outside
  <2> QED  BY <1>1, <1>2, <1>5, <1>7, <2>1 DEF MaskInv, ProgramInv, Nested
<1>9. \/ code' = AlarmStop(a) \o after /\ UNCHANGED <<clock, wait>>
      \/ /\ code' = after
         /\ \/ a \notin Running /\ UNCHANGED <<clock, wait>>
            \/ /\ a \in Running
               /\ \E nticks \in 1..(TickMod - 1) :
                    clock' = Rearmed(clock, a, nticks) /\ wait' = [wait EXCEPT ![a] = nticks]
  BY <1>4 DEF CallbackReturns, This, Rest
<1>10. CASE UNCHANGED <<clock, wait>>
  <2>1. Running' = Running /\ TableBut({})' /\ ListBut({})' /\ contexts' = <<>>
    BY <1>1, <1>2, <1>10, ListSame, TableSame DEF Running
  <2>2. /\ (\A b \in Running \ (ahead \cup {a}) : Visited(b)')
        /\ (\A b \in ahead : Unvisited(b)') /\ EndOfList(e, ahead)'
    BY <1>6, <1>10, AlarmSame, PointersSame
  <2>3. CASE code' = AlarmStop(a) \o after
    <3>1. Len(contexts') = 0 /\ Ends(0) = <<>> /\ AlarmStop(a) \in Seq(Instructions)
      BY <2>1, EndsAre, Functions
    <3>2. Left(AlarmStop(a), after)' /\ code' \in Seq(Instructions)
      BY <1>5, <2>3, <3>1, ConcatEmptySeq, ConcatProperties DEF Left
    <3>3. AtStop(a, after)'
      BY <2>1, <3>2 DEF AtStop
    <3>4. At(after, ahead, {a})'
      BY <1>5, <1>6, <2>1, <3>3 DEF At
    <3>5. TimesInv(after, ahead, {a})'
      BY <1>5, <1>6, <2>1, <2>2 DEF TimesInv
    <3>6. Base'
      BY <1>1, <1>10, <3>2 DEF Base, TypeOK
    <3> QED  BY <1>5, <1>8, <2>1, <3>4, <3>5, <3>6, Found
  <2>4. CASE code' = after /\ a \notin Running
    <3>1. At(after, ahead, {})'
      BY <1>5, <2>1, <2>4, AtNothingNext
    <3>2. TimesInv(after, ahead, {})'
      BY <1>5, <1>6, <2>1, <2>2, <2>4 DEF TimesInv
    <3>3. Base'
      BY <1>1, <1>5, <1>10, <2>4 DEF Base, TypeOK
    <3> QED  BY <1>5, <1>8, <2>1, <3>1, <3>2, <3>3, Found
  <2>5. CASE a \in Running /\ \E nticks \in 1..(TickMod - 1) : wait' = [wait EXCEPT ![a] = nticks]
    <3>1. PICK nticks \in 1..(TickMod - 1) : wait' = [wait EXCEPT ![a] = nticks]
      BY <2>5
    <3>2. wait'[a] = nticks /\ nticks > 0
      BY <1>1, <3>1 DEF TypeOK
    <3>3. wait[a] = 0 \/ wait[a] = -1
      BY <1>6
    <3> QED  BY <1>10, <3>2, <3>3
  <2> QED  BY <1>9, <2>3, <2>4, <2>5
<1>11. CASE /\ code' = after /\ a \in Running
            /\ \E nticks \in 1..(TickMod - 1) :
                    clock' = Rearmed(clock, a, nticks) /\ wait' = [wait EXCEPT ![a] = nticks]
  <2>1. PICK nticks \in 1..(TickMod - 1) :
               clock' = Rearmed(clock, a, nticks) /\ wait' = [wait EXCEPT ![a] = nticks]
    BY <1>11
  <2>2. clock.time[a] = clock.nticks /\ ~clock.rollover[a]
    BY <1>6, <1>11 DEF Running
  <2>3. /\ clock' \in Clocks /\ clock'.next = clock.next /\ clock'.previous = clock.previous
        /\ clock'.nticks = clock.nticks
        /\ clock'.time[a] = (IF clock.nticks + nticks < TickMod THEN clock.nticks + nticks
                             ELSE clock.nticks + nticks - TickMod)
        /\ clock'.rollover[a] <=> clock.nticks + nticks >= TickMod
        /\ \A b \in AlarmIds \ {a} : clock'.time[b] = clock.time[b] /\ clock'.rollover[b] = clock.rollover[b]
    <3>1. clock \in Clocks
      BY <1>1 DEF TypeOK
    <3> HIDE DEF Clocks
    <3> QED  BY <2>1, <2>2, <3>1, RearmedIs
  <2>4. /\ wait' \in [AlarmIds -> -1..(TickMod - 1)] /\ wait'[a] = nticks
        /\ \A b \in AlarmIds \ {a} : wait'[b] = wait[b]
    BY <1>1, <2>1, AlarmsAssumption DEF TypeOK
  <2>5. Running' = Running
    BY <1>11, <2>4 DEF Running
  <2>6. TableBut({})' /\ ListBut({})' /\ contexts' = <<>> /\ EndOfList(e, ahead)'
    BY <1>1, <1>2, <1>6, <2>3, <2>5, PointersSame, TableSame
  <2>7. /\ \A b \in Running \ (ahead \cup {a}) : Visited(b)'
        /\ \A b \in ahead : Unvisited(b)'
    <3>1. \A b \in Running \ {a} : b \in AlarmIds \ {a}
      BY DEF Running
    <3> QED  BY <1>6, <2>3, <2>4, <3>1, AlarmSame
  <2>8. Visited(a)'
    <3>1. Sum(a)' = clock.nticks + nticks /\ wait'[a] > 0
      BY <2>3, <2>4 DEF Sum
    <3>2. TimeIsSum(a)'
      <4>1. clock.nticks \in 0..(TickMod - 1) /\ TickMod \in Nat
        BY <1>1, AlarmsAssumption DEF TypeOK, Clocks
      <4>2. clock'.time[a] = (IF clock.nticks + nticks < TickMod THEN clock.nticks + nticks
                              ELSE clock.nticks + nticks - TickMod)
        BY <2>3
      <4> QED  BY <3>1, <4>1, <4>2 DEF TimeIsSum
    <3>3. clock'.rollover[a] <=> Sum(a)' >= TickMod
      BY <2>3, <3>1, Zenon
    <3> QED  BY <3>1, <3>2, <3>3 DEF Visited
  <2>9. At(after, ahead, {})'
    BY <1>5, <1>11, <2>6, AtNothingNext
  <2>10. TimesInv(after, ahead, {})'
    BY <1>5, <1>6, <2>5, <2>6, <2>7, <2>8 DEF TimesInv
  <2>11. Base'
    BY <1>1, <1>5, <1>11, <2>3, <2>4 DEF Base, TypeOK
  <2> QED  BY <1>5, <1>8, <2>5, <2>9, <2>10, <2>11, Found
<1> QED  BY <1>9, <1>10, <1>11

\* The time that alt_alarm_start sets.
LEMMA ArmKeeps ==
  ASSUME Base, NEW end \in Endings, NEW ahead \in SUBSET AlarmIds, NEW late \in SUBSET AlarmIds,
         Where(end, ahead, late), Executes("arm"), StartAlarm
  PROVE  HalInv'
<1>1. /\ TypeOK /\ code # <<>> /\ This.op = "arm" /\ At(end, ahead, late)
      /\ TimesInv(end, ahead, late) /\ MaskInv(end) /\ ProgramInv(end)
      /\ clock' = Armed(clock, This.alarm, This.nticks)
      /\ wait' = [wait EXCEPT ![This.alarm] = This.nticks + 1] /\ code' = Rest
      /\ UNCHANGED <<pie, contexts, active, loaded, table, lines, program, asked>>
  BY DEF Base, Executes, This, Where, StartAlarm
<1>2. TableBut({}) /\ late = Late(end) /\ Nested
  BY <1>1, AtInsert
<1>3. PICK a \in AlarmIds, nticks \in 0..(TickMod - 2) :
        /\ end = <<>> \/ a \in CallbackAlarms
        /\ a \notin ahead \cup late /\ a \notin Running /\ ListBut({})
        /\ Left(Arm(a, nticks) \o (Point(a) \o Link(a)), end)
  <2>1. This.op # "point" /\ This.op # "link"
    BY <1>1
  <2> QED  BY <1>1, <2>1, AtInsert
<1>4. /\ One(Arm(a, nticks), "arm") /\ Arm(a, nticks)[1].alarm = a /\ Arm(a, nticks)[1].nticks = nticks
      /\ Point(a) \o Link(a) \in Seq(Instructions)
  BY Instrs, Functions
<1>5. This.alarm = a /\ This.nticks = nticks /\ Left(Point(a) \o Link(a), end)'
  BY <1>1, <1>3, <1>4, LeftOne, WentOn
<1>6. /\ clock \in Clocks /\ clock' \in Clocks /\ clock'.next = clock.next /\ clock'.previous = clock.previous
      /\ clock'.nticks = clock.nticks
      /\ clock'.time[a] = (IF clock.nticks + (nticks + 1) < TickMod THEN clock.nticks + (nticks + 1)
                           ELSE clock.nticks + (nticks + 1) - TickMod)
      /\ clock'.rollover[a] <=> clock.nticks + (nticks + 1) >= TickMod
      /\ \A b \in AlarmIds \ {a} : clock'.time[b] = clock.time[b] /\ clock'.rollover[b] = clock.rollover[b]
  <2>1. clock \in Clocks
    BY <1>1 DEF TypeOK
  <2> HIDE DEF Clocks
  <2> QED  BY <1>1, <1>5, <2>1, ArmedIs
<1>7. /\ wait' \in [AlarmIds -> -1..(TickMod - 1)] /\ wait'[a] = nticks + 1 /\ wait'[a] > 0
      /\ \A b \in AlarmIds \ {a} : wait'[b] = wait[b]
  BY <1>1, <1>5, AlarmsAssumption DEF TypeOK
<1>8. Running' = Running \cup {a}
  BY <1>7 DEF Running
<1>9. Base'
  BY <1>1, <1>6, <1>7, ThisIs DEF Base, TypeOK
<1>10. TableBut({})' /\ Nested' /\ a \in Running'
  BY <1>1, <1>2, <1>8, TableSame DEF Nested
<1>11. ListBut({a})'
  <2>1. RingOf(clock', Running)
    BY <1>3, <1>6, PointersSame DEF ListBut
  <2>2. Running = Running' \ {a}
    BY <1>3, <1>8
  <2> QED  BY <1>3, <1>6, <1>8, <2>1, <2>2 DEF ListBut
<1>12. AtStart(a, nticks, end)'
  BY <1>5, <1>10, <1>11 DEF AtStart
<1>13. At(end, ahead, late)'
  BY <1>2, <1>3, <1>10, <1>12 DEF At
<1>14. Visited(a)'
  <2>1. Sum(a)' = clock.nticks + (nticks + 1)
    BY <1>6, <1>7 DEF Sum
  <2>2. TimeIsSum(a)'
    <3>1. clock.nticks \in 0..(TickMod - 1) /\ TickMod \in Nat
      BY <1>6, AlarmsAssumption DEF Clocks
    <3>2. clock'.time[a] = (IF clock.nticks + (nticks + 1) < TickMod THEN clock.nticks + (nticks + 1)
                            ELSE clock.nticks + (nticks + 1) - TickMod)
      BY <1>6
    <3> QED  BY <2>1, <3>1, <3>2 DEF TimeIsSum
  <2>3. clock'.rollover[a] <=> Sum(a)' >= TickMod
    BY <1>6, <2>1, Zenon
  <2> QED  BY <1>7, <2>2, <2>3 DEF Visited
<1>15. ahead \subseteq Running \ late
  BY <1>1 DEF TimesInv
<1>16. /\ \A b \in Running \ (ahead \cup late) : Visited(b)'
       /\ \A b \in ahead : Unvisited(b)'
  <2>1. \A b \in Running : b \in AlarmIds \ {a}
    BY <1>3 DEF Running
  <2>2. /\ \A b \in Running \ (ahead \cup late) : Visited(b)
        /\ \A b \in ahead : Unvisited(b)
    BY <1>1 DEF TimesInv
  <2> QED  BY <1>6, <1>7, <1>15, <2>1, <2>2, AlarmSame
<1>17. TimesInv(end, ahead, late)'
  <2>1. IF InVisits(end) THEN EndOfList(end[Len(end) - 1].alarm, ahead)' ELSE ahead = {}
    <3>1. IF InVisits(end) THEN EndOfList(end[Len(end) - 1].alarm, ahead) ELSE ahead = {}
      BY <1>1 DEF TimesInv
    <3> QED  BY <1>6, <3>1, PointersSame
  <2>2. ASSUME end # <<>>, end[1].op = "called", NEW b, b = end[1].alarm
        PROVE  \/ wait'[b] = -1
               \/ wait'[b] = 0 /\ clock'.time[b] = clock'.nticks /\ ~clock'.rollover[b]
    <3>1. late = {b} /\ b \in AlarmIds /\ b # a
      BY <1>2, <1>3, <2>2 DEF Late
    <3>2. \/ wait[b] = -1
          \/ wait[b] = 0 /\ clock.time[b] = clock.nticks /\ ~clock.rollover[b]
      BY <1>1, <2>2 DEF TimesInv
    <3> QED  BY <1>6, <1>7, <3>1, <3>2
  <2> QED  BY <1>3, <1>8, <1>14, <1>15, <1>16, <2>1, <2>2 DEF TimesInv
<1>18. MaskInv(end)'
  BY <1>1, MaskSame
<1>19. ProgramInv(end)'
  BY <1>1, <1>2, <1>3, <1>8, ProgramSame
<1> QED  BY <1>9, <1>13, <1>17, <1>18, <1>19, Found

\* A step that leaves every alarm's time alone leaves the times in order, if
\* the alarms ahead stay the end of the list.
LEMMA TimesMoved ==
  ASSUME NEW end, NEW ahead, NEW late, TimesInv(end, ahead, late),
         wait' = wait, clock'.nticks = clock.nticks, clock'.time = clock.time,
         clock'.rollover = clock.rollover,
         InVisits(end) => EndOfList(end[Len(end) - 1].alarm, ahead)'
  PROVE  TimesInv(end, ahead, late)'
<1>1. Running' = Running
  BY DEF Running
<1>2. \A b : (Visited(b)' <=> Visited(b)) /\ (Unvisited(b)' <=> Unvisited(b))
  BY AlarmSame
<1> QED  BY <1>1, <1>2 DEF TimesInv

\* The pointers of the new alarm.
LEMMA PointKeeps ==
  ASSUME Base, NEW end \in Endings, NEW ahead \in SUBSET AlarmIds, NEW late \in SUBSET AlarmIds,
         Where(end, ahead, late), Executes("point"), StartAlarm
  PROVE  HalInv'
<1>1. /\ TypeOK /\ code # <<>> /\ This.op = "point" /\ At(end, ahead, late)
      /\ TimesInv(end, ahead, late) /\ MaskInv(end) /\ ProgramInv(end)
      /\ clock' = PointsIn(clock, This.alarm) /\ wait' = wait /\ code' = Rest
      /\ UNCHANGED <<pie, contexts, active, loaded, table, lines, program, asked>>
  BY DEF Base, Executes, This, Where, StartAlarm
<1>2. TableBut({}) /\ late = Late(end) /\ Nested
  BY <1>1, AtInsert
<1>3. PICK a \in AlarmIds, nticks \in 0..(TickMod - 2) :
        /\ end = <<>> \/ a \in CallbackAlarms
        /\ a \notin ahead \cup late /\ a \in Running /\ ListBut({a})
        /\ Left(Point(a) \o Link(a), end)
  <2>1. This.op # "arm" /\ This.op # "link"
    BY <1>1
  <2> QED  BY <1>1, <2>1, AtInsert
<1>4. /\ One(Point(a), "point") /\ Point(a)[1].alarm = a /\ Link(a) \in Seq(Instructions)
  <2>1. One(Link(a), "link")
    BY Instrs
  <2> QED  BY <2>1, Instrs, OneMore, EmptySeq
<1>5. This.alarm = a /\ Left(Link(a), end)'
  BY <1>1, <1>3, <1>4, LeftOne, WentOn
<1>6. /\ clock \in Clocks /\ clock' \in Clocks
      /\ clock'.previous = [clock.previous EXCEPT ![a] = AlarmList]
      /\ clock'.next = [clock.next EXCEPT ![a] = clock.next[AlarmList]]
      /\ clock'.time = clock.time /\ clock'.rollover = clock.rollover /\ clock'.nticks = clock.nticks
  <2>1. clock \in Clocks
    BY <1>1 DEF TypeOK
  <2> HIDE DEF Clocks
  <2> QED  BY <1>1, <1>5, <2>1, PointsInIs, StillClocks
<1>7. /\ \A e \in Entries \ {a} : clock'.next[e] = clock.next[e] /\ clock'.previous[e] = clock.previous[e]
      /\ clock'.next[a] = clock.next[AlarmList] /\ clock'.previous[a] = AlarmList
      /\ AlarmList \in Entries \ {a} /\ AlarmIds \subseteq Entries
  BY <1>6, AlarmsAssumption DEF Clocks, Entries
<1>8. Running' = Running /\ Running \subseteq AlarmIds
  BY <1>1 DEF Running
<1>9. Base'
  BY <1>1, <1>6, ThisIs DEF Base, TypeOK
<1>10. TableBut({})' /\ Nested'
  BY <1>1, <1>2, TableSame DEF Nested
<1>11. ListBut({a})'
  <2>1. RingOf(clock, Running \ {a})
    BY <1>3 DEF ListBut
  <2>2. \A e \in (Running \ {a}) \cup {AlarmList} :
          clock'.next[e] = clock.next[e] /\ clock'.previous[e] = clock.previous[e]
    BY <1>7, <1>8
  <2>3. RingOf(clock', Running \ {a})
    BY <2>1, <2>2, RingSame
  <2> QED  BY <1>3, <1>7, <1>8, <2>3 DEF ListBut
<1>12. AtStart(a, nticks, end)'
  BY <1>3, <1>5, <1>7, <1>8, <1>10, <1>11 DEF AtStart
<1>13. At(end, ahead, late)'
  BY <1>2, <1>3, <1>10, <1>12 DEF At
<1>14. TimesInv(end, ahead, late)'
  <2>1. ASSUME NEW e, EndOfList(e, ahead), ahead \subseteq Running
        PROVE  EndOfList(e, ahead)'
    <3>1. e \in Entries \ {a} /\ \A b \in ahead : b \in Entries \ {a}
      BY <1>3, <1>7, <1>8, <2>1 DEF EndOfList
    <3> QED  BY <1>7, <2>1, <3>1 DEF EndOfList
  <2>2. InVisits(end) => EndOfList(end[Len(end) - 1].alarm, ahead)'
    BY <1>1, <2>1 DEF TimesInv
  <2> QED  BY <1>1, <1>6, <2>2, TimesMoved
<1>15. MaskInv(end)'
  BY <1>1, MaskSame
<1>16. ProgramInv(end)'
  BY <1>1, <1>2, <1>8, ProgramSame
<1> QED  BY <1>9, <1>13, <1>14, <1>15, <1>16, Found

\* Those of its neighbours: the alarm is in the list.
LEMMA LinkKeeps ==
  ASSUME Base, NEW end \in Endings, NEW ahead \in SUBSET AlarmIds, NEW late \in SUBSET AlarmIds,
         Where(end, ahead, late), Executes("link"), StartAlarm
  PROVE  HalInv'
<1>1. /\ TypeOK /\ code # <<>> /\ This.op = "link" /\ At(end, ahead, late)
      /\ TimesInv(end, ahead, late) /\ MaskInv(end) /\ ProgramInv(end)
      /\ clock' = Linked(clock, This.alarm) /\ wait' = wait /\ code' = Rest
      /\ UNCHANGED <<pie, contexts, active, loaded, table, lines, program, asked>>
  BY DEF Base, Executes, This, Where, StartAlarm
<1>2. TableBut({}) /\ late = Late(end) /\ Nested
  BY <1>1, AtInsert
<1>3. PICK a \in AlarmIds, nticks \in 0..(TickMod - 2) :
        /\ a \notin ahead \cup late /\ a \in Running /\ ListBut({a}) /\ Left(Link(a), end)
        /\ clock.next[a] = clock.next[AlarmList] /\ clock.previous[a] = AlarmList
  <2>1. This.op # "arm" /\ This.op # "point"
    BY <1>1
  <2> QED  BY <1>1, <2>1, AtInsert
<1>4. This.alarm = a /\ Left(<<>>, end)'
  <2>1. One(Link(a), "link") /\ Link(a)[1].alarm = a
    BY Instrs
  <2> QED  BY <1>1, <1>3, <2>1, LeftOne, WentOn, EmptySeq
<1>5. /\ clock \in Clocks /\ clock' \in Clocks /\ clock' = Linked(clock, a)
      /\ clock'.previous = [clock.previous EXCEPT ![clock.next[AlarmList]] = a]
      /\ clock'.next = [clock.next EXCEPT ![AlarmList] = a]
      /\ clock'.time = clock.time /\ clock'.rollover = clock.rollover /\ clock'.nticks = clock.nticks
  <2>1. clock \in Clocks
    BY <1>1 DEF TypeOK
  <2> HIDE DEF Clocks
  <2> QED  BY <1>1, <1>4, <2>1, LinkedIs, StillClocks
<1>6. /\ RingOf(clock, Running \ {a})
      /\ \A b \in AlarmIds \ Running : clock.next[b] = b /\ clock.previous[b] = b
      /\ AlarmList \notin AlarmIds /\ Running \subseteq AlarmIds /\ Running' = Running
  BY <1>1, <1>3, AlarmsAssumption DEF ListBut, Running
<1>7. /\ clock.next[AlarmList] \in (Running \ {a}) \cup {AlarmList}
      /\ clock.previous[clock.next[AlarmList]] = AlarmList
  BY <1>6 DEF RingOf
<1>8. /\ \A e \in Entries \ {clock.next[AlarmList]} : clock'.previous[e] = clock.previous[e]
      /\ \A e \in Entries \ {AlarmList} : clock'.next[e] = clock.next[e]
      /\ clock'.previous[clock.next[AlarmList]] = a /\ Entries = AlarmIds \cup {AlarmList}
  BY <1>5, <1>6, <1>7 DEF Clocks, Entries
<1>9. ListBut({})'
  <2>1. RingOf(clock', (Running \ {a}) \cup {a})
    BY <1>3, <1>5, <1>6, RingLinked
  <2>2. (Running \ {a}) \cup {a} = Running /\ Running' \ {} = Running /\ Running' \cup {} = Running
    BY <1>3, <1>6
  <2>3. RingOf(clock', Running' \ {})
    BY <2>1, <2>2
  <2>4. \A b \in AlarmIds \ Running : clock'.next[b] = b /\ clock'.previous[b] = b
    BY <1>6, <1>7, <1>8
  <2> QED  BY <2>2, <2>3, <2>4 DEF ListBut
<1>10. Base'
  BY <1>1, <1>5, ThisIs DEF Base, TypeOK
<1>11. TableBut({})'
  BY <1>1, <1>2, TableSame
<1>12. At(end, ahead, late)'
  BY <1>2, <1>4, <1>9, <1>11 DEF At
<1>13. TimesInv(end, ahead, late)'
  <2>1. ASSUME NEW e, EndOfList(e, ahead), ahead \subseteq Running
        PROVE  EndOfList(e, ahead)'
    <3>1. /\ e \in ahead \/ (e = AlarmList /\ ahead = {})
          /\ clock.previous[e] \notin ahead
          /\ \A b \in ahead : clock.next[b] \in ahead \cup {AlarmList}
          /\ \A b \in ahead \ {e} : clock.previous[b] \in ahead
      BY <2>1 DEF EndOfList
    <3>2. e \in Entries /\ \A b \in ahead : b \in Entries /\ b # AlarmList
      BY <1>6, <1>8, <2>1, <3>1
    <3>3. clock'.previous[e] \notin ahead
      BY <1>3, <1>8, <3>1, <3>2
    <3>4. \A b \in ahead : clock'.next[b] \in ahead \cup {AlarmList}
      BY <1>8, <3>1, <3>2
    <3>5. \A b \in ahead \ {e} : clock'.previous[b] \in ahead
      BY <1>7, <1>8, <3>1, <3>2
    <3> QED  BY <3>1, <3>3, <3>4, <3>5 DEF EndOfList
  <2>2. InVisits(end) => EndOfList(end[Len(end) - 1].alarm, ahead)'
    BY <1>1, <2>1 DEF TimesInv
  <2> QED  BY <1>1, <1>5, <2>2, TimesMoved
<1>14. MaskInv(end)'
  BY <1>1, MaskSame
<1>15. ProgramInv(end)'
  BY <1>1, <1>2, <1>6, ProgramSame
<1> QED  BY <1>10, <1>12, <1>13, <1>14, <1>15, Found

\* The steps of alt_alarm_start.
LEMMA StartAlarmKeeps ==
  ASSUME Base, NEW end \in Endings, NEW ahead \in SUBSET AlarmIds, NEW late \in SUBSET AlarmIds,
         Where(end, ahead, late), StartAlarm
  PROVE  HalInv'
  BY ArmKeeps, PointKeeps, LinkKeeps DEF StartAlarm

\* alt_alarm_stop: the neighbours' pointers.
LEMMA BypassKeeps ==
  ASSUME Base, NEW end \in Endings, NEW ahead \in SUBSET AlarmIds, NEW late \in SUBSET AlarmIds,
         Where(end, ahead, late), Executes("bypass"), StopAlarm
  PROVE  HalInv'
<1>1. /\ TypeOK /\ code # <<>> /\ This.op = "bypass" /\ At(end, ahead, late)
      /\ TimesInv(end, ahead, late) /\ MaskInv(end) /\ ProgramInv(end)
      /\ clock' = Bypassed(clock, This.alarm) /\ wait' = wait /\ code' = Rest
      /\ UNCHANGED <<pie, contexts, active, loaded, table, lines, program, asked>>
  BY DEF Base, Executes, This, Where, StopAlarm
<1>2. TableBut({}) /\ Nested
  BY <1>1, AtRemove
<1>3. PICK a \in AlarmIds :
        /\ a \notin ahead
        /\ late \in {Late(end), IF InVisits(end) THEN Late(end) \cup {a} ELSE {}}
        /\ ListBut({}) /\ Left(Bypass(a) \o Unlink(a), end)
  <2>1. This.op # "unlink"
    BY <1>1
  <2> QED  BY <1>1, <2>1, AtRemove
<1>4. This.alarm = a /\ Left(Unlink(a), end)'
  <2>1. One(Bypass(a), "bypass") /\ Bypass(a)[1].alarm = a /\ One(Unlink(a), "unlink")
    BY Instrs
  <2>2. Unlink(a) \in Seq(Instructions)
    BY <2>1, OneMore, EmptySeq
  <2> QED  BY <1>1, <1>3, <2>1, <2>2, LeftOne, WentOn
<1>5. /\ clock \in Clocks /\ clock' \in Clocks /\ clock' = Bypassed(clock, a)
      /\ clock'.previous = [clock.previous EXCEPT ![clock.next[a]] = clock.previous[a]]
      /\ clock'.next = [clock.next EXCEPT ![clock.previous[a]] = clock.next[a]]
      /\ clock'.time = clock.time /\ clock'.rollover = clock.rollover /\ clock'.nticks = clock.nticks
  <2>1. clock \in Clocks
    BY <1>1 DEF TypeOK
  <2> HIDE DEF Clocks
  <2> QED  BY <1>1, <1>4, <2>1, BypassedIs, StillClocks
<1>6. /\ RingOf(clock, Running)
      /\ \A b \in AlarmIds \ Running : clock.next[b] = b /\ clock.previous[b] = b
      /\ AlarmList \notin AlarmIds /\ Running \subseteq AlarmIds /\ Running' = Running
  BY <1>1, <1>3, AlarmsAssumption DEF ListBut, Running
<1>7. /\ \A e \in Entries \ {clock.next[a]} : clock'.previous[e] = clock.previous[e]
      /\ \A e \in Entries \ {clock.previous[a]} : clock'.next[e] = clock.next[e]
      /\ clock.next[a] \in Entries /\ clock'.previous[clock.next[a]] = clock.previous[a]
      /\ clock.previous[a] \in Entries /\ clock'.next[clock.previous[a]] = clock.next[a]
      /\ Entries = AlarmIds \cup {AlarmList}
  BY <1>5, <1>6 DEF Clocks, Entries
<1>8. ASSUME a \notin Running
      PROVE  ListBut({a})' /\ \A e : EndOfList(e, ahead) /\ ahead \subseteq Running => EndOfList(e, ahead)'
  <2>1. clock.next[a] = a /\ clock.previous[a] = a
    BY <1>6, <1>8
  <2>2. \A e \in Entries : clock'.next[e] = clock.next[e] /\ clock'.previous[e] = clock.previous[e]
    BY <1>7, <2>1
  <2>3. clock'.next = clock.next /\ clock'.previous = clock.previous
    BY <1>5, <2>2 DEF Clocks
  <2>4. ListBut({})' /\ Running \ {a} = Running
    BY <1>3, <1>6, <1>8, <2>3, PointersSame
  <2>5. ListBut({a})'
    BY <1>6, <2>4 DEF ListBut
  <2>6. \A e : EndOfList(e, ahead) => EndOfList(e, ahead)'
    BY <2>3, PointersSame
  <2> QED  BY <2>5, <2>6
<1>9. ASSUME a \in Running
      PROVE  ListBut({a})' /\ \A e : EndOfList(e, ahead) /\ ahead \subseteq Running => EndOfList(e, ahead)'
  <2>1. /\ clock.next[a] \in Running \cup {AlarmList} /\ clock.previous[clock.next[a]] = a
        /\ clock.previous[a] \in Running \cup {AlarmList} /\ clock.next[clock.previous[a]] = a
    BY <1>6, <1>9, InRing
  <2>2. RingOf(clock', Running \ {a})
    BY <1>5, <1>6, <1>9, RingBypassed
  <2>3. \A b \in AlarmIds \ Running : clock'.next[b] = b /\ clock'.previous[b] = b
    BY <1>6, <1>7, <2>1
  <2>4. ListBut({a})'
    BY <1>6, <2>2, <2>3 DEF ListBut
  <2>5. ASSUME NEW e, EndOfList(e, ahead), ahead \subseteq Running
        PROVE  EndOfList(e, ahead)'
    <3>1. /\ e \in ahead \/ (e = AlarmList /\ ahead = {})
          /\ clock.previous[e] \notin ahead
          /\ \A b \in ahead : clock.next[b] \in ahead \cup {AlarmList}
          /\ \A b \in ahead \ {e} : clock.previous[b] \in ahead
      BY <2>5 DEF EndOfList
    <3>2. e \in Entries /\ \A b \in ahead : b \in Entries /\ b # AlarmList
      BY <1>6, <1>7, <2>5, <3>1
    <3>3. clock.previous[a] \notin ahead
      BY <1>3, <1>6, <2>1, <3>1
    <3>4. clock'.previous[e] \notin ahead
      BY <1>7, <3>1, <3>2, <3>3
    <3>5. \A b \in ahead : clock'.next[b] \in ahead \cup {AlarmList}
      BY <1>7, <3>1, <3>2, <3>3
    <3>6. \A b \in ahead \ {e} : clock'.previous[b] \in ahead
      BY <1>3, <1>7, <2>1, <3>1, <3>2
    <3> QED  BY <3>1, <3>4, <3>5, <3>6 DEF EndOfList
  <2> QED  BY <2>4, <2>5
<1>10. Base'
  BY <1>1, <1>5, ThisIs DEF Base, TypeOK
<1>11. TableBut({})' /\ Nested'
  BY <1>1, <1>2, TableSame DEF Nested
<1>12. AtStop(a, end)'
  BY <1>4, <1>8, <1>9, <1>11 DEF AtStop
<1>13. At(end, ahead, late)'
  BY <1>3, <1>11, <1>12 DEF At
<1>14. TimesInv(end, ahead, late)'
  <2>1. InVisits(end) => EndOfList(end[Len(end) - 1].alarm, ahead)'
    BY <1>1, <1>8, <1>9 DEF TimesInv
  <2> QED  BY <1>1, <1>5, <2>1, TimesMoved
<1>15. MaskInv(end)'
  BY <1>1, MaskSame
<1>16. ProgramInv(end)'
  BY <1>1, <1>2, <1>6, ProgramSame
<1> QED  BY <1>10, <1>13, <1>14, <1>15, <1>16, Found

\* The alarm points to itself again and runs no more.
LEMMA UnlinkKeeps ==
  ASSUME Base, NEW end \in Endings, NEW ahead \in SUBSET AlarmIds, NEW late \in SUBSET AlarmIds,
         Where(end, ahead, late), Executes("unlink"), StopAlarm
  PROVE  HalInv'
<1>1. /\ TypeOK /\ code # <<>> /\ This.op = "unlink" /\ At(end, ahead, late)
      /\ TimesInv(end, ahead, late) /\ MaskInv(end) /\ ProgramInv(end)
      /\ clock' = Unlinked(clock, This.alarm) /\ wait' = [wait EXCEPT ![This.alarm] = -1] /\ code' = Rest
      /\ UNCHANGED <<pie, contexts, active, loaded, table, lines, program, asked>>
  BY DEF Base, Executes, This, Where, StopAlarm
<1>2. TableBut({}) /\ Nested
  BY <1>1, AtRemove
<1>3. PICK a \in AlarmIds :
        /\ a \notin ahead
        /\ late \in {Late(end), IF InVisits(end) THEN Late(end) \cup {a} ELSE {}}
        /\ ListBut({a}) /\ Left(Unlink(a), end)
  <2>1. This.op # "bypass"
    BY <1>1
  <2> QED  BY <1>1, <2>1, AtRemove
<1>4. This.alarm = a /\ Left(<<>>, end)'
  <2>1. One(Unlink(a), "unlink") /\ Unlink(a)[1].alarm = a
    BY Instrs
  <2> QED  BY <1>1, <1>3, <2>1, LeftOne, WentOn, EmptySeq
<1>5. /\ clock \in Clocks /\ clock' \in Clocks /\ clock'.nticks = clock.nticks
      /\ clock'.previous = [clock.previous EXCEPT ![a] = a]
      /\ clock'.next = [clock.next EXCEPT ![a] = a]
      /\ \A b \in AlarmIds \ {a} : clock'.time[b] = clock.time[b] /\ clock'.rollover[b] = clock.rollover[b]
  <2>1. clock \in Clocks
    BY <1>1 DEF TypeOK
  <2> HIDE DEF Clocks
  <2> QED  BY <1>1, <1>4, <2>1, UnlinkedIs, StillClocks
<1>6. /\ wait' \in [AlarmIds -> -1..(TickMod - 1)] /\ wait'[a] = -1
      /\ \A b \in AlarmIds \ {a} : wait'[b] = wait[b]
  BY <1>1, <1>4, AlarmsAssumption DEF TypeOK
<1>7. /\ Running' = Running \ {a} /\ AlarmList \notin AlarmIds /\ Running \subseteq AlarmIds
  BY <1>6, AlarmsAssumption DEF Running
<1>8. /\ \A e \in Entries \ {a} : clock'.next[e] = clock.next[e] /\ clock'.previous[e] = clock.previous[e]
      /\ clock'.next[a] = a /\ clock'.previous[a] = a /\ Entries = AlarmIds \cup {AlarmList}
  BY <1>5 DEF Clocks, Entries
<1>9. ListBut({})'
  <2>1. RingOf(clock, Running \ {a}) /\ Running' \ {} = Running \ {a} /\ Running' \cup {} = Running \ {a}
    BY <1>3, <1>7 DEF ListBut
  <2>2. \A e \in (Running \ {a}) \cup {AlarmList} :
          clock'.next[e] = clock.next[e] /\ clock'.previous[e] = clock.previous[e]
    BY <1>3, <1>7, <1>8
  <2>3. RingOf(clock', Running \ {a})
    BY <2>1, <2>2, RingSame
  <2>4. \A b \in AlarmIds \ (Running \ {a}) : clock'.next[b] = b /\ clock'.previous[b] = b
    BY <1>3, <1>7, <1>8 DEF ListBut
  <2> QED  BY <2>1, <2>3, <2>4 DEF ListBut
<1>10. Base'
  BY <1>1, <1>5, <1>6, ThisIs DEF Base, TypeOK
<1>11. TableBut({})'
  BY <1>1, <1>2, TableSame
<1>12. At(end, ahead, Late(end))'
  BY <1>4, <1>9, <1>11 DEF At
<1>13. /\ ahead \subseteq Running \ late /\ late \subseteq Late(end) \cup {a}
       /\ Late(end) \subseteq late \/ ~InVisits(end)
  BY <1>1, <1>3 DEF TimesInv
<1>14. ~InVisits(end) => Late(end) = {}
  BY DEF InVisits, Late
<1>15. /\ \A b \in Running' \ (ahead \cup Late(end)) : Visited(b)'
       /\ \A b \in ahead : Unvisited(b)'
  <2>1. \A b \in Running' : b \in AlarmIds \ {a} /\ b \in Running
    BY <1>7
  <2>2. /\ \A b \in Running \ (ahead \cup late) : Visited(b)
        /\ \A b \in ahead : Unvisited(b)
    BY <1>1 DEF TimesInv
  <2>3. \A b \in ahead : b \in Running'
    BY <1>3, <1>7, <1>13
  <2> QED  BY <1>5, <1>6, <1>13, <2>1, <2>2, <2>3, AlarmSame
<1>16. TimesInv(end, ahead, Late(end))'
  <2>1. ASSUME NEW e, EndOfList(e, ahead)
        PROVE  EndOfList(e, ahead)'
    <3>1. e \in Entries \ {a} /\ \A b \in ahead : b \in Entries \ {a}
      BY <1>3, <1>7, <1>8, <1>13, <2>1 DEF EndOfList
    <3> QED  BY <1>8, <2>1, <3>1 DEF EndOfList
  <2>2. IF InVisits(end) THEN EndOfList(end[Len(end) - 1].alarm, ahead)' ELSE ahead = {}
    BY <1>1, <2>1 DEF TimesInv
  <2>3. ASSUME end # <<>>, end[1].op = "called", NEW b, b = end[1].alarm
        PROVE  \/ wait'[b] = -1
               \/ wait'[b] = 0 /\ clock'.time[b] = clock'.nticks /\ ~clock'.rollover[b]
    <3>1. b \in AlarmIds
      BY <2>3, EndingsAre
    <3>2. \/ wait[b] = -1
          \/ wait[b] = 0 /\ clock.time[b] = clock.nticks /\ ~clock.rollover[b]
      BY <1>1, <2>3 DEF TimesInv
    <3> QED  BY <1>5, <1>6, <3>1, <3>2
  <2>4. ahead \subseteq Running' \ Late(end)
    BY <1>3, <1>7, <1>13, <1>14
  <2> QED  BY <1>15, <2>2, <2>3, <2>4 DEF TimesInv
<1>17. MaskInv(end)'
  BY <1>1, MaskSame
<1>18. ProgramInv(end)'
  BY <1>1, <1>2, <1>7, ProgramSame
<1>19. Late(end) \in SUBSET AlarmIds
  BY EndingsAre
<1> QED  BY <1>10, <1>12, <1>16, <1>17, <1>18, <1>19, Found

\* The steps of alt_alarm_stop.
LEMMA StopAlarmKeeps ==
  ASSUME Base, NEW end \in Endings, NEW ahead \in SUBSET AlarmIds, NEW late \in SUBSET AlarmIds,
         Where(end, ahead, late), StopAlarm
  PROVE  HalInv'
  BY BypassKeeps, UnlinkKeeps DEF StopAlarm
------------------------------------------------------------------------------
(* The theorems.                                                             *)

\* After the clock's driver has registered nothing is left to execute.
LEMMA InitHolds == Init => HalInv
<1> SUFFICES ASSUME Init PROVE HalInv
  OBVIOUS
<1>1. /\ pie = TRUE /\ contexts = <<>> /\ active = {Timer} /\ loaded = {} /\ lines = {}
      /\ table = [i \in Irqs |-> IF i = Timer THEN [isr |-> "alt_tick", context |-> "alt_tick"]
                                              ELSE [isr |-> None, context |-> None]]
      /\ code = <<>> /\ program = None /\ clock = NoAlarms
      /\ asked = {Timer} /\ wait = [a \in AlarmIds |-> -1]
  BY DEF Init
<1>2. clock \in Clocks
  BY <1>1, AlarmsAssumption DEF NoAlarms, Clocks, Entries
<1>3. Running = {}
  BY <1>1 DEF Running
<1>4. Base
  <2>1. wait \in [AlarmIds -> -1..(TickMod - 1)]
    BY <1>1, AlarmsAssumption
  <2>2. table \in Tables
    BY <1>1 DEF Tables
  <2>3. contexts \in Seq(BOOLEAN) /\ code \in Seq(Instructions)
    BY <1>1, EmptySeq
  <2>4. Timer \in Irqs
    BY InterruptsAssumption
  <2> QED  BY <1>1, <1>2, <2>1, <2>2, <2>3, <2>4 DEF Base, TypeOK
<1>5. TableBut({})
  BY <1>1, InterruptsAssumption DEF TableBut
<1>6. ListBut({})
  <2>1. \A e \in Entries : clock.next[e] = e /\ clock.previous[e] = e
    BY <1>1 DEF NoAlarms
  <2>2. AlarmList \in Entries /\ AlarmIds \subseteq Entries /\ Running \ {} = {} /\ Running \cup {} = {}
    BY <1>3 DEF Entries
  <2>3. RingOf(clock, {})
    BY <2>1, <2>2 DEF RingOf
  <2> QED  BY <2>1, <2>2, <2>3 DEF ListBut
<1>7. <<>> \in Endings /\ Late(<<>>) = {} /\ ~InVisits(<<>>)
  BY DEF Endings, Late, InVisits
<1>8. At(<<>>, {}, {})
  BY <1>1, <1>5, <1>6, <1>7, AtNothing
<1>9. TimesInv(<<>>, {}, {})
  BY <1>3, <1>7 DEF TimesInv
<1>10. MaskInv(<<>>) /\ ProgramInv(<<>>)
  BY <1>1 DEF MaskInv, ProgramInv, Nested, Outside
<1> QED  BY <1>3, <1>4, <1>7, <1>8, <1>9, <1>10 DEF HalInv, Where

\* Every step keeps the invariant.
LEMMA StepKeeps ==
  ASSUME HalInv, Next
  PROVE  HalInv'
<1> PICK end \in Endings, ahead \in SUBSET Running, late \in SUBSET AlarmIds : Where(end, ahead, late)
  BY DEF HalInv
<1>1. Base /\ ahead \in SUBSET AlarmIds
  BY DEF HalInv, Running
<1>2. CASE TakeInterrupt
  BY <1>1, <1>2, TakeInterruptKeeps
<1>3. CASE Dispatch
  BY <1>1, <1>3, DispatchKeeps
<1>4. CASE Return
  BY <1>1, <1>4, ReturnKeeps
<1>5. CASE Acknowledge
  BY <1>1, <1>5, AcknowledgeKeeps
<1>6. CASE SetPie
  BY <1>1, <1>6, SetPieKeeps
<1>7. CASE LoadActive
  BY <1>1, <1>7, LoadActiveKeeps
<1>8. CASE StoreActive
  BY <1>1, <1>8, StoreActiveKeeps
<1>9. CASE SetRoutine
  BY <1>1, <1>9, SetRoutineKeeps
<1>10. CASE StartAlarm
  BY <1>1, <1>10, StartAlarmKeeps
<1>11. CASE StopAlarm
  BY <1>1, <1>11, StopAlarmKeeps
<1>12. CASE Tick
  BY <1>1, <1>12, TickKeeps
<1>13. CASE VisitAlarm
  BY <1>1, <1>13, VisitAlarmKeeps
<1>14. CASE CallbackReturns
  BY <1>1, <1>14, CallbackReturnsKeeps
<1>15. CASE Call
  BY <1>1, <1>15, CallKeeps
<1>16. CASE \E i \in Irqs : Raise(i)
  BY <1>1, <1>16, RaiseKeeps
<1> QED  BY <1>2, <1>3, <1>4, <1>5, <1>6, <1>7, <1>8, <1>9, <1>10, <1>11, <1>12, <1>13, <1>14, <1>15, <1>16
         DEF Next, Processor

\* So does a step that changes nothing.
LEMMA StutterKeeps ==
  ASSUME HalInv, UNCHANGED vars
  PROVE  HalInv'
<1> PICK end \in Endings, ahead \in SUBSET Running, late \in SUBSET AlarmIds : Where(end, ahead, late)
  BY DEF HalInv
<1>1. Base /\ ahead \in SUBSET AlarmIds
  BY DEF HalInv, Running
<1> QED  BY <1>1, SameKeeps DEF vars, Base, TypeOK

\* HalInv is inductive, and holds in every reachable state.
THEOREM InvariantHolds == Spec => []HalInv
<1>1. HalInv /\ [Next]_vars => HalInv'
  BY StepKeeps, StutterKeeps
<1> QED  BY InitHolds, <1>1, PTL DEF Spec

\* Wherever the program or another function is interrupted, the interrupt finds
\* the alarm list a ring, both ways, of exactly the alarms that were started and
\* not stopped: alt_llist_insert and alt_llist_remove are called with interrupts
\* disabled (alt_alarm_start.c:78-99, alt_tick.c:68-72).
THEOREM ListWhole == Spec => []ListIntact
<1>1. HalInv => ListIntact
  <2> SUFFICES ASSUME HalInv, pie \/ (code # <<>> /\ This.op \in {"dispatch", "tick", "visit"})
               PROVE  RingOf(clock, Running)
    BY DEF ListIntact
  <2> PICK end \in Endings, ahead \in SUBSET Running, late \in SUBSET AlarmIds : Where(end, ahead, late)
    BY DEF HalInv
  <2>1. TypeOK /\ At(end, ahead, late) /\ MaskInv(end)
    BY DEF HalInv, Base, Where
  <2>2. pie => ListBut({})
    BY <2>1, NotNested DEF MaskInv
  <2>3. ListBut({})
    BY <2>1, <2>2, BetweenFunctions
  <2>4. Running \ {} = Running
    OBVIOUS
  <2> QED  BY <2>3, <2>4 DEF ListBut
<1> QED  BY InvariantHolds, <1>1, PTL

\* A routine is called for a line that was left enabled, with its own context,
\* and no enabling or disabling of a line is undone by another between its load
\* and its store of alt_irq_active (alt_legacy_irq.h:68-99,
\* alt_iic_isr_register.c:84-97).
THEOREM DispatchIsSound == Spec => []DispatchSound
<1>1. HalInv => DispatchSound
  <2> SUFFICES ASSUME HalInv PROVE DispatchSound
    OBVIOUS
  <2> PICK end \in Endings, ahead \in SUBSET Running, late \in SUBSET AlarmIds : Where(end, ahead, late)
    BY DEF HalInv
  <2>1. TypeOK /\ At(end, ahead, late) /\ active = asked
    BY DEF HalInv, Base, Where
  <2>2. code # <<>> /\ This.op = "dispatch" => TableBut({})
    BY <2>1, BetweenFunctions
  <2>3. \A i \in Pending : i \in active /\ i \in Irqs
    BY <2>1 DEF Pending, TypeOK
  <2> QED  BY <2>1, <2>2, <2>3 DEF DispatchSound, TableBut
<1> QED  BY InvariantHolds, <1>1, PTL

\* The rest of a tick is the end of what is left to execute.
LEMMA LeftInTick ==
  ASSUME TypeOK, NEW end \in Endings, InVisits(end), NEW part \in Seq(Instructions), Left(part, end)
  PROVE  InTick
<1>1. end \in Seq(Instructions) /\ Len(end) \in Nat /\ Len(end) > 0 /\ Len(contexts) \in Nat
  BY EndingsAre, EmptySeq, LenProperties DEF InVisits, TypeOK
<1>2. part \o Ends(Len(contexts)) \in Seq(Instructions)
  BY <1>1, EndsAre, ConcatProperties
<1>3. PICK s \in Seq(Instructions) : code = s \o end
  BY <1>2 DEF Left
<1>4. Len(s) + 1 \in 1..Len(code) /\ code[Len(s) + 1] = end[1]
  BY <1>1, <1>3
<1>5. DOMAIN code = 1..Len(code)
  BY DEF TypeOK
<1> QED  BY <1>4, <1>5 DEF InTick, InVisits

\* While alarms are left to visit, the tick is what is being executed.
LEMMA AtInTick ==
  ASSUME TypeOK, NEW end \in Endings, InVisits(end), NEW ahead, NEW late, At(end, ahead, late)
  PROVE  InTick
<1>1. CASE Left(<<>>, end) \/ (code \in Beginnings /\ end = ThenDispatch)
  BY <1>1, LeftInTick, EmptySeq, ThenDispatchIs
<1>2. ASSUME NEW i \in Lines, AtLine(i, end)
      PROVE  InTick
  <2>1. One(Load, "load") /\ One(Or(i), "or") /\ One(AndNot(i), "andnot") /\ i \in Irqs
    BY Instrs DEF Lines
  <2>2. /\ Or(i) \in Seq(Instructions) /\ AndNot(i) \in Seq(Instructions)
        /\ Load \o Or(i) \in Seq(Instructions) /\ Load \o AndNot(i) \in Seq(Instructions)
        /\ IrqEnable(i) \in Seq(Instructions) /\ Protected(IrqEnable(i)) \in Seq(Instructions)
        /\ IrqDisable(i) \in Seq(Instructions) /\ Protected(IrqDisable(i)) \in Seq(Instructions)
    BY <2>1, OneMore, EmptySeq, Functions
  <2> QED  BY <1>2, <2>2, LeftInTick DEF AtLine
<1>3. ~(end = <<>>)
  BY DEF InVisits
<1>4. ASSUME NEW a \in AlarmIds, NEW nticks \in 0..(TickMod - 2), AtStart(a, nticks, end)
      PROVE  InTick
  <2>1. One(Link(a), "link")
    BY Instrs
  <2>2. /\ AlarmStart(a, nticks) \in Seq(Instructions)
        /\ Protected(AlarmStart(a, nticks)) \in Seq(Instructions)
        /\ Arm(a, nticks) \o (Point(a) \o Link(a)) \in Seq(Instructions)
        /\ Point(a) \o Link(a) \in Seq(Instructions) /\ Link(a) \in Seq(Instructions)
    BY <2>1, OneMore, EmptySeq, Functions
  <2> QED  BY <1>4, <2>2, LeftInTick DEF AtStart
<1>5. ASSUME NEW a \in AlarmIds, AtStop(a, end)
      PROVE  InTick
  <2>1. One(Unlink(a), "unlink")
    BY Instrs
  <2>2. /\ AlarmStop(a) \in Seq(Instructions) /\ Protected(AlarmStop(a)) \in Seq(Instructions)
        /\ Bypass(a) \o Unlink(a) \in Seq(Instructions) /\ Unlink(a) \in Seq(Instructions)
    BY <2>1, OneMore, EmptySeq, Functions
  <2> QED  BY <1>5, <2>2, LeftInTick DEF AtStop
<1> QED  BY <1>1, <1>2, <1>3, <1>4, <1>5 DEF At

\* An alarm's callback is called in exactly the tick that it was asked for,
\* however often the tick counter and the alarm's time wrap in between and
\* whatever callbacks start and stop (alt_tick.c:96-141,
\* alt_alarm_start.c:82-96).
THEOREM PunctualHolds == Spec => []Punctual
<1>1. HalInv => Punctual
  <2> SUFFICES ASSUME HalInv PROVE Punctual
    OBVIOUS
  <2> PICK end \in Endings, ahead \in SUBSET Running, late \in SUBSET AlarmIds : Where(end, ahead, late)
    BY DEF HalInv
  <2>1. TypeOK /\ At(end, ahead, late) /\ TimesInv(end, ahead, late)
    BY DEF HalInv, Base, Where
  <2>2. ASSUME code # <<>>, This.op = "called"
        PROVE  wait[This.alarm] \in {0, -1}
    <3>1. code = end
      BY <2>1, <2>2, BetweenFunctions, BeginningsOps DEF This
    <3> QED  BY <2>1, <2>2, <3>1 DEF TimesInv, This
  <2>3. ASSUME ~InTick, NEW a \in Running
        PROVE  wait[a] > 0
    <3>1. ~InVisits(end)
      BY <2>1, <2>3, AtInTick
    <3>2. late = {} /\ ahead = {}
      <4>1. Late(end) = {}
        BY <3>1 DEF Late, InVisits
      <4> QED  BY <2>1, <3>1, <4>1 DEF At, TimesInv
    <3> QED  BY <2>1, <3>2 DEF TimesInv, Visited
  <2> QED  BY <2>2, <2>3 DEF Punctual
<1> QED  BY InvariantHolds, <1>1, PTL

=============================================================================
