----------------------------- MODULE SgdmaProofs -----------------------------
(* Theorems about the SGDMA driver and its engine, for any descriptor        *)
(* arrays, any lengths of chains and any depth of the FIFOs. The inductive   *)
(* invariant SgdmaInv says how far the engine is with its chain, and where   *)
(* the processor is: what is left of a call, what holds there, and what is   *)
(* left of the call that the handler has interrupted. The lemmas about       *)
(* sequences and calls come first, then one for each action.                 *)
EXTENDS Sgdma, SequenceTheorems, TLAPS

------------------------------------------------------------------------------
(* What holds between any two accesses.                                      *)

Bits == {"IE_GLOBAL", "IE_CHAIN", "PARK", "RUN", "STOP_ER", "CLEAR_IRQ"}

Instructions ==
  [op : {"load", "reject_busy", "await_idle", "clear_status", "return_status", "callback", "eret"}]
    \cup [op : {"store"}, set : SUBSET Bits, clear : SUBSET Bits]
    \cup [op : {"construct"}, desc : Descriptors]
    \cup [op : {"built"}, chain : Chains, length : Lengths]
    \cup [op : {"point"}, chain : Chains]

TypeOK ==
  /\ own \in [Descriptors -> BOOLEAN]
  /\ control \in SUBSET Bits /\ pointer \in Chains /\ completed \in BOOLEAN /\ irq \in BOOLEAN
  /\ engine \in [running : BOOLEAN, ended : BOOLEAN, owned : BOOLEAN, next : Descriptors,
                 queue : Seq(Descriptors), written : BOOLEAN]
  /\ device \in [callback : BOOLEAN, chainControl : SUBSET Bits]
  /\ loaded \in SUBSET Bits /\ turns \in {0, 1}
  /\ length \in [Chains -> Lengths \cup {0}]
  /\ transfer \in [chain : Chains, processed : Seq(Descriptors), owed : BOOLEAN]

(* The engine has processed the first descriptors of its chain, those after  *)
(* them are in its queue, and it stops in front of the first that is not in  *)
(* the chain: what is not processed is the hardware's, and what is behind    *)
(* the end is not. When it does not run, it has processed its chain.         *)
Done == Len(transfer.processed)
Ahead == Len(engine.queue)
Last == length[transfer.chain]

RunningInv ==
  /\ Last > 0 /\ Done + Ahead <= Last
  /\ transfer.processed = [i \in 1..Done |-> <<transfer.chain, i>>]
  /\ engine.queue = [i \in 1..Ahead |-> <<transfer.chain, Done + i>>]
  /\ IF engine.owned THEN engine.next = <<transfer.chain, Done + Ahead + 1>>
     ELSE Done + Ahead = Last
  /\ \A i \in (Done + 1)..Last : own[<<transfer.chain, i>>]
  /\ ~own[<<transfer.chain, Last + 1>>]
  /\ ~engine.ended /\ ~irq

EngineInv ==
  /\ IF engine.running THEN RunningInv ELSE ~Busy /\ Whole
  /\ irq => engine.ended

(* What is left of a call from its access k on, and then the end.            *)
Left(call, k, end) == SubSeq(call, k, Len(call)) \o end

AtRest == ~engine.running /\ ~irq

(* A chain that has been constructed is bounded, and is ready to be started  *)
(* while the hardware owns all of it.                                        *)
Bounded(c) == length[c] > 0 => ~own[<<c, length[c] + 1>>]
Ready(c) == length[c] > 0 /\ \A i \in 1..length[c] : own[<<c, i>>]
AllBounded == \A c \in Chains : Bounded(c)

(* While the callback may start a transfer, or does, nothing else goes on.   *)
Alone(end) == (turns = 1 \/ end # <<>> => AtRest) /\ (turns = 1 => program = <<>>)

AtPrepare(left, end) ==
  \E c \in Chains \ {transfer.chain}, n \in Lengths : \E i \in 1..(n + 1) :
    /\ left = Left(Prepare(c, n), i, end) /\ Alone(end)
    /\ \A j \in 1..(i - 1) : own[<<c, j>>]
    /\ i > 1 => ~own[<<c, i>>]
    /\ \A b \in Chains \ {c} : Bounded(b)

(* The first seven accesses of a transfer, up to the start of the engine.    *)
StartInv(c, k) ==
  /\ Ready(c)
  /\ k >= 2 => ~Busy
  /\ k >= 3 => ~engine.running
  /\ k >= 4 => AtRest /\ ~engine.ended
  /\ k >= 6 => pointer = c

AtTransfer(left, end) ==
  \E c \in Chains \ {transfer.chain}, k \in 1..7 :
    /\ \/ left = Left(AsyncTransfer(c), k, end)
       \/ left = Left(SyncTransfer(c), k, end) /\ end = <<>> /\ turns = 0
    /\ StartInv(c, k) /\ Alone(end) /\ AllBounded

(* The others, of a blocking transfer.                                       *)
WaitInv(k) ==
  /\ engine.running \/ completed
  /\ k >= 9 => ~Busy
  /\ k >= 10 => ~engine.running

AtWait(left, end) ==
  \E c \in Chains, k \in 8..11 :
    left = Left(SyncTransfer(c), k, end) /\ end = <<>> /\ turns = 0 /\ WaitInv(k) /\ AllBounded

AtStartOrStop(left, end) ==
  \E k \in 1..2 :
    /\ \/ left = Left(StartEngine, k, end) /\ Ready(pointer)
       \/ left = Left(StopEngine, k, end)
    /\ end = <<>> /\ AtRest /\ program = <<>> /\ AllBounded

(* Where the program, or a transfer that the callback starts, is.            *)
At(left, end) ==
  \/ left = end /\ AllBounded
  \/ AtPrepare(left, end) \/ AtTransfer(left, end) \/ AtWait(left, end)
  \/ AtStartOrStop(left, end)

(* Where the handler is.                                                     *)
InHandler ==
  \E k \in 1..Len(Irq) :
    code = Left(Irq, k, <<>>) /\ IF k <= 2 THEN irq ELSE AtRest

(* A call of the program, or of the callback, and the program then waits for *)
(* its end; or the handler before and after the callback.                    *)
InCall(end) ==
  /\ At(code, end)
  /\ IF end = <<>> THEN program = <<>>
     ELSE turns = 0 /\ \E l \in SUBSET Bits : program = <<[code |-> <<>>, loaded |-> l]>>

Handling ==
  /\ \E left \in Seq(Instructions), l \in SUBSET Bits :
       program = <<[code |-> left, loaded |-> l]>> /\ At(left, <<>>)
  /\ InHandler

CodeInv == InCall(<<>>) \/ InCall(ThenReturn) \/ Handling

SgdmaInv == TypeOK /\ EngineInv /\ CodeInv

------------------------------------------------------------------------------
(* Calls.                                                                    *)

\* The next access of a call, and what is left after it.
LEMMA LeftIs ==
  ASSUME NEW S, NEW call \in Seq(S), NEW end \in Seq(S), NEW k \in 1..Len(call)
  PROVE  /\ Left(call, k, end) \in Seq(S) /\ Left(call, k, end) # <<>>
         /\ Left(call, k, end)[1] = call[k]
         /\ Tail(Left(call, k, end)) = Left(call, k + 1, end)
<1> DEFINE part(i) == SubSeq(call, i, Len(call))
<1>1. ASSUME NEW i \in 1..(Len(call) + 1)
      PROVE  /\ part(i) \in Seq(S) /\ Len(part(i)) = Len(call) - i + 1
             /\ \A m \in 1..(Len(call) - i + 1) : part(i)[m] = call[i + m - 1]
  BY SubSeqProperties, LenProperties
<1>2. ASSUME NEW i \in 1..(Len(call) + 1)
      PROVE  /\ Left(call, i, end) \in Seq(S)
             /\ Len(Left(call, i, end)) = Len(call) - i + 1 + Len(end)
             /\ \A m \in 1..(Len(call) - i + 1 + Len(end)) : Left(call, i, end)[m] =
                  IF m <= Len(call) - i + 1 THEN call[i + m - 1] ELSE end[m - (Len(call) - i + 1)]
  <2>1. Len(part(i)) \in Nat /\ Len(end) \in Nat
    BY <1>1, LenProperties
  <2>2. part(i) \in Seq(S) /\ Len(part(i)) = Len(call) - i + 1
        /\ \A m \in 1..(Len(call) - i + 1) : part(i)[m] = call[i + m - 1]
    BY <1>1
  <2>3. Left(call, i, end) = part(i) \o end
    BY DEF Left
  <2> HIDE DEF part
  <2>4. /\ part(i) \o end \in Seq(S) /\ Len(part(i) \o end) = Len(part(i)) + Len(end)
        /\ \A m \in 1..(Len(part(i)) + Len(end)) : (part(i) \o end)[m] =
             IF m <= Len(part(i)) THEN part(i)[m] ELSE end[m - Len(part(i))]
    BY <2>2, ConcatProperties
  <2> QED  BY <2>1, <2>2, <2>3, <2>4
<1>3. Left(call, k, end) \in Seq(S) /\ Left(call, k, end) # <<>>
  BY <1>2, LenProperties, EmptySeq
<1>4. Left(call, k, end)[1] = call[k]
  <2>1. k \in 1..(Len(call) + 1) /\ Len(call) \in Nat /\ Len(end) \in Nat
    BY LenProperties
  <2>2. \A m \in 1..(Len(call) - k + 1 + Len(end)) : Left(call, k, end)[m] =
           IF m <= Len(call) - k + 1 THEN call[k + m - 1] ELSE end[m - (Len(call) - k + 1)]
    BY <1>2, <2>1
  <2> QED  BY <2>1, <2>2
<1>5. Tail(Left(call, k, end)) = Left(call, k + 1, end)
  <2> DEFINE s == Left(call, k, end)  t == Left(call, k + 1, end)
  <2>1. /\ Tail(s) \in Seq(S) /\ Len(Tail(s)) = Len(s) - 1
        /\ \A m \in 1..(Len(s) - 1) : Tail(s)[m] = s[m + 1]
    BY <1>3, HeadTailProperties, LenProperties
  <2>2. t \in Seq(S) /\ Len(t) = Len(s) - 1
    BY <1>2, LenProperties
  <2>3. k \in 1..(Len(call) + 1) /\ k + 1 \in 1..(Len(call) + 1) /\ Len(call) \in Nat /\ Len(end) \in Nat
    BY LenProperties
  <2>4. ASSUME NEW m \in 1..Len(t) PROVE Tail(s)[m] = t[m]
    <3>1. m + 1 \in 1..Len(s) /\ m \in 1..(Len(s) - 1)
      BY <1>2, <2>2, <2>3
    <3>2. s[m + 1] = IF m + 1 <= Len(call) - k + 1 THEN call[k + m] ELSE end[m - (Len(call) - k)]
      <4>1. /\ Len(s) = Len(call) - k + 1 + Len(end)
            /\ \A j \in 1..(Len(call) - k + 1 + Len(end)) : s[j] =
                 IF j <= Len(call) - k + 1 THEN call[k + j - 1] ELSE end[j - (Len(call) - k + 1)]
        BY <1>2, <2>3
      <4> QED  BY <2>3, <3>1, <4>1
    <3>3. t[m] = IF m <= Len(call) - k THEN call[k + m] ELSE end[m - (Len(call) - k)]
      <4>1. /\ Len(t) = Len(call) - (k + 1) + 1 + Len(end)
            /\ \A j \in 1..(Len(call) - (k + 1) + 1 + Len(end)) : t[j] =
                 IF j <= Len(call) - (k + 1) + 1 THEN call[k + 1 + j - 1]
                 ELSE end[j - (Len(call) - (k + 1) + 1)]
        BY <1>2, <2>3
      <4>2. m <= Len(call) - (k + 1) + 1 <=> m <= Len(call) - k
        BY <2>3
      <4>3. k + 1 + m - 1 = k + m /\ m - (Len(call) - (k + 1) + 1) = m - (Len(call) - k)
        BY <2>3
      <4> HIDE DEF t
      <4> QED  BY <2>3, <4>1, <4>2, <4>3
    <3> QED  BY <2>1, <3>1, <3>2, <3>3
  <2> QED  BY <2>1, <2>2, <2>4, SeqEqual
<1> QED  BY <1>3, <1>4, <1>5

\* A call that begins, and one that is over.
LEMMA LeftEnds ==
  ASSUME NEW S, NEW call \in Seq(S), NEW end \in Seq(S)
  PROVE  Left(call, 1, end) = call \o end /\ Left(call, Len(call) + 1, end) = end
         /\ call \o <<>> = call
<1>1. SubSeq(call, 1, Len(call)) = call
  <2>1. /\ SubSeq(call, 1, Len(call)) \in Seq(S) /\ Len(SubSeq(call, 1, Len(call))) = Len(call)
        /\ \A m \in 1..Len(call) : SubSeq(call, 1, Len(call))[m] = call[m]
    BY SubSeqProperties, LenProperties
  <2> QED  BY <2>1, SeqEqual
<1>2. SubSeq(call, Len(call) + 1, Len(call)) = <<>>
  BY SubSeqProperties, LenProperties, EmptySeq
<1> QED  BY <1>1, <1>2, ConcatEmptySeq DEF Left

\* How many descriptors an array has, and the descriptor after one.
LEMMA Numbers ==
  /\ ArraySize \in Nat /\ FifoDepth \in Nat \ {0}
  /\ \A n \in Lengths : n \in 1..(ArraySize - 1) /\ n + 1 \in 1..ArraySize
  /\ \A c \in Chains, i \in 1..ArraySize : <<c, i>> \in Descriptors /\ After(<<c, i>>) \in Descriptors
  /\ \A c \in Chains, i \in 1..(ArraySize - 1) : After(<<c, i>>) = <<c, i + 1>>
<1>1. /\ ArraySize \in Nat /\ FifoDepth \in Nat \ {0}
      /\ \A n \in Lengths : n \in 1..(ArraySize - 1) /\ n + 1 \in 1..ArraySize
  BY SgdmaAssumption
<1>2. ASSUME NEW c \in Chains, NEW i \in 1..ArraySize
      PROVE  <<c, i>> \in Descriptors /\ After(<<c, i>>) \in Descriptors
  BY <1>1 DEF Descriptors, After
<1>3. ASSUME NEW c \in Chains, NEW i \in 1..(ArraySize - 1) PROVE After(<<c, i>>) = <<c, i + 1>>
  BY <1>1 DEF After
<1> QED  BY <1>1, <1>2, <1>3

\* The accesses.
LEMMA Accesses ==
  /\ Load \in Instructions /\ ClearRun \in Instructions
  /\ \A set, clear \in SUBSET Bits : Store(set, clear) \in Instructions
  /\ \A d \in Descriptors : Construct(d) \in Instructions
  /\ \A c \in Chains : PointAt(c) \in Instructions
  /\ \A c \in Chains, n \in Lengths : [op |-> "built", chain |-> c, length |-> n] \in Instructions
  /\ \A op \in {"load", "reject_busy", "await_idle", "clear_status", "return_status", "callback",
                "eret"} : [op |-> op] \in Instructions
<1>1. \A op \in {"load", "reject_busy", "await_idle", "clear_status", "return_status", "callback",
                "eret"} : [op |-> op] \in Instructions
  BY DEF Instructions
<1>2. Load \in Instructions
  BY <1>1 DEF Load
<1>3. \A set, clear \in SUBSET Bits : Store(set, clear) \in Instructions
  BY DEF Instructions, Store
<1>4. ClearRun \in Instructions
  BY <1>3 DEF ClearRun, Bits
<1>5. \A d \in Descriptors : Construct(d) \in Instructions
  BY DEF Instructions, Construct
<1>6. \A c \in Chains : PointAt(c) \in Instructions
  BY DEF Instructions, PointAt
<1>7. \A c \in Chains, n \in Lengths : [op |-> "built", chain |-> c, length |-> n] \in Instructions
  BY DEF Instructions
<1> QED  BY <1>1, <1>2, <1>3, <1>4, <1>5, <1>6, <1>7

\* The construction of a chain.
LEMMA PrepareIs ==
  ASSUME NEW c \in Chains, NEW n \in Lengths
  PROVE  /\ Prepare(c, n) \in Seq(Instructions) /\ Len(Prepare(c, n)) = n + 1
         /\ \A i \in 1..n : Prepare(c, n)[i] = Construct(<<c, i>>)
         /\ Prepare(c, n)[n + 1] = [op |-> "built", chain |-> c, length |-> n]
<1>1. n \in Nat /\ n + 1 \in Nat /\ \A i \in 1..n : <<c, i>> \in Descriptors
  BY Numbers
<1>2. \A i \in 1..(n + 1) :
         (IF i <= n THEN Construct(<<c, i>>) ELSE [op |-> "built", chain |-> c, length |-> n])
           \in Instructions
  BY <1>1, Accesses
<1> QED  BY <1>1, <1>2 DEF Prepare

\* The calls, as sequences.
LEMMA CallsAre ==
  ASSUME TypeOK
  PROVE  /\ \A c \in Chains : /\ AsyncTransfer(c) \in Seq(Instructions) /\ Len(AsyncTransfer(c)) = 7
                              /\ SyncTransfer(c) \in Seq(Instructions) /\ Len(SyncTransfer(c)) = 11
         /\ StartEngine \in Seq(Instructions) /\ Len(StartEngine) = 2
         /\ StopEngine \in Seq(Instructions) /\ Len(StopEngine) = 2
         /\ Irq \in Seq(Instructions) /\ Len(Irq) = IF device.callback THEN 4 ELSE 3
         /\ ThenReturn \in Seq(Instructions) /\ <<>> \in Seq(Instructions)
<1>1. device.callback \in BOOLEAN /\ device.chainControl \in SUBSET Bits
  BY DEF TypeOK
<1>2. /\ Store({"RUN", "STOP_ER"}, {}) \in Instructions
      /\ Store({"RUN", "STOP_ER"}, {"IE_GLOBAL"}) \in Instructions
      /\ Store({"RUN"}, {}) \in Instructions /\ Store({"CLEAR_IRQ"}, {}) \in Instructions
      /\ Store(device.chainControl \cup {"RUN", "STOP_ER"}, {}) \in Instructions
  <2>1. /\ {"RUN", "STOP_ER"} \in SUBSET Bits /\ {"IE_GLOBAL"} \in SUBSET Bits /\ {} \in SUBSET Bits
        /\ {"RUN"} \in SUBSET Bits /\ {"CLEAR_IRQ"} \in SUBSET Bits
        /\ device.chainControl \cup {"RUN", "STOP_ER"} \in SUBSET Bits
    BY <1>1 DEF Bits
  <2> QED  BY <2>1, Accesses
<1>3. /\ [op |-> "reject_busy"] \in Instructions /\ [op |-> "await_idle"] \in Instructions
      /\ [op |-> "clear_status"] \in Instructions /\ [op |-> "return_status"] \in Instructions
      /\ [op |-> "callback"] \in Instructions /\ [op |-> "eret"] \in Instructions
      /\ Load \in Instructions /\ ClearRun \in Instructions
  BY Accesses
<1>4. ASSUME NEW c \in Chains
      PROVE  /\ AsyncTransfer(c) \in Seq(Instructions) /\ Len(AsyncTransfer(c)) = 7
             /\ SyncTransfer(c) \in Seq(Instructions) /\ Len(SyncTransfer(c)) = 11
  <2>1. PointAt(c) \in Instructions
    BY Accesses
  <2>2. AsyncTransfer(c) \in Seq(Instructions) /\ Len(AsyncTransfer(c)) = 7
    BY <1>1, <1>2, <1>3, <2>1 DEF AsyncTransfer
  <2>3. SyncTransfer(c) \in Seq(Instructions) /\ Len(SyncTransfer(c)) = 11
    BY <1>2, <1>3, <2>1 DEF SyncTransfer
  <2> QED  BY <2>2, <2>3
<1>5. /\ StartEngine \in Seq(Instructions) /\ Len(StartEngine) = 2
      /\ StopEngine \in Seq(Instructions) /\ Len(StopEngine) = 2
  BY <1>2, <1>3 DEF StartEngine, StopEngine
<1>6. Irq \in Seq(Instructions) /\ Len(Irq) = IF device.callback THEN 4 ELSE 3
  <2>1. CASE device.callback
    BY <1>2, <1>3, <2>1 DEF Irq
  <2>2. CASE ~device.callback
    BY <1>2, <1>3, <2>2 DEF Irq
  <2> QED  BY <2>1, <2>2
<1>7. ThenReturn \in Seq(Instructions) /\ <<>> \in Seq(Instructions)
  BY <1>3 DEF ThenReturn
<1> QED  BY <1>4, <1>5, <1>6, <1>7

\* Both transfers begin alike: wait or reject, clear RUN, point, set RUN.
LEMMA TransferAccesses ==
  ASSUME NEW c
  PROVE  /\ AsyncTransfer(c)[1].op = "reject_busy" /\ SyncTransfer(c)[1].op = "await_idle"
         /\ SyncTransfer(c)[8].op = "await_idle" /\ SyncTransfer(c)[9].op = "load"
         /\ SyncTransfer(c)[10] = ClearRun /\ SyncTransfer(c)[11].op = "return_status"
         /\ \A call \in {AsyncTransfer(c), SyncTransfer(c)} :
              /\ call[2].op = "load" /\ call[3] = ClearRun /\ call[4].op = "clear_status"
              /\ call[5].op = "point" /\ call[5].chain = c /\ call[6].op = "load"
              /\ call[7].op = "store" /\ "RUN" \in call[7].set /\ "RUN" \notin call[7].clear
<1>1. /\ AsyncTransfer(c)[1].op = "reject_busy" /\ AsyncTransfer(c)[2].op = "load"
      /\ AsyncTransfer(c)[3] = ClearRun /\ AsyncTransfer(c)[4].op = "clear_status"
      /\ AsyncTransfer(c)[5] = PointAt(c) /\ AsyncTransfer(c)[6].op = "load"
      /\ AsyncTransfer(c)[7] = IF device.callback
                               THEN Store(device.chainControl \cup {"RUN", "STOP_ER"}, {})
                               ELSE Store({"RUN", "STOP_ER"}, {"IE_GLOBAL"})
  BY DEF AsyncTransfer, Load
<1>2. /\ SyncTransfer(c)[1].op = "await_idle" /\ SyncTransfer(c)[2].op = "load"
      /\ SyncTransfer(c)[3] = ClearRun /\ SyncTransfer(c)[4].op = "clear_status"
      /\ SyncTransfer(c)[5] = PointAt(c) /\ SyncTransfer(c)[6].op = "load"
      /\ SyncTransfer(c)[7] = Store({"RUN", "STOP_ER"}, {})
      /\ SyncTransfer(c)[8].op = "await_idle" /\ SyncTransfer(c)[9].op = "load"
      /\ SyncTransfer(c)[10] = ClearRun /\ SyncTransfer(c)[11].op = "return_status"
  BY DEF SyncTransfer, Load
<1>3. PointAt(c).op = "point" /\ PointAt(c).chain = c
  BY DEF PointAt
<1>4. \A set, clear : /\ Store(set, clear).op = "store" /\ Store(set, clear).set = set
                      /\ Store(set, clear).clear = clear
  BY DEF Store
<1>5. AsyncTransfer(c)[7].op = "store" /\ "RUN" \in AsyncTransfer(c)[7].set
        /\ "RUN" \notin AsyncTransfer(c)[7].clear
  <2>1. CASE device.callback
    BY <1>1, <1>4, <2>1
  <2>2. CASE ~device.callback
    BY <1>1, <1>4, <2>2
  <2> QED  BY <2>1, <2>2
<1>6. SyncTransfer(c)[7].op = "store" /\ "RUN" \in SyncTransfer(c)[7].set
        /\ "RUN" \notin SyncTransfer(c)[7].clear
  BY <1>2, <1>4
<1> QED  BY <1>1, <1>2, <1>3, <1>5, <1>6

\* The other calls and the handler.
LEMMA OtherAccesses ==
  /\ ClearRun.op = "store" /\ ClearRun.set = {} /\ ClearRun.clear = {"RUN"}
  /\ StartEngine[1].op = "load" /\ StartEngine[2].op = "store"
  /\ StopEngine[1].op = "load" /\ StopEngine[2] = ClearRun
  /\ Irq[1].op = "load" /\ Irq[2] = Store({"CLEAR_IRQ"}, {})
  /\ IF device.callback THEN Irq[3].op = "callback" /\ Irq[4].op = "eret" ELSE Irq[3].op = "eret"
  /\ ThenReturn # <<>> /\ ThenReturn[1].op = "eret"
<1>1. ClearRun.op = "store" /\ ClearRun.set = {} /\ ClearRun.clear = {"RUN"}
  BY DEF ClearRun, Store
<1>2. StartEngine[1].op = "load" /\ StartEngine[2].op = "store"
  BY DEF StartEngine, Load, Store
<1>3. StopEngine[1].op = "load" /\ StopEngine[2] = ClearRun
  BY DEF StopEngine, Load
<1>4. Irq[1].op = "load" /\ Irq[2] = Store({"CLEAR_IRQ"}, {})
  <2>1. CASE device.callback
    BY <2>1 DEF Irq, Load
  <2>2. CASE ~device.callback
    BY <2>2 DEF Irq, Load
  <2> QED  BY <2>1, <2>2
<1>5. IF device.callback THEN Irq[3].op = "callback" /\ Irq[4].op = "eret" ELSE Irq[3].op = "eret"
  <2>1. CASE device.callback
    BY <2>1 DEF Irq
  <2>2. CASE ~device.callback
    BY <2>2 DEF Irq
  <2> QED  BY <2>1, <2>2
<1>6. ThenReturn # <<>> /\ ThenReturn[1].op = "eret"
  BY DEF ThenReturn
<1> QED  BY <1>1, <1>2, <1>3, <1>4, <1>5, <1>6

------------------------------------------------------------------------------
(* A place that stays where it is.                                           *)

(* What the engine and the handler leave as it is for the call that they     *)
(* interrupt.                                                                *)
Kept ==
  /\ UNCHANGED <<device, pointer, length, turns>> /\ transfer'.chain = transfer.chain
  /\ \A d \in Descriptors : d[1] # transfer.chain => own'[d] = own[d]
  /\ Bounded(transfer.chain) => Bounded(transfer.chain)'
  /\ engine'.running => engine.running
  /\ ~Busy => ~Busy'
  /\ engine.running \/ completed => (engine.running \/ completed)'
  /\ AtRest => AtRest' /\ own' = own /\ engine' = engine /\ program' \in {program, <<>>}

LEMMA BoundedKept ==
  ASSUME TypeOK, Kept
  PROVE  \A c \in Chains : Bounded(c) => Bounded(c)'
<1> TAKE c \in Chains
<1>1. CASE c = transfer.chain
  BY <1>1 DEF Kept
<1>2. CASE c # transfer.chain
  <2>1. length[c] > 0 => <<c, length[c] + 1>> \in Descriptors
    BY Numbers DEF TypeOK
  <2> QED  BY <1>2, <2>1 DEF Kept, Bounded
<1> QED  BY <1>1, <1>2

LEMMA ReadyKept ==
  ASSUME TypeOK, Kept
  PROVE  /\ \A c \in Chains \ {transfer.chain} : Ready(c) => Ready(c)'
         /\ AtRest /\ Ready(pointer) => Ready(pointer)'
<1>1. ASSUME NEW c \in Chains \ {transfer.chain}, Ready(c) PROVE Ready(c)'
  <2>1. length'[c] = length[c] /\ length[c] \in Lengths
    BY <1>1 DEF TypeOK, Kept, Ready
  <2>2. \A i \in 1..length[c] : <<c, i>> \in Descriptors
    BY <2>1, Numbers
  <2> QED  BY <1>1, <2>1, <2>2 DEF Kept, Ready
<1>2. AtRest /\ Ready(pointer) => Ready(pointer)'
  BY DEF Kept, Ready
<1> QED  BY <1>1, <1>2

LEMMA SameCalls ==
  ASSUME device' = device
  PROVE  Irq' = Irq /\ \A c : AsyncTransfer(c)' = AsyncTransfer(c)
BY DEF Irq, AsyncTransfer

LEMMA AtKept ==
  ASSUME TypeOK, Kept
  PROVE  \A left, end : At(left, end) => At(left, end)'
<1> SUFFICES ASSUME NEW left, NEW end, At(left, end) PROVE At(left, end)'
  OBVIOUS
<1>1. AllBounded => AllBounded'
  BY BoundedKept DEF AllBounded
<1>2. Alone(end) => Alone(end)'
  BY DEF Alone, Kept, TypeOK
<1>3. CASE left = end /\ AllBounded
  BY <1>1, <1>3 DEF At
<1>4. CASE AtPrepare(left, end)
  <2>1. PICK c \in Chains \ {transfer.chain}, n \in Lengths : \E i \in 1..(n + 1) :
          /\ left = Left(Prepare(c, n), i, end) /\ Alone(end)
          /\ \A j \in 1..(i - 1) : own[<<c, j>>]
          /\ i > 1 => ~own[<<c, i>>]
          /\ \A b \in Chains \ {c} : Bounded(b)
    BY <1>4 DEF AtPrepare
  <2>2. PICK i \in 1..(n + 1) :
          /\ left = Left(Prepare(c, n), i, end) /\ Alone(end)
          /\ \A j \in 1..(i - 1) : own[<<c, j>>]
          /\ i > 1 => ~own[<<c, i>>]
          /\ \A b \in Chains \ {c} : Bounded(b)
    BY <2>1
  <2>3. \A j \in 1..i : <<c, j>> \in Descriptors
    BY Numbers
  <2>4. (\A j \in 1..(i - 1) : own'[<<c, j>>]) /\ (i > 1 => ~own'[<<c, i>>])
    BY <2>2, <2>3, Numbers DEF Kept
  <2>5. (\A b \in Chains \ {c} : Bounded(b))'
    BY <2>2, BoundedKept
  <2>6. c \in Chains \ {transfer'.chain}
    BY DEF Kept
  <2>7. AtPrepare(left, end)'
    BY <1>2, <2>2, <2>4, <2>5, <2>6 DEF AtPrepare
  <2> QED  BY <2>7 DEF At
<1>5. CASE AtTransfer(left, end)
  <2>1. PICK c \in Chains \ {transfer.chain}, k \in 1..7 :
          /\ \/ left = Left(AsyncTransfer(c), k, end)
             \/ left = Left(SyncTransfer(c), k, end) /\ end = <<>> /\ turns = 0
          /\ StartInv(c, k) /\ Alone(end) /\ AllBounded
    BY <1>5 DEF AtTransfer
  <2>2. \/ left = Left(AsyncTransfer(c)', k, end)
        \/ left = Left(SyncTransfer(c)', k, end) /\ end = <<>> /\ turns' = 0
    BY <2>1, SameCalls DEF Kept, SyncTransfer, Load, ClearRun, PointAt, Store
  <2>3. c \in Chains \ {transfer'.chain}
    BY DEF Kept
  <2>4. StartInv(c, k)'
    BY <2>1, ReadyKept DEF StartInv, Kept
  <2>5. AtTransfer(left, end)'
    BY <1>1, <1>2, <2>1, <2>2, <2>3, <2>4 DEF AtTransfer
  <2> QED  BY <2>5 DEF At
<1>6. CASE AtWait(left, end)
  <2>1. PICK c \in Chains, k \in 8..11 :
          left = Left(SyncTransfer(c), k, end) /\ end = <<>> /\ turns = 0 /\ WaitInv(k) /\ AllBounded
    BY <1>6 DEF AtWait
  <2>2. WaitInv(k)'
    BY <2>1 DEF WaitInv, Kept
  <2>3. AtWait(left, end)'
    BY <1>1, <2>1, <2>2 DEF AtWait, Kept
  <2> QED  BY <2>3 DEF At
<1>7. CASE AtStartOrStop(left, end)
  <2>1. AtStartOrStop(left, end)'
    BY <1>1, <1>7, ReadyKept DEF AtStartOrStop, Kept
  <2> QED  BY <2>1 DEF At
<1> QED  BY <1>3, <1>4, <1>5, <1>6, <1>7 DEF At

------------------------------------------------------------------------------
(* A place that an access leaves for the next.                               *)

Ends == {<<>>, ThenReturn}

LEMMA EndsAre ==
  ASSUME TypeOK, NEW end \in Ends
  PROVE  end \in Seq(Instructions) /\ (end # <<>> => end[1].op = "eret")
BY CallsAre, OtherAccesses DEF Ends

\* The access of each place.
LEMMA PreparePlace ==
  ASSUME TypeOK, NEW c \in Chains, NEW n \in Lengths, NEW i \in 1..(n + 1), NEW end \in Ends
  PROVE  LET left == Left(Prepare(c, n), i, end)
         IN /\ left \in Seq(Instructions) /\ left # <<>>
            /\ Tail(left) = IF i <= n THEN Left(Prepare(c, n), i + 1, end) ELSE end
            /\ left[1] = IF i <= n THEN Construct(<<c, i>>)
                         ELSE [op |-> "built", chain |-> c, length |-> n]
<1>1. n \in Nat
  BY Numbers
<1>2. end \in Seq(Instructions) /\ Prepare(c, n) \in Seq(Instructions) /\ Len(Prepare(c, n)) = n + 1
  BY EndsAre, PrepareIs
<1>3. Left(Prepare(c, n), n + 1 + 1, end) = end
  BY <1>2, LeftEnds
<1>4. i > n => i = n + 1
  BY <1>1
<1>5. i \in 1..Len(Prepare(c, n))
  BY <1>2
<1>6. LET left == Left(Prepare(c, n), i, end)
      IN left \in Seq(Instructions) /\ left # <<>> /\ left[1] = Prepare(c, n)[i]
         /\ Tail(left) = Left(Prepare(c, n), i + 1, end)
  BY <1>2, <1>5, LeftIs
<1>7. Prepare(c, n)[i] = IF i <= n THEN Construct(<<c, i>>)
                         ELSE [op |-> "built", chain |-> c, length |-> n]
  BY <1>1, <1>4, PrepareIs
<1>8. Left(Prepare(c, n), i + 1, end) = IF i <= n THEN Left(Prepare(c, n), i + 1, end) ELSE end
  <2>1. CASE i <= n
    BY <2>1
  <2>2. CASE ~(i <= n)
    <3>1. i + 1 = n + 1 + 1
      BY <1>1, <1>4, <2>2
    <3> QED  BY <1>3, <2>2, <3>1
  <2> QED  BY <2>1, <2>2
<1> QED  BY <1>6, <1>7, <1>8

OpAt(k, first) ==
  IF k = 1 THEN first ELSE IF k \in {2, 6} THEN "load" ELSE IF k \in {3, 7} THEN "store"
  ELSE IF k = 4 THEN "clear_status" ELSE "point"

InFront(left, call, k, end, op) ==
  /\ left = Left(call, k, end)
  /\ left \in Seq(Instructions) /\ left # <<>> /\ left[1] = call[k] /\ left[1].op = op
  /\ Tail(left) = Left(call, k + 1, end)

LEMMA TransferPlace ==
  ASSUME TypeOK, NEW c \in Chains, NEW k \in 1..7, NEW end \in Ends
  PROVE  /\ InFront(Left(AsyncTransfer(c), k, end), AsyncTransfer(c), k, end, OpAt(k, "reject_busy"))
         /\ InFront(Left(SyncTransfer(c), k, end), SyncTransfer(c), k, end, OpAt(k, "await_idle"))
<1>1. ASSUME NEW call \in {AsyncTransfer(c), SyncTransfer(c)}
      PROVE  InFront(Left(call, k, end), call, k, end, call[k].op)
  <2>1. call \in Seq(Instructions) /\ Len(call) \in {7, 11}
    BY CallsAre
  <2>2. k \in 1..Len(call)
    <3>1. CASE Len(call) = 7
      BY <3>1
    <3>2. CASE Len(call) = 11
      BY <3>2
    <3> QED  BY <2>1, <3>1, <3>2
  <2>3. end \in Seq(Instructions)
    BY EndsAre
  <2> QED  BY <2>1, <2>2, <2>3, LeftIs DEF InFront
<1>2. k \in {1, 2, 3, 4, 5, 6, 7}
  OBVIOUS
<1>3. AsyncTransfer(c)[k].op = OpAt(k, "reject_busy") /\ SyncTransfer(c)[k].op = OpAt(k, "await_idle")
  BY <1>2, TransferAccesses, OtherAccesses DEF OpAt
<1>4. /\ InFront(Left(AsyncTransfer(c), k, end), AsyncTransfer(c), k, end, AsyncTransfer(c)[k].op)
      /\ InFront(Left(SyncTransfer(c), k, end), SyncTransfer(c), k, end, SyncTransfer(c)[k].op)
  BY <1>1
<1> QED  BY <1>3, <1>4

LEMMA WaitPlace ==
  ASSUME TypeOK, NEW c \in Chains, NEW k \in 8..11
  PROVE  LET left == Left(SyncTransfer(c), k, <<>>)
         IN /\ left \in Seq(Instructions) /\ left # <<>> /\ left[1] = SyncTransfer(c)[k]
            /\ Tail(left) = IF k < 11 THEN Left(SyncTransfer(c), k + 1, <<>>) ELSE <<>>
            /\ left[1].op = IF k = 8 THEN "await_idle" ELSE IF k = 9 THEN "load"
                            ELSE IF k = 10 THEN "store" ELSE "return_status"
<1>1. /\ <<>> \in Seq(Instructions) /\ SyncTransfer(c) \in Seq(Instructions)
      /\ k \in 1..Len(SyncTransfer(c)) /\ Len(SyncTransfer(c)) = 11
  <2>1. <<>> \in Seq(Instructions) /\ SyncTransfer(c) \in Seq(Instructions)
        /\ Len(SyncTransfer(c)) = 11
    BY CallsAre
  <2> QED  BY <2>1
<1>2. Left(SyncTransfer(c), 11 + 1, <<>>) = <<>>
  BY <1>1, LeftEnds
<1>3. k \in {8, 9, 10, 11}
  OBVIOUS
<1>4. /\ SyncTransfer(c)[8].op = "await_idle" /\ SyncTransfer(c)[9].op = "load"
      /\ SyncTransfer(c)[10].op = "store" /\ SyncTransfer(c)[11].op = "return_status"
  BY TransferAccesses, OtherAccesses
<1>5. LET left == Left(SyncTransfer(c), k, <<>>)
      IN /\ left \in Seq(Instructions) /\ left # <<>> /\ left[1] = SyncTransfer(c)[k]
         /\ Tail(left) = Left(SyncTransfer(c), k + 1, <<>>)
  BY <1>1, LeftIs
<1> QED  BY <1>2, <1>3, <1>4, <1>5

LEMMA ShortPlace ==
  ASSUME TypeOK, NEW call \in {StartEngine, StopEngine}, NEW k \in 1..2
  PROVE  LET left == Left(call, k, <<>>)
         IN /\ left \in Seq(Instructions) /\ left # <<>> /\ left[1] = call[k]
            /\ Tail(left) = IF k = 1 THEN Left(call, 2, <<>>) ELSE <<>>
            /\ left[1].op = IF k = 1 THEN "load" ELSE "store"
<1>1. <<>> \in Seq(Instructions) /\ call \in Seq(Instructions) /\ k \in 1..Len(call) /\ Len(call) = 2
  BY CallsAre
<1>2. Left(call, 2 + 1, <<>>) = <<>>
  BY <1>1, LeftEnds
<1>3. call[1].op = "load" /\ call[2].op = "store"
  BY OtherAccesses
<1>4. LET left == Left(call, k, <<>>)
      IN left \in Seq(Instructions) /\ left # <<>> /\ left[1] = call[k]
         /\ Tail(left) = Left(call, k + 1, <<>>)
  BY <1>1, LeftIs
<1> QED  BY <1>2, <1>3, <1>4

\* Which places there are for an access.
LEMMA PlaceOps ==
  ASSUME TypeOK, NEW end \in Ends, NEW left, At(left, end)
  PROVE  /\ left \in Seq(Instructions)
         /\ \/ left = end /\ AllBounded /\ (left # <<>> => left[1].op = "eret")
            \/ left # <<>> /\ AtPrepare(left, end) /\ left[1].op \in {"construct", "built"}
            \/ /\ left # <<>> /\ AtTransfer(left, end)
               /\ left[1].op \in {"reject_busy", "await_idle", "load", "store", "clear_status",
                                  "point"}
            \/ /\ left # <<>> /\ AtWait(left, end)
               /\ left[1].op \in {"await_idle", "load", "store", "return_status"}
            \/ left # <<>> /\ AtStartOrStop(left, end) /\ left[1].op \in {"load", "store"}
<1>1. CASE left = end /\ AllBounded
  BY <1>1, EndsAre
<1>2. CASE AtPrepare(left, end)
  <2>1. PICK c \in Chains, n \in Lengths : \E i \in 1..(n + 1) : left = Left(Prepare(c, n), i, end)
    BY <1>2 DEF AtPrepare
  <2>2. PICK i \in 1..(n + 1) : left = Left(Prepare(c, n), i, end)
    BY <2>1
  <2>3. left \in Seq(Instructions) /\ left # <<>> /\ left[1] = IF i <= n THEN Construct(<<c, i>>)
                         ELSE [op |-> "built", chain |-> c, length |-> n]
    BY <2>2, PreparePlace
  <2>4. left[1].op \in {"construct", "built"}
    BY <2>3 DEF Construct
  <2> QED  BY <1>2, <2>3, <2>4
<1>3. CASE AtTransfer(left, end)
  <2>1. PICK c \in Chains, k \in 1..7 :
          left = Left(AsyncTransfer(c), k, end) \/ left = Left(SyncTransfer(c), k, end)
    BY <1>3 DEF AtTransfer
  <2>2. \A first \in {"reject_busy", "await_idle"} : OpAt(k, first) \in
          {"reject_busy", "await_idle", "load", "store", "clear_status", "point"}
    BY DEF OpAt
  <2>3. left \in Seq(Instructions) /\ left # <<>>
        /\ left[1].op \in {OpAt(k, "reject_busy"), OpAt(k, "await_idle")}
    <3>1. CASE left = Left(AsyncTransfer(c), k, end)
      <4>1. InFront(left, AsyncTransfer(c), k, end, OpAt(k, "reject_busy"))
        BY <3>1, TransferPlace
      <4> QED  BY <4>1 DEF InFront
    <3>2. CASE left = Left(SyncTransfer(c), k, end)
      <4>1. InFront(left, SyncTransfer(c), k, end, OpAt(k, "await_idle"))
        BY <3>2, TransferPlace
      <4> QED  BY <4>1 DEF InFront
    <3> QED  BY <2>1, <3>1, <3>2
  <2> QED  BY <1>3, <2>2, <2>3
<1>4. CASE AtWait(left, end)
  <2>1. PICK c \in Chains, k \in 8..11 : left = Left(SyncTransfer(c), k, <<>>)
    BY <1>4 DEF AtWait
  <2>2. /\ left \in Seq(Instructions) /\ left # <<>>
        /\ left[1].op = IF k = 8 THEN "await_idle" ELSE IF k = 9 THEN "load"
                        ELSE IF k = 10 THEN "store" ELSE "return_status"
    BY <2>1, WaitPlace
  <2>3. left[1].op \in {"await_idle", "load", "store", "return_status"}
    BY <2>2
  <2> QED  BY <1>4, <2>2, <2>3
<1>5. CASE AtStartOrStop(left, end)
  <2>1. PICK k \in 1..2 : left = Left(StartEngine, k, <<>>) \/ left = Left(StopEngine, k, <<>>)
    BY <1>5 DEF AtStartOrStop
  <2>2. left \in Seq(Instructions) /\ left # <<>> /\ left[1].op \in {"load", "store"}
    BY <2>1, ShortPlace
  <2> QED  BY <1>5, <2>2
<1> QED  BY <1>1, <1>2, <1>3, <1>4, <1>5 DEF At

\* A descriptor is constructed.
LEMMA ConstructMoves ==
  ASSUME TypeOK, NEW end \in Ends, At(code, end), ConstructDescriptor
  PROVE  /\ At(code, end)'
         /\ \E c \in Chains \ {transfer.chain}, i \in 1..(ArraySize - 1) : This.desc = <<c, i>>
<1>1. AtPrepare(code, end)
  BY PlaceOps DEF ConstructDescriptor, Executes
<1>2. PICK c \in Chains \ {transfer.chain}, n \in Lengths : \E i \in 1..(n + 1) :
        /\ code = Left(Prepare(c, n), i, end) /\ Alone(end)
        /\ \A j \in 1..(i - 1) : own[<<c, j>>]
        /\ i > 1 => ~own[<<c, i>>]
        /\ \A b \in Chains \ {c} : Bounded(b)
  BY <1>1 DEF AtPrepare
<1>3. PICK i \in 1..(n + 1) :
        /\ code = Left(Prepare(c, n), i, end) /\ Alone(end)
        /\ \A j \in 1..(i - 1) : own[<<c, j>>]
        /\ i > 1 => ~own[<<c, i>>]
        /\ \A b \in Chains \ {c} : Bounded(b)
  BY <1>2
<1>4. n \in Nat /\ n \in 1..(ArraySize - 1) /\ ArraySize \in Nat
  BY Numbers
<1>5. /\ code # <<>>
      /\ Tail(code) = IF i <= n THEN Left(Prepare(c, n), i + 1, end) ELSE end
      /\ code[1] = IF i <= n THEN Construct(<<c, i>>)
                   ELSE [op |-> "built", chain |-> c, length |-> n]
  BY <1>3, PreparePlace
<1>6. i <= n
  <2>1. code[1].op = "construct"
    BY DEF ConstructDescriptor, Executes
  <2> QED  BY <1>5, <2>1
<1>7. i \in 1..n /\ i \in 1..(ArraySize - 1) /\ i + 1 \in 1..(n + 1) /\ This.desc = <<c, i>>
  BY <1>4, <1>5, <1>6 DEF This, Construct
<1>8. code' = Left(Prepare(c, n), i + 1, end)
  BY <1>5, <1>6 DEF ConstructDescriptor, Rest
<1>9. own' = [own EXCEPT ![<<c, i + 1>>] = FALSE, ![<<c, i>>] = TRUE]
  <2>1. After(<<c, i>>) = <<c, i + 1>>
    BY <1>7, Numbers
  <2> QED  BY <1>7, <2>1 DEF ConstructDescriptor
<1>10. /\ \A j \in 1..ArraySize : <<c, j>> \in Descriptors
       /\ own \in [Descriptors -> BOOLEAN]
  BY Numbers DEF TypeOK
<1>11. /\ \A d \in Descriptors : d[1] # c => own'[d] = own[d]
       /\ own'[<<c, i>>] /\ ~own'[<<c, i + 1>>]
       /\ \A j \in 1..(i - 1) : own'[<<c, j>>]
  <2>1. i + 1 \in 1..ArraySize /\ <<c, i>> # <<c, i + 1>>
    BY <1>4, <1>7
  <2>2. \A d \in Descriptors : d[1] # c => d # <<c, i>> /\ d # <<c, i + 1>>
    OBVIOUS
  <2>3. \A j \in 1..(i - 1) : j \in 1..ArraySize /\ <<c, j>> # <<c, i>> /\ <<c, j>> # <<c, i + 1>>
    BY <1>4, <1>7
  <2>4. \A d \in Descriptors : own'[d] = IF d = <<c, i>> THEN TRUE
                                         ELSE IF d = <<c, i + 1>> THEN FALSE ELSE own[d]
    BY <1>9, <1>10, <2>1
  <2>5. <<c, i>> \in Descriptors /\ <<c, i + 1>> \in Descriptors
    BY <1>7, <1>10, <2>1, Numbers
  <2>6. own'[<<c, i>>] /\ ~own'[<<c, i + 1>>]
    BY <2>1, <2>4, <2>5
  <2>7. \A d \in Descriptors : d[1] # c => own'[d] = own[d]
    BY <2>2, <2>4
  <2>8. \A j \in 1..(i - 1) : own'[<<c, j>>]
    BY <1>3, <1>10, <2>3, <2>4
  <2> QED  BY <2>6, <2>7, <2>8
<1>12. UNCHANGED <<length, transfer, turns, program, engine, irq>>
  BY DEF ConstructDescriptor, registers
<1>13. (\A b \in Chains \ {c} : Bounded(b))'
  <2> SUFFICES ASSUME NEW b \in Chains \ {c} PROVE Bounded(b)'
    BY <1>12
  <2>1. length[b] > 0 => <<b, length[b] + 1>> \in Descriptors /\ <<b, length[b] + 1>>[1] # c
    BY Numbers DEF TypeOK
  <2> QED  BY <1>3, <1>11, <1>12, <2>1 DEF Bounded
<1>14. Alone(end)'
  BY <1>3, <1>12 DEF Alone, AtRest
<1>15. \A j \in 1..((i + 1) - 1) : own'[<<c, j>>]
  <2>1. \A j \in 1..((i + 1) - 1) : j = i \/ j \in 1..(i - 1)
    BY <1>7
  <2> QED  BY <1>11, <2>1
<1>16. AtPrepare(code, end)'
  <2>1. c \in Chains \ {transfer'.chain}
    BY <1>12
  <2> QED  BY <1>7, <1>8, <1>11, <1>13, <1>14, <1>15, <2>1 DEF AtPrepare
<1> QED  BY <1>7, <1>16 DEF At

\* The chain is constructed.
LEMMA BuiltMoves ==
  ASSUME TypeOK, NEW end \in Ends, program = <<>> => end = <<>>, At(code, end), Built
  PROVE  At(code, end)' /\ This.chain \in Chains \ {transfer.chain} /\ This.length \in Lengths
<1>1. AtPrepare(code, end)
  BY PlaceOps DEF Built, Executes
<1>2. PICK c \in Chains \ {transfer.chain}, n \in Lengths : \E i \in 1..(n + 1) :
        /\ code = Left(Prepare(c, n), i, end) /\ Alone(end)
        /\ \A j \in 1..(i - 1) : own[<<c, j>>]
        /\ i > 1 => ~own[<<c, i>>]
        /\ \A b \in Chains \ {c} : Bounded(b)
  BY <1>1 DEF AtPrepare
<1>3. PICK i \in 1..(n + 1) :
        /\ code = Left(Prepare(c, n), i, end) /\ Alone(end)
        /\ \A j \in 1..(i - 1) : own[<<c, j>>]
        /\ i > 1 => ~own[<<c, i>>]
        /\ \A b \in Chains \ {c} : Bounded(b)
  BY <1>2
<1>4. n \in Nat /\ n > 0
  BY Numbers
<1>5. /\ Tail(code) = IF i <= n THEN Left(Prepare(c, n), i + 1, end) ELSE end
      /\ code[1] = IF i <= n THEN Construct(<<c, i>>)
                   ELSE [op |-> "built", chain |-> c, length |-> n]
  BY <1>3, PreparePlace
<1>6. ~(i <= n)
  <2>1. code[1].op = "built"
    BY DEF Built, Executes
  <2> QED  BY <1>5, <2>1 DEF Construct
<1>7. i = n + 1 /\ Rest = end /\ This.chain = c /\ This.length = n
  BY <1>4, <1>5, <1>6 DEF Rest, This
<1>8. /\ length' = [length EXCEPT ![c] = n]
      /\ \/ code' = AsyncTransfer(c) \o end
         \/ code' = SyncTransfer(c) /\ program = <<>> /\ turns = 0
      /\ UNCHANGED <<own, engine, irq, device, turns, program, transfer>>
  BY <1>7 DEF Built, registers
<1>9. length'[c] = n /\ \A b \in Chains \ {c} : length'[b] = length[b]
  BY <1>8 DEF TypeOK
<1>10. (\A j \in 1..n : own[<<c, j>>]) /\ ~own[<<c, n + 1>>]
  BY <1>3, <1>4, <1>7
<1>11. AllBounded'
  <2> SUFFICES ASSUME NEW b \in Chains PROVE Bounded(b)'
    BY DEF AllBounded
  <2>1. CASE b = c
    BY <1>8, <1>9, <1>10, <2>1 DEF Bounded
  <2>2. CASE b # c
    BY <1>3, <1>8, <1>9, <2>2 DEF Bounded
  <2> QED  BY <2>1, <2>2
<1>12. StartInv(c, 1)'
  BY <1>4, <1>8, <1>9, <1>10 DEF StartInv, Ready
<1>13. Alone(end)'
  BY <1>3, <1>8 DEF Alone, AtRest
<1>14. \/ code' = Left(AsyncTransfer(c)', 1, end)
       \/ code' = Left(SyncTransfer(c), 1, end) /\ end = <<>> /\ turns' = 0
  <2>1. end \in Seq(Instructions) /\ AsyncTransfer(c) \in Seq(Instructions)
        /\ SyncTransfer(c) \in Seq(Instructions)
    BY CallsAre, EndsAre
  <2>2. CASE code' = AsyncTransfer(c) \o end
    <3>1. Left(AsyncTransfer(c), 1, end) = AsyncTransfer(c) \o end
      BY <2>1, LeftEnds
    <3>2. AsyncTransfer(c)' = AsyncTransfer(c)
      BY <1>8, SameCalls
    <3> QED  BY <2>2, <3>1, <3>2
  <2>3. CASE code' = SyncTransfer(c) /\ program = <<>> /\ turns = 0
    <3>1. SyncTransfer(c) \o <<>> = SyncTransfer(c) /\ end = <<>>
      BY <2>1, <2>3, LeftEnds
    <3> QED  BY <1>8, <2>1, <2>3, <3>1, LeftEnds
  <2> QED  BY <1>8, <2>2, <2>3
<1>15. AtTransfer(code, end)'
  <2>1. c \in Chains \ {transfer'.chain} /\ 1 \in 1..7
    BY <1>8
  <2>2. SyncTransfer(c)' = SyncTransfer(c)
    BY DEF SyncTransfer, Load, ClearRun, PointAt, Store
  <2> QED  BY <1>11, <1>12, <1>13, <1>14, <2>1, <2>2 DEF AtTransfer
<1> QED  BY <1>7, <1>15 DEF At

\* A transfer of which seven accesses or fewer are left out.
LEMMA InTransfer ==
  ASSUME TypeOK, NEW end \in Ends, AtTransfer(code, end)
  PROVE  \E c \in Chains \ {transfer.chain}, k \in 1..7 :
           /\ \/ /\ code = Left(AsyncTransfer(c), k, end) /\ code[1] = AsyncTransfer(c)[k]
                 /\ Rest = Left(AsyncTransfer(c), k + 1, end)
                 /\ code[1].op = OpAt(k, "reject_busy")
              \/ /\ code = Left(SyncTransfer(c), k, end) /\ end = <<>> /\ turns = 0
                 /\ code[1] = SyncTransfer(c)[k]
                 /\ Rest = Left(SyncTransfer(c), k + 1, end)
                 /\ code[1].op = OpAt(k, "await_idle")
           /\ StartInv(c, k) /\ Alone(end) /\ AllBounded
<1>1. PICK c \in Chains \ {transfer.chain}, k \in 1..7 :
        /\ \/ code = Left(AsyncTransfer(c), k, end)
           \/ code = Left(SyncTransfer(c), k, end) /\ end = <<>> /\ turns = 0
        /\ StartInv(c, k) /\ Alone(end) /\ AllBounded
  BY DEF AtTransfer
<1>3. CASE code = Left(AsyncTransfer(c), k, end)
  <2>1. /\ code[1] = AsyncTransfer(c)[k] /\ Rest = Left(AsyncTransfer(c), k + 1, end)
        /\ code[1].op = OpAt(k, "reject_busy")
    BY <1>3, TransferPlace DEF Rest, InFront
  <2> QED  BY <1>1, <1>3, <2>1
<1>4. CASE code = Left(SyncTransfer(c), k, end) /\ end = <<>> /\ turns = 0
  <2>1. /\ code[1] = SyncTransfer(c)[k] /\ Rest = Left(SyncTransfer(c), k + 1, end)
        /\ code[1].op = OpAt(k, "await_idle")
    BY <1>4, TransferPlace DEF Rest, InFront
  <2> QED  BY <1>1, <1>4, <2>1
<1> QED  BY <1>1, <1>3, <1>4

\* The next access of a transfer, when the first six do not start the engine.
LEMMA NextInTransfer ==
  ASSUME NEW end \in Ends, NEW c \in Chains \ {transfer.chain}, NEW k \in 1..6,
         \/ code' = Left(AsyncTransfer(c), k + 1, end)
         \/ code' = Left(SyncTransfer(c), k + 1, end) /\ end = <<>> /\ turns = 0,
         AllBounded, Alone(end)', StartInv(c, k + 1)',
         UNCHANGED <<own, length, device, turns, transfer>>
  PROVE  At(code, end)'
<1>1. AsyncTransfer(c)' = AsyncTransfer(c)
  BY SameCalls
<1>2. SyncTransfer(c)' = SyncTransfer(c)
  BY DEF SyncTransfer, Load, ClearRun, PointAt, Store
<1>3. AllBounded'
  BY DEF AllBounded, Bounded
<1>4. k + 1 \in 1..7 /\ c \in Chains \ {transfer'.chain}
  OBVIOUS
<1>5. \/ code' = Left(AsyncTransfer(c)', k + 1, end)
      \/ code' = Left(SyncTransfer(c)', k + 1, end) /\ end = <<>> /\ turns' = 0
  BY <1>1, <1>2
<1>6. AtTransfer(code, end)'
  BY <1>3, <1>4, <1>5 DEF AtTransfer
<1> QED  BY <1>6 DEF At

\* -EBUSY, or not.
LEMMA RejectMoves ==
  ASSUME TypeOK, NEW end \in Ends, program = <<>> <=> end = <<>>, At(code, end), RejectBusy
  PROVE  At(code, end)'
<1>1. AtTransfer(code, end) /\ code[1].op = "reject_busy"
  BY PlaceOps DEF RejectBusy, Executes
<1>2. PICK c \in Chains \ {transfer.chain}, k \in 1..7 :
        /\ Rest = Left(AsyncTransfer(c), k + 1, end) /\ k = 1
        /\ StartInv(c, k) /\ Alone(end) /\ AllBounded
  BY <1>1, InTransfer DEF OpAt
<1>3. UNCHANGED <<own, engine, irq, pointer, length, device, turns, program, transfer>>
  BY DEF RejectBusy, registers
<1>4. Alone(end)'
  BY <1>2, <1>3 DEF Alone, AtRest
<1>5. CASE Busy
  <2>1. code' = end
    BY <1>5 DEF RejectBusy, Ends
  <2>2. AllBounded'
    BY <1>2, <1>3 DEF AllBounded, Bounded
  <2> QED  BY <2>1, <2>2 DEF At
<1>6. CASE ~Busy
  <2>1. code' = Left(AsyncTransfer(c), 1 + 1, end)
    BY <1>2, <1>6 DEF RejectBusy
  <2>2. StartInv(c, 1 + 1)'
    BY <1>2, <1>3, <1>6 DEF StartInv, Ready, Busy
  <2> QED  BY <1>2, <1>3, <1>4, <2>1, <2>2, NextInTransfer
<1> QED  BY <1>5, <1>6

\* Busy is waited for.
LEMMA AwaitMoves ==
  ASSUME TypeOK, NEW end \in Ends, At(code, end), AwaitIdle
  PROVE  At(code, end)'
<1>1. /\ code # <<>> /\ code[1].op = "await_idle" /\ code' = Rest /\ ~Busy
      /\ UNCHANGED <<own, engine, irq, completed, pointer, length, device, turns, program, transfer>>
  BY DEF AwaitIdle, Executes, registers
<1>2. AtTransfer(code, end) \/ AtWait(code, end)
  BY <1>1, PlaceOps
<1>3. CASE AtTransfer(code, end)
  <2>1. PICK c \in Chains \ {transfer.chain}, k \in 1..7 :
          /\ Rest = Left(SyncTransfer(c), k + 1, end) /\ end = <<>> /\ turns = 0 /\ k = 1
          /\ StartInv(c, k) /\ Alone(end) /\ AllBounded
    BY <1>1, <1>3, InTransfer DEF OpAt
  <2>2. StartInv(c, 1 + 1)' /\ Alone(end)'
    BY <1>1, <2>1 DEF StartInv, Ready, Busy, Alone, AtRest
  <2> QED  BY <1>1, <2>1, <2>2, NextInTransfer
<1>4. CASE AtWait(code, end)
  <2>1. PICK c \in Chains, k \in 8..11 :
          code = Left(SyncTransfer(c), k, end) /\ end = <<>> /\ turns = 0 /\ WaitInv(k) /\ AllBounded
    BY <1>4 DEF AtWait
  <2>2. k = 8 /\ Rest = Left(SyncTransfer(c), 9, end)
    BY <1>1, <2>1, WaitPlace DEF Rest
  <2>3. WaitInv(9)' /\ AllBounded'
    BY <1>1, <2>1, <2>2 DEF WaitInv, Busy, AllBounded, Bounded
  <2>4. SyncTransfer(c)' = SyncTransfer(c)
    BY DEF SyncTransfer, Load, ClearRun, PointAt, Store
  <2>5. AtWait(code, end)'
    BY <1>1, <2>1, <2>2, <2>3, <2>4 DEF AtWait
  <2> QED  BY <2>5 DEF At
<1> QED  BY <1>2, <1>3, <1>4

\* The control register is read. Nothing is read at the end of a chain.
LEMMA LoadMoves ==
  ASSUME TypeOK, NEW end \in Ends, At(code, end), LoadControl
  PROVE  At(code, end)'
<1>1. /\ code # <<>> /\ code[1].op = "load" /\ code' = Rest /\ ~Ending
      /\ UNCHANGED <<own, engine, irq, completed, pointer, length, device, turns, program, transfer>>
  BY DEF LoadControl, Executes, registers
<1>2. AtTransfer(code, end) \/ AtWait(code, end) \/ AtStartOrStop(code, end)
  BY <1>1, PlaceOps
<1>3. CASE AtTransfer(code, end)
  <2>1. PICK c \in Chains \ {transfer.chain}, k \in 1..7 :
          /\ \/ Rest = Left(AsyncTransfer(c), k + 1, end)
             \/ Rest = Left(SyncTransfer(c), k + 1, end) /\ end = <<>> /\ turns = 0
          /\ k \in {2, 6} /\ StartInv(c, k) /\ Alone(end) /\ AllBounded
    BY <1>1, <1>3, InTransfer DEF OpAt
  <2>2. Alone(end)' /\ k \in 1..6
    BY <1>1, <2>1 DEF Alone, AtRest
  <2>3. StartInv(c, k + 1)'
    <3>1. CASE k = 2
      <4>1. ~Busy /\ ~engine.running
        BY <1>1, <2>1, <3>1 DEF StartInv, Ending
      <4>2. ~Busy' /\ ~engine'.running /\ Ready(c)'
        BY <1>1, <2>1, <4>1 DEF Busy, StartInv, Ready
      <4>3. k + 1 = 3
        BY <3>1
      <4> QED  BY <4>2, <4>3 DEF StartInv
    <3>2. CASE k = 6
      <4>1. k + 1 = 7
        BY <3>2
      <4> QED  BY <1>1, <2>1, <3>2, <4>1 DEF StartInv, Ready, Busy, AtRest
    <3> QED  BY <2>1, <3>1, <3>2
  <2> QED  BY <1>1, <2>1, <2>2, <2>3, NextInTransfer
<1>4. CASE AtWait(code, end)
  <2>1. PICK c \in Chains, k \in 8..11 :
          code = Left(SyncTransfer(c), k, end) /\ end = <<>> /\ turns = 0 /\ WaitInv(k) /\ AllBounded
    BY <1>4 DEF AtWait
  <2>2. k = 9 /\ Rest = Left(SyncTransfer(c), 10, end)
    BY <1>1, <2>1, WaitPlace DEF Rest
  <2>3. WaitInv(10)' /\ AllBounded'
    BY <1>1, <2>1, <2>2 DEF WaitInv, Busy, Ending, AllBounded, Bounded
  <2>4. SyncTransfer(c)' = SyncTransfer(c)
    BY DEF SyncTransfer, Load, ClearRun, PointAt, Store
  <2>5. AtWait(code, end)'
    BY <1>1, <2>1, <2>2, <2>3, <2>4 DEF AtWait
  <2> QED  BY <2>5 DEF At
<1>5. CASE AtStartOrStop(code, end)
  <2>1. PICK k \in 1..2 :
          /\ \/ code = Left(StartEngine, k, end) /\ Ready(pointer)
             \/ code = Left(StopEngine, k, end)
          /\ end = <<>> /\ AtRest /\ program = <<>> /\ AllBounded
    BY <1>5 DEF AtStartOrStop
  <2>2. \/ code' = Left(StartEngine, 2, end) /\ Ready(pointer)
        \/ code' = Left(StopEngine, 2, end)
    <3>1. CASE code = Left(StartEngine, k, end) /\ Ready(pointer)
      BY <1>1, <2>1, <3>1, ShortPlace DEF Rest
    <3>2. CASE code = Left(StopEngine, k, end)
      BY <1>1, <2>1, <3>2, ShortPlace DEF Rest
    <3> QED  BY <2>1, <3>1, <3>2
  <2>3. (Ready(pointer) => Ready(pointer)') /\ AtRest' /\ AllBounded'
    BY <1>1, <2>1 DEF Ready, AtRest, AllBounded, Bounded
  <2>4. StartEngine' = StartEngine /\ StopEngine' = StopEngine
    BY DEF StartEngine, StopEngine, Load, Store, ClearRun
  <2>5. AtStartOrStop(code, end)'
    BY <1>1, <2>1, <2>2, <2>3, <2>4 DEF AtStartOrStop
  <2> QED  BY <2>5 DEF At
<1> QED  BY <1>2, <1>3, <1>4, <1>5

\* The status is cleared, at the start or when it is returned.
LEMMA ClearMoves ==
  ASSUME TypeOK, NEW end \in Ends, At(code, end), ClearStatus
  PROVE  At(code, end)'
<1>1. /\ code # <<>> /\ code[1].op \in {"clear_status", "return_status"} /\ code' = Rest
      /\ UNCHANGED <<own, engine, irq, pointer, length, device, turns, program, transfer>>
  BY DEF ClearStatus, Executes
<1>2. \/ AtTransfer(code, end) /\ code[1].op = "clear_status"
      \/ AtWait(code, end) /\ code[1].op = "return_status"
  BY <1>1, PlaceOps
<1>3. CASE AtTransfer(code, end) /\ code[1].op = "clear_status"
  <2>1. PICK c \in Chains \ {transfer.chain}, k \in 1..7 :
          /\ \/ Rest = Left(AsyncTransfer(c), k + 1, end)
             \/ Rest = Left(SyncTransfer(c), k + 1, end) /\ end = <<>> /\ turns = 0
          /\ k = 4 /\ StartInv(c, k) /\ Alone(end) /\ AllBounded
    BY <1>1, <1>3, InTransfer DEF OpAt
  <2>2. StartInv(c, 4 + 1)' /\ Alone(end)'
    BY <1>1, <2>1 DEF StartInv, Ready, Busy, Alone, AtRest
  <2> QED  BY <1>1, <2>1, <2>2, NextInTransfer
<1>4. CASE AtWait(code, end) /\ code[1].op = "return_status"
  <2>1. PICK c \in Chains, k \in 8..11 :
          code = Left(SyncTransfer(c), k, end) /\ end = <<>> /\ turns = 0 /\ WaitInv(k) /\ AllBounded
    BY <1>4 DEF AtWait
  <2>2. code' = end
    BY <1>1, <1>4, <2>1, WaitPlace DEF Rest
  <2>3. AllBounded'
    BY <1>1, <2>1 DEF AllBounded, Bounded
  <2> QED  BY <2>2, <2>3 DEF At
<1> QED  BY <1>2, <1>3, <1>4

\* The engine is pointed at the chain, at rest.
LEMMA PointMoves ==
  ASSUME TypeOK, NEW end \in Ends, At(code, end), Point
  PROVE  At(code, end)' /\ AtRest /\ This.chain \in Chains
<1>1. /\ code # <<>> /\ code[1].op = "point" /\ code' = Rest /\ pointer' = This.chain
      /\ UNCHANGED <<own, engine, irq, completed, length, device, turns, program, transfer>>
  BY DEF Point, Executes
<1>2. AtTransfer(code, end)
  BY <1>1, PlaceOps
<1>3. PICK c \in Chains \ {transfer.chain}, k \in 1..7 :
        /\ \/ Rest = Left(AsyncTransfer(c), k + 1, end) /\ code[1] = AsyncTransfer(c)[k]
           \/ Rest = Left(SyncTransfer(c), k + 1, end) /\ end = <<>> /\ turns = 0
              /\ code[1] = SyncTransfer(c)[k]
        /\ k = 5 /\ StartInv(c, k) /\ Alone(end) /\ AllBounded
  BY <1>1, <1>2, InTransfer DEF OpAt
<1>4. This.chain = c
  BY <1>3, TransferAccesses DEF This
<1>5. StartInv(c, 5 + 1)' /\ Alone(end)' /\ AtRest
  BY <1>1, <1>3, <1>4 DEF StartInv, Ready, Busy, Alone, AtRest
<1> QED  BY <1>1, <1>3, <1>4, <1>5, NextInTransfer

\* The control register is written.
Value == (loaded \ This.clear) \cup This.set
Starts == "RUN" \in Value /\ ~engine.ended /\ ~engine.running

LEMMA StoreIs ==
  ASSUME TypeOK, StoreControl
  PROVE  /\ code # <<>> /\ code[1].op = "store" /\ code' = Rest /\ loaded' = {}
         /\ ~Ending /\ ~(irq /\ program = <<>>)
         /\ control' = Value \ {"CLEAR_IRQ"} /\ irq' = (irq /\ "CLEAR_IRQ" \notin Value)
         /\ engine'.ended = (engine.ended /\ "RUN" \in Value)
         /\ engine'.running = ("RUN" \in Value /\ ~engine'.ended)
         /\ engine'.queue = engine.queue /\ engine'.written = engine.written
         /\ IF Starts
            THEN /\ engine'.owned /\ engine'.next = <<pointer, 1>>
                 /\ transfer' = [chain |-> pointer, processed |-> <<>>,
                                 owed |-> device.callback /\ Interrupts \subseteq Value]
            ELSE /\ engine'.owned = engine.owned /\ engine'.next = engine.next
                 /\ transfer' = transfer
         /\ UNCHANGED <<own, pointer, completed, device, program, turns, length>>
<1>1. engine \in [running : BOOLEAN, ended : BOOLEAN, owned : BOOLEAN, next : Descriptors,
                 queue : Seq(Descriptors), written : BOOLEAN]
  BY DEF TypeOK
<1>2. /\ code # <<>> /\ code[1].op = "store" /\ code' = Rest /\ loaded' = {}
      /\ ~Ending /\ ~(irq /\ program = <<>>)
      /\ UNCHANGED <<own, pointer, completed, device, program, turns, length>>
  BY DEF StoreControl, Executes
<1> DEFINE ended == engine.ended /\ "RUN" \in Value
           running == "RUN" \in Value /\ ~ended
           starts == running /\ ~engine.running
<1>3. /\ control' = Value \ {"CLEAR_IRQ"} /\ irq' = (irq /\ "CLEAR_IRQ" \notin Value)
      /\ engine' = [engine EXCEPT !.ended = ended, !.running = running, !.owned = starts \/ @,
                                  !.next = IF starts THEN <<pointer, 1>> ELSE @]
      /\ transfer' = IF starts
                     THEN [chain |-> pointer, processed |-> <<>>,
                           owed |-> device.callback /\ Interrupts \subseteq Value]
                     ELSE transfer
  BY DEF StoreControl, Value
<1>4. ended \in BOOLEAN /\ running \in BOOLEAN /\ starts \in BOOLEAN
  BY <1>1
<1> HIDE DEF ended, running, starts
<1>5. /\ engine'.ended = ended /\ engine'.running = running
      /\ engine'.queue = engine.queue /\ engine'.written = engine.written
      /\ engine'.owned = (starts \/ engine.owned)
      /\ engine'.next = IF starts THEN <<pointer, 1>> ELSE engine.next
  BY <1>1, <1>3
<1>6. /\ engine'.ended = (engine.ended /\ "RUN" \in Value)
      /\ engine'.running = ("RUN" \in Value /\ ~engine'.ended)
      /\ starts = Starts
  BY <1>1, <1>5 DEF ended, running, starts, Starts
<1>7. IF Starts
      THEN /\ engine'.owned /\ engine'.next = <<pointer, 1>>
           /\ transfer' = [chain |-> pointer, processed |-> <<>>,
                           owed |-> device.callback /\ Interrupts \subseteq Value]
      ELSE /\ engine'.owned = engine.owned /\ engine'.next = engine.next
           /\ transfer' = transfer
  <2>1. CASE Starts
    BY <1>3, <1>5, <1>6, <2>1
  <2>2. CASE ~Starts
    <3>1. ~starts
      BY <1>6, <2>2
    <3>2. engine'.owned = engine.owned
      BY <1>1, <1>5, <3>1
    <3> QED  BY <1>3, <1>5, <2>2, <3>1, <3>2
  <2> QED  BY <2>1, <2>2
<1> QED  BY <1>2, <1>3, <1>5, <1>6, <1>7

LEMMA StoreMoves ==
  ASSUME TypeOK, NEW end \in Ends, program = <<>> <=> end = <<>>, At(code, end), StoreControl
  PROVE  /\ At(code, end)' /\ AtRest /\ ~irq'
         /\ "RUN" \in Value /\ ~engine.ended => Ready(pointer) /\ Bounded(pointer)
<1>1. /\ code # <<>> /\ code[1].op = "store" /\ code' = Rest /\ ~Ending /\ ~(irq /\ program = <<>>)
      /\ irq' = (irq /\ "CLEAR_IRQ" \notin Value)
      /\ engine'.ended = (engine.ended /\ "RUN" \in Value)
      /\ engine'.running = ("RUN" \in Value /\ ~engine'.ended)
      /\ engine'.queue = engine.queue
      /\ UNCHANGED <<own, pointer, completed, device, program, turns, length>>
      /\ engine.running \/ ~engine'.running => transfer' = transfer /\ engine'.owned = engine.owned
  BY StoreIs DEF TypeOK, Starts
<1>2. AtTransfer(code, end) \/ AtWait(code, end) \/ AtStartOrStop(code, end)
  BY <1>1, PlaceOps
<1>3. AllBounded => AllBounded'
  BY <1>1 DEF AllBounded, Bounded
<1>4. \A c : SyncTransfer(c)' = SyncTransfer(c)
  BY DEF SyncTransfer, Load, ClearRun, PointAt, Store
<1>5. ASSUME code[1] = ClearRun PROVE "RUN" \notin Value
  BY <1>5, OtherAccesses DEF Value, This
<1>6. CASE AtTransfer(code, end)
  <2>1. PICK c \in Chains \ {transfer.chain}, k \in 1..7 :
          /\ \/ Rest = Left(AsyncTransfer(c), k + 1, end) /\ code[1] = AsyncTransfer(c)[k]
             \/ /\ Rest = Left(SyncTransfer(c), k + 1, end) /\ end = <<>> /\ turns = 0
                /\ code[1] = SyncTransfer(c)[k]
          /\ k \in {3, 7} /\ StartInv(c, k) /\ Alone(end) /\ AllBounded
    BY <1>1, <1>6, InTransfer DEF OpAt
  <2>2. ~engine.running /\ ~Busy /\ Ready(c)
    BY <2>1 DEF StartInv
  <2>3. ~irq
    <3>1. end # <<>> => AtRest
      BY <2>1 DEF Alone
    <3> QED  BY <1>1, <3>1 DEF AtRest
  <2>4. CASE k = 3
    <3>1. "RUN" \notin Value
      BY <1>5, <2>1, <2>4, TransferAccesses
    <3>2. ~engine'.running /\ ~engine'.ended /\ ~irq' /\ transfer' = transfer
          /\ engine'.owned = engine.owned
      BY <1>1, <2>3, <3>1
    <3>3. Alone(end)'
      BY <1>1, <2>1, <3>2 DEF Alone, AtRest
    <3>4. StartInv(c, 3 + 1)'
      BY <1>1, <2>2, <3>2 DEF StartInv, Ready, Busy, AtRest
    <3>5. At(code, end)'
      BY <1>1, <2>1, <2>4, <3>2, <3>3, <3>4, NextInTransfer
    <3> QED  BY <2>2, <2>3, <3>1, <3>2, <3>5 DEF AtRest
  <2>5. CASE k = 7
    <3>1. "RUN" \in Value
      BY <2>1, <2>5, TransferAccesses DEF Value, This
    <3>2. ~engine.ended /\ pointer = c
      BY <2>1, <2>5 DEF StartInv
    <3>3. engine'.running /\ ~irq'
      BY <1>1, <2>3, <3>1, <3>2
    <3>4. At(code, end)'
      <4>1. CASE Rest = Left(AsyncTransfer(c), k + 1, end)
        <5>1. Rest = end
          <6>1. AsyncTransfer(c) \in Seq(Instructions) /\ Len(AsyncTransfer(c)) = 7
                /\ end \in Seq(Instructions)
            BY CallsAre, EndsAre
          <6>2. Left(AsyncTransfer(c), Len(AsyncTransfer(c)) + 1, end) = end
            BY <6>1, LeftEnds
          <6> QED  BY <2>5, <4>1, <6>1, <6>2
        <5> QED  BY <1>1, <1>3, <2>1, <5>1 DEF At
      <4>2. CASE Rest = Left(SyncTransfer(c), k + 1, end) /\ end = <<>> /\ turns = 0
        <5>1. WaitInv(8)'
          BY <3>3 DEF WaitInv
        <5>2. AtWait(code, end)'
          BY <1>1, <1>3, <1>4, <2>1, <2>5, <4>2, <5>1 DEF AtWait
        <5> QED  BY <5>2 DEF At
      <4> QED  BY <2>1, <4>1, <4>2
    <3> QED  BY <2>1, <2>2, <2>3, <3>2, <3>3, <3>4 DEF AtRest, AllBounded
  <2> QED  BY <2>1, <2>4, <2>5
<1>7. CASE AtWait(code, end)
  <2>1. PICK c \in Chains, k \in 8..11 :
          code = Left(SyncTransfer(c), k, end) /\ end = <<>> /\ turns = 0 /\ WaitInv(k) /\ AllBounded
    BY <1>7 DEF AtWait
  <2>2. k = 10 /\ Rest = Left(SyncTransfer(c), 11, end) /\ code[1] = SyncTransfer(c)[10]
    BY <1>1, <2>1, WaitPlace DEF Rest
  <2>3. "RUN" \notin Value
    BY <1>5, <2>2, TransferAccesses
  <2>4. ~engine.running /\ ~Busy /\ completed /\ ~irq
    BY <1>1, <2>1, <2>2 DEF WaitInv
  <2>5. ~engine'.running /\ ~Busy' /\ ~irq'
    BY <1>1, <2>3, <2>4 DEF Busy
  <2>6. WaitInv(11)' /\ AllBounded'
    BY <1>1, <1>3, <2>1, <2>4, <2>5 DEF WaitInv
  <2>7. AtWait(code, end)'
    BY <1>1, <1>4, <2>1, <2>2, <2>6 DEF AtWait
  <2> QED  BY <2>3, <2>4, <2>5, <2>7 DEF At, AtRest
<1>8. CASE AtStartOrStop(code, end)
  <2>1. PICK k \in 1..2 :
          /\ \/ code = Left(StartEngine, k, end) /\ Ready(pointer)
             \/ code = Left(StopEngine, k, end)
          /\ end = <<>> /\ AtRest /\ program = <<>> /\ AllBounded
    BY <1>8 DEF AtStartOrStop
  <2>2. code' = end
    <3>1. CASE code = Left(StartEngine, k, end) /\ Ready(pointer)
      BY <1>1, <2>1, <3>1, ShortPlace DEF Rest
    <3>2. CASE code = Left(StopEngine, k, end)
      BY <1>1, <2>1, <3>2, ShortPlace DEF Rest
    <3> QED  BY <2>1, <3>1, <3>2
  <2>3. At(code, end)'
    BY <1>3, <2>1, <2>2 DEF At
  <2>4. "RUN" \in Value => Ready(pointer)
    <3>1. CASE code = Left(StopEngine, k, end)
      BY <1>1, <1>5, <2>1, <3>1, ShortPlace, OtherAccesses
    <3> QED  BY <2>1, <3>1
  <2>5. Bounded(pointer)
    BY <2>1 DEF AllBounded, TypeOK
  <2> QED  BY <1>1, <2>1, <2>3, <2>4, <2>5 DEF AtRest
<1> QED  BY <1>2, <1>6, <1>7, <1>8

------------------------------------------------------------------------------
(* Who executes an access: a call, or the handler.                           *)

\* The access of each place of the handler.
LEMMA HandlerPlace ==
  ASSUME TypeOK, InHandler
  PROVE  \E k \in 1..Len(Irq) :
           /\ code = Left(Irq, k, <<>>) /\ code \in Seq(Instructions) /\ code # <<>>
           /\ code[1] = Irq[k] /\ Rest = Left(Irq, k + 1, <<>>)
           /\ IF k <= 2 THEN irq ELSE AtRest
           /\ code[1].op = IF k = 1 THEN "load" ELSE IF k = 2 THEN "store"
                           ELSE IF k = 3 /\ device.callback THEN "callback" ELSE "eret"
<1>1. PICK k \in 1..Len(Irq) : code = Left(Irq, k, <<>>) /\ IF k <= 2 THEN irq ELSE AtRest
  BY DEF InHandler
<1>2. Irq \in Seq(Instructions) /\ <<>> \in Seq(Instructions)
      /\ Len(Irq) = IF device.callback THEN 4 ELSE 3
  BY CallsAre
<1>3. /\ code \in Seq(Instructions) /\ code # <<>> /\ code[1] = Irq[k]
      /\ Rest = Left(Irq, k + 1, <<>>)
  BY <1>1, <1>2, LeftIs DEF Rest
<1>4. k \in {1, 2, 3} \/ (device.callback /\ k = 4)
  BY <1>2
<1>5. Irq[k].op = IF k = 1 THEN "load" ELSE IF k = 2 THEN "store"
                  ELSE IF k = 3 /\ device.callback THEN "callback" ELSE "eret"
  BY <1>4, OtherAccesses DEF Store
<1> QED  BY <1>1, <1>3, <1>5

LEMMA CodeIs ==
  ASSUME TypeOK, CodeInv
  PROVE  code \in Seq(Instructions)
<1>1. CASE InCall(<<>>)
  BY <1>1, PlaceOps DEF InCall, Ends
<1>2. CASE InCall(ThenReturn)
  BY <1>2, PlaceOps DEF InCall, Ends
<1>3. CASE Handling
  BY <1>3, HandlerPlace DEF Handling
<1> QED  BY <1>1, <1>2, <1>3 DEF CodeInv

LEMMA WhoExecutes ==
  ASSUME TypeOK, CodeInv, code # <<>>
  PROVE  /\ code[1].op \in {"construct", "built", "reject_busy", "await_idle", "clear_status",
                            "return_status", "point"} => \E end \in Ends : InCall(end)
         /\ code[1].op \in {"load", "store"} => (\E end \in Ends : InCall(end)) \/ Handling
         /\ code[1].op = "callback" => Handling
         /\ code[1].op = "eret" => Handling \/ (InCall(ThenReturn) /\ code = ThenReturn /\ AllBounded)
<1>1. ASSUME NEW end \in Ends, InCall(end)
      PROVE  /\ code[1].op # "callback"
             /\ code[1].op = "eret" => code = end /\ AllBounded
  BY <1>1, PlaceOps DEF InCall
<1>2. CASE InCall(<<>>)
  <2>1. <<>> \in Ends
    BY DEF Ends
  <2> QED  BY <1>1, <1>2, <2>1
<1>3. CASE InCall(ThenReturn)
  <2>1. ThenReturn \in Ends
    BY DEF Ends
  <2> QED  BY <1>1, <1>3, <2>1
<1>4. CASE Handling
  <2>1. code[1].op \in {"load", "store", "callback", "eret"}
    BY <1>4, HandlerPlace DEF Handling
  <2> QED  BY <1>4, <2>1
<1> QED  BY <1>2, <1>3, <1>4 DEF CodeInv

\* A call that goes on.
LEMMA CallGoesOn ==
  ASSUME TypeOK, NEW end \in Ends, InCall(end), At(code, end)', UNCHANGED <<program, turns>>
  PROVE  CodeInv'
<1>1. InCall(end)'
  BY DEF InCall
<1>2. CASE end = <<>>
  BY <1>1, <1>2 DEF CodeInv
<1>3. CASE end = ThenReturn
  <2>1. InCall(ThenReturn)'
    BY <1>1, <1>3 DEF InCall, ThenReturn
  <2> QED  BY <2>1 DEF CodeInv
<1> QED  BY <1>2, <1>3 DEF Ends

LEMMA EndOfCall ==
  ASSUME TypeOK, NEW end \in Ends, InCall(end)
  PROVE  At(code, end) /\ (program = <<>> <=> end = <<>>)
<1>1. CASE end = <<>>
  BY <1>1 DEF InCall
<1>2. CASE end # <<>>
  <2>1. PICK l \in SUBSET Bits : program = <<[code |-> <<>>, loaded |-> l]>>
    BY <1>2 DEF InCall
  <2> QED  BY <1>2, <2>1 DEF InCall
<1> QED  BY <1>1, <1>2

\* The handler goes on, or the engine does, behind an interrupted call.
LEMMA HandlingGoesOn ==
  ASSUME TypeOK, Handling, Kept, program' = program, InHandler'
  PROVE  Handling'
<1>1. PICK left \in Seq(Instructions), l \in SUBSET Bits :
        program = <<[code |-> left, loaded |-> l]>> /\ At(left, <<>>)
  BY DEF Handling
<1>2. At(left, <<>>)'
  BY <1>1, AtKept
<1>3. left \in Seq(Instructions)' /\ l \in (SUBSET Bits)'
  BY <1>1 DEF Instructions, Bits
<1> QED  BY <1>1, <1>2, <1>3 DEF Handling

------------------------------------------------------------------------------
(* The engine and its chain.                                                 *)

\* Nothing is queued but while the engine runs.
LEMMA WhileRunning ==
  ASSUME TypeOK, EngineInv, engine.running \/ Busy
  PROVE  /\ engine.running /\ RunningInv /\ transfer.chain \in Chains
         /\ Done \in Nat /\ Ahead \in Nat /\ Last \in 1..(ArraySize - 1)
         /\ \A i \in 1..(Last + 1) : <<transfer.chain, i>> \in Descriptors
         /\ Last + 1 \in 1..ArraySize
<1>1. engine.running /\ RunningInv /\ transfer.chain \in Chains /\ Last \in Lengths
  BY DEF TypeOK, EngineInv, RunningInv, Last
<1>2. engine.queue \in Seq(Descriptors) /\ transfer.processed \in Seq(Descriptors)
  BY DEF TypeOK
<1>3. Done \in Nat /\ Ahead \in Nat
  BY <1>2, LenProperties DEF Done, Ahead
<1>4. Last \in 1..(ArraySize - 1) /\ Last + 1 \in 1..ArraySize
  BY <1>1, Numbers
<1>5. \A i \in 1..(Last + 1) : <<transfer.chain, i>> \in Descriptors
  BY <1>1, <1>4, Numbers
<1> QED  BY <1>1, <1>3, <1>4, <1>5

LEMMA HeadOfQueue ==
  ASSUME TypeOK, EngineInv, engine.queue # <<>>
  PROVE  /\ engine.running /\ RunningInv /\ Ahead > 0 /\ Done + 1 \in 1..Last
         /\ engine.queue[1] = <<transfer.chain, Done + 1>>
<1>1. engine.running /\ RunningInv /\ Done \in Nat /\ Ahead \in Nat /\ Last \in Nat
  BY WhileRunning DEF Busy
<1>2. Ahead > 0
  BY <1>1, EmptySeq DEF TypeOK, Ahead
<1>3. engine.queue[1] = <<transfer.chain, Done + 1>>
  BY <1>1, <1>2 DEF RunningInv
<1>4. Done + Ahead <= Last
  BY <1>1 DEF RunningInv
<1> QED  BY <1>1, <1>2, <1>3, <1>4

\* What does not touch the engine or its chain.
LEMMA EngineInvKept ==
  ASSUME TypeOK, EngineInv, UNCHANGED <<engine, irq>>, transfer'.chain = transfer.chain,
         transfer'.processed = transfer.processed,
         length'[transfer.chain] = length[transfer.chain],
         \A d \in Descriptors : d[1] = transfer.chain => own'[d] = own[d]
  PROVE  EngineInv'
<1>1. Done' = Done /\ Ahead' = Ahead /\ Last' = Last
  BY DEF Done, Ahead, Last
<1>2. irq' => engine'.ended
  BY DEF EngineInv
<1>3. CASE engine.running
  <2>1. \A i \in 1..(Last + 1) : own'[<<transfer.chain, i>>] = own[<<transfer.chain, i>>]
    BY <1>3, WhileRunning
  <2>2. \A i \in (Done + 1)..Last : own'[<<transfer.chain, i>>]
    BY <1>3, <2>1, WhileRunning DEF RunningInv
  <2>3. ~own'[<<transfer.chain, Last + 1>>]
    BY <1>3, <2>1, WhileRunning DEF RunningInv
  <2>4. RunningInv
    BY <1>3, WhileRunning
  <2>5. RunningInv'
    BY <1>1, <2>2, <2>3, <2>4 DEF RunningInv
  <2> QED  BY <1>2, <1>3, <2>5 DEF EngineInv
<1>4. CASE ~engine.running
  BY <1>2, <1>4 DEF EngineInv, Busy, Whole
<1> QED  BY <1>3, <1>4

\* The descriptor that the engine fetches is the next of its chain; it stops
\* in front of the first behind the end.
LEMMA FetchInv ==
  ASSUME TypeOK, EngineInv, Fetch
  PROVE  EngineInv'
<1> DEFINE c == transfer.chain
<1>1. /\ engine.running /\ engine.owned /\ RunningInv
      /\ Done \in Nat /\ Ahead \in Nat /\ Last \in 1..(ArraySize - 1) /\ ArraySize \in Nat
      /\ c \in Chains
  BY WhileRunning, Numbers DEF Fetch
<1>2. UNCHANGED <<own, irq, transfer, length>> /\ Done' = Done /\ Last' = Last
  BY DEF Fetch, registers, Done, Last
<1>3. /\ engine \in [running : BOOLEAN, ended : BOOLEAN, owned : BOOLEAN, next : Descriptors,
                     queue : Seq(Descriptors), written : BOOLEAN]
      /\ own \in [Descriptors -> BOOLEAN]
  BY DEF TypeOK
<1>4. /\ engine'.running = engine.running /\ engine'.ended = engine.ended
      /\ engine'.owned = own[engine.next] /\ engine'.next = After(engine.next)
      /\ engine'.queue = IF own[engine.next] THEN Append(engine.queue, engine.next)
                         ELSE engine.queue
  BY <1>3 DEF Fetch
<1>5. /\ engine.next = <<c, Done + Ahead + 1>> /\ Done + Ahead <= Last /\ ~own[<<c, Last + 1>>]
      /\ \A i \in (Done + 1)..Last : own[<<c, i>>]
      /\ engine.queue = [i \in 1..Ahead |-> <<c, Done + i>>]
  BY <1>1 DEF RunningInv
<1>6. CASE own[engine.next]
  <2>1. Done + Ahead + 1 <= Last
    <3>1. Done + Ahead # Last
      BY <1>5, <1>6
    <3> QED  BY <1>1, <1>5, <3>1
  <2>2. engine'.queue = Append(engine.queue, engine.next) /\ engine'.owned
    BY <1>3, <1>4, <1>6
  <2>3. Ahead' = Ahead + 1
    BY <1>3, <2>2, AppendProperties DEF Ahead
  <2>4. engine'.queue = [i \in 1..(Ahead + 1) |-> <<c, Done + i>>]
    <3> DEFINE q == [i \in 1..(Ahead + 1) |-> <<c, Done + i>>]
    <3>1. \A i \in 1..(Ahead + 1) : <<c, Done + i>> \in Descriptors
      BY <1>1, <2>1, Numbers
    <3>2. q \in Seq(Descriptors) /\ Len(q) = Ahead + 1
      BY <1>1, <3>1
    <3>3. engine'.queue \in Seq(Descriptors)
      BY <1>3, <2>2, AppendProperties
    <3>4. ASSUME NEW i \in 1..(Ahead + 1) PROVE engine'.queue[i] = q[i]
      <4>1. CASE i = Ahead + 1
        <5>1. engine'.queue[Ahead + 1] = engine.next
          BY <1>3, <2>2, AppendProperties DEF Ahead
        <5> QED  BY <1>1, <1>5, <4>1, <5>1
      <4>2. CASE i # Ahead + 1
        <5>1. i \in 1..Ahead
          BY <1>1, <4>2
        <5>2. engine'.queue[i] = engine.queue[i]
          BY <1>3, <2>2, <5>1, AppendProperties DEF Ahead
        <5> QED  BY <1>5, <5>1, <5>2
      <4> QED  BY <4>1, <4>2
    <3>5. Len(engine'.queue) = Ahead + 1
      BY <2>3 DEF Ahead
    <3> HIDE DEF q
    <3>6. engine'.queue = q
      BY <3>2, <3>3, <3>4, <3>5, SeqEqual
    <3> QED  BY <3>6 DEF q
  <2>5. engine'.next = <<c, Done + (Ahead + 1) + 1>>
    <3>1. Done + Ahead + 1 \in 1..(ArraySize - 1)
      BY <1>1, <2>1
    <3>2. After(<<c, Done + Ahead + 1>>) = <<c, Done + Ahead + 1 + 1>>
      BY <1>1, <3>1, Numbers
    <3> QED  BY <1>1, <1>4, <1>5, <3>2
  <2>6. Done + (Ahead + 1) <= Last
    BY <1>1, <2>1
  <2>7. RunningInv'
    BY <1>1, <1>2, <1>4, <2>2, <2>3, <2>4, <2>5, <2>6 DEF RunningInv
  <2> QED  BY <1>1, <1>2, <1>4, <2>7 DEF EngineInv
<1>7. CASE ~own[engine.next]
  <2>1. Done + Ahead = Last
    <3>1. Done + Ahead + 1 \notin (Done + 1)..Last
      BY <1>5, <1>7
    <3> QED  BY <1>1, <1>5, <3>1
  <2>2. engine'.queue = engine.queue /\ ~engine'.owned /\ Ahead' = Ahead
    BY <1>4, <1>7 DEF Ahead
  <2>3. RunningInv'
    BY <1>1, <1>2, <1>4, <2>1, <2>2 DEF RunningInv
  <2> QED  BY <1>1, <1>2, <1>4, <2>3 DEF EngineInv
<1> QED  BY <1>6, <1>7

\* The oldest descriptor is the first that is not yet processed.
LEMMA WriteBackInv ==
  ASSUME TypeOK, EngineInv, WriteBack
  PROVE  EngineInv'
<1> DEFINE c == transfer.chain
<1>1. /\ engine.running /\ RunningInv /\ Ahead > 0 /\ Done + 1 \in 1..Last
      /\ engine.queue[1] = <<c, Done + 1>>
      /\ Done \in Nat /\ Ahead \in Nat /\ Last \in Nat /\ c \in Chains
      /\ \A i \in 1..(Last + 1) : <<c, i>> \in Descriptors
  BY HeadOfQueue, WhileRunning DEF WriteBack
<1>2. UNCHANGED <<irq, length, control>> /\ Last' = Last /\ transfer'.chain = c
  BY DEF WriteBack, registers, Last, TypeOK
<1>3. /\ engine \in [running : BOOLEAN, ended : BOOLEAN, owned : BOOLEAN, next : Descriptors,
                     queue : Seq(Descriptors), written : BOOLEAN]
      /\ own \in [Descriptors -> BOOLEAN]
      /\ transfer \in [chain : Chains, processed : Seq(Descriptors), owed : BOOLEAN]
  BY DEF TypeOK
<1>4. /\ engine'.running = engine.running /\ engine'.ended = engine.ended
      /\ engine'.owned = engine.owned /\ engine'.next = engine.next
      /\ engine'.queue = Tail(engine.queue)
      /\ own' = [own EXCEPT ![<<c, Done + 1>>] = "PARK" \in control]
      /\ transfer'.processed = Append(transfer.processed, <<c, Done + 1>>)
  BY <1>1, <1>3 DEF WriteBack
<1>5. /\ Done + Ahead <= Last /\ ~own[<<c, Last + 1>>]
      /\ \A i \in (Done + 1)..Last : own[<<c, i>>]
      /\ engine.queue = [i \in 1..Ahead |-> <<c, Done + i>>]
      /\ transfer.processed = [i \in 1..Done |-> <<c, i>>]
  BY <1>1 DEF RunningInv
<1>6. Ahead' = Ahead - 1 /\ \A i \in 1..(Ahead - 1) : engine'.queue[i] = engine.queue[i + 1]
  <2>1. engine.queue # <<>>
    BY DEF WriteBack
  <2> QED  BY <1>3, <1>4, <2>1, HeadTailProperties DEF Ahead
<1>7. Done' = Done + 1
  BY <1>1, <1>3, <1>4, AppendProperties DEF Done
<1>8. transfer'.processed = [i \in 1..(Done + 1) |-> <<c, i>>]
  <2> DEFINE p == [i \in 1..(Done + 1) |-> <<c, i>>]
  <2>1. p \in Seq(Descriptors) /\ Len(p) = Done + 1
    <3>1. \A i \in 1..(Done + 1) : <<c, i>> \in Descriptors
      BY <1>1
    <3> QED  BY <1>1, <3>1
  <2>2. <<c, Done + 1>> \in Descriptors
    BY <1>1
  <2>3. transfer'.processed \in Seq(Descriptors) /\ Len(transfer'.processed) = Done + 1
    BY <1>3, <1>4, <2>2, AppendProperties DEF Done
  <2>4. ASSUME NEW i \in 1..(Done + 1) PROVE transfer'.processed[i] = p[i]
    <3>1. CASE i = Done + 1
      BY <1>1, <1>3, <1>4, <2>2, <3>1, AppendProperties DEF Done
    <3>2. CASE i # Done + 1
      <4>1. i \in 1..Done
        BY <1>1, <3>2
      <4>2. transfer'.processed[i] = transfer.processed[i]
        BY <1>3, <1>4, <2>2, <4>1, AppendProperties DEF Done
      <4> QED  BY <1>5, <4>1, <4>2
    <3> QED  BY <3>1, <3>2
  <2> HIDE DEF p
  <2>5. transfer'.processed = p
    BY <2>1, <2>3, <2>4, SeqEqual
  <2> QED  BY <2>5 DEF p
<1>9. engine'.queue = [i \in 1..(Ahead - 1) |-> <<c, (Done + 1) + i>>]
  <2> DEFINE q == [i \in 1..(Ahead - 1) |-> <<c, (Done + 1) + i>>]
  <2>1. q \in Seq(Descriptors) /\ Len(q) = Ahead - 1
    <3>1. \A i \in 1..(Ahead - 1) : <<c, (Done + 1) + i>> \in Descriptors
      BY <1>1, <1>5
    <3> QED  BY <1>1, <3>1
  <2>2. engine'.queue \in Seq(Descriptors) /\ Len(engine'.queue) = Ahead - 1
    <3>1. engine.queue # <<>>
      BY DEF WriteBack
    <3> QED  BY <1>3, <1>4, <3>1, HeadTailProperties DEF Ahead
  <2>3. ASSUME NEW i \in 1..(Ahead - 1) PROVE engine'.queue[i] = q[i]
    <3>1. i + 1 \in 1..Ahead /\ Done + (i + 1) = (Done + 1) + i
      BY <1>1
    <3>2. engine.queue[i + 1] = <<c, Done + (i + 1)>>
      BY <1>5, <3>1
    <3> QED  BY <1>6, <3>1, <3>2
  <2> HIDE DEF q
  <2>4. engine'.queue = q
    BY <2>1, <2>2, <2>3, SeqEqual
  <2> QED  BY <2>4 DEF q
<1>10. \A i \in 1..(Last + 1) : i # Done + 1 => own'[<<c, i>>] = own[<<c, i>>]
  BY <1>1, <1>3, <1>4
<1>11. /\ \A i \in ((Done + 1) + 1)..Last : own'[<<c, i>>]
       /\ ~own'[<<c, Last + 1>>]
  BY <1>1, <1>5, <1>10
<1>12. /\ (Done + 1) + (Ahead - 1) = Done + Ahead
  BY <1>1
<1>13. RunningInv'
  BY <1>1, <1>2, <1>4, <1>5, <1>6, <1>7, <1>8, <1>9, <1>11, <1>12 DEF RunningInv
<1> QED  BY <1>1, <1>2, <1>4, <1>13 DEF EngineInv, RunningInv

\* At its end the chain is processed.
LEMMA EndChainInv ==
  ASSUME TypeOK, EngineInv, EndChain
  PROVE  EngineInv'
<1>1. /\ engine.running /\ RunningInv /\ Done \in Nat /\ Ahead \in Nat /\ Last \in Nat
      /\ ~engine.owned /\ engine.queue = <<>>
  BY WhileRunning DEF EndChain, Ending, Busy
<1>2. Ahead = 0 /\ Done = Last
  BY <1>1, EmptySeq DEF Ahead, RunningInv
<1>3. Whole
  BY <1>1, <1>2 DEF Whole, RunningInv, Last
<1>4. /\ ~engine'.running /\ engine'.ended /\ engine'.owned = engine.owned
      /\ engine'.queue = engine.queue
      /\ UNCHANGED <<transfer, length>>
  BY DEF EndChain, TypeOK
<1> QED  BY <1>1, <1>3, <1>4 DEF EngineInv, Busy, Whole

\* A step of the engine leaves the call that executes where it is.
LEMMA EngineKept ==
  ASSUME TypeOK, EngineInv, Engine
  PROVE  Kept /\ UNCHANGED <<program, code>> /\ (irq => irq')
<1>1. CASE Fetch
  <2>1. engine'.running = engine.running
    BY <1>1 DEF Fetch, TypeOK
  <2>2. engine.running /\ Busy
    BY <1>1 DEF Fetch, Busy
  <2> QED  BY <1>1, <2>1, <2>2 DEF Fetch, Kept, AtRest, Bounded, registers, processor
<1>2. CASE WriteBack
  <2>1. /\ engine.running /\ RunningInv /\ Done + 1 \in 1..Last /\ Last \in Nat /\ Done \in Nat
        /\ engine.queue[1] = <<transfer.chain, Done + 1>>
        /\ <<transfer.chain, Last + 1>> \in Descriptors
    BY <1>2, HeadOfQueue, WhileRunning DEF WriteBack
  <2>2. /\ own' = [own EXCEPT ![<<transfer.chain, Done + 1>>] = "PARK" \in control]
        /\ engine'.running = engine.running /\ transfer'.chain = transfer.chain
        /\ UNCHANGED <<device, pointer, length, turns, irq, completed, program, code>>
    BY <1>2, <2>1 DEF WriteBack, registers, processor, TypeOK
  <2>3. \A d \in Descriptors : d[1] # transfer.chain => own'[d] = own[d]
    BY <2>2 DEF TypeOK
  <2>4. Bounded(transfer.chain) => Bounded(transfer.chain)'
    <3>1. own'[<<transfer.chain, Last + 1>>] = own[<<transfer.chain, Last + 1>>]
      BY <2>1, <2>2 DEF TypeOK
    <3> QED  BY <2>2, <3>1 DEF Bounded, Last
  <2>5. Busy
    BY <1>2 DEF WriteBack, Busy
  <2> QED  BY <2>1, <2>2, <2>3, <2>4, <2>5 DEF Kept, AtRest
<1>3. CASE EndChain
  <2>1. /\ engine.running /\ completed' /\ ~engine'.running /\ engine'.owned = engine.owned
        /\ engine'.queue = engine.queue /\ (irq => irq')
    BY <1>3 DEF EndChain, Ending, TypeOK
  <2> QED  BY <1>3, <2>1 DEF EndChain, Kept, AtRest, Bounded, Busy, processor
<1> QED  BY <1>1, <1>2, <1>3 DEF Engine

LEMMA StandsStill ==
  ASSUME TypeOK, CodeInv, Kept, UNCHANGED <<program, code>>, irq => irq'
  PROVE  CodeInv'
<1>1. ASSUME NEW end \in Ends, InCall(end) PROVE CodeInv'
  <2>1. At(code, end)'
    BY <1>1, AtKept DEF InCall
  <2> QED  BY <1>1, <2>1, CallGoesOn DEF Kept
<1>2. CASE Handling
  <2>1. PICK k \in 1..Len(Irq) : code = Left(Irq, k, <<>>) /\ IF k <= 2 THEN irq ELSE AtRest
    BY <1>2 DEF Handling, InHandler
  <2>2. Irq' = Irq
    BY SameCalls DEF Kept
  <2>3. IF k <= 2 THEN irq' ELSE AtRest'
    BY <2>1 DEF Kept
  <2>4. InHandler'
    BY <2>1, <2>2, <2>3 DEF InHandler
  <2> QED  BY <1>2, <2>4, HandlingGoesOn DEF CodeInv
<1> QED  BY <1>1, <1>2 DEF CodeInv, Ends

LEMMA EngineSteps ==
  ASSUME TypeOK, EngineInv, CodeInv, Engine
  PROVE  EngineInv' /\ CodeInv'
<1>1. CodeInv'
  BY EngineKept, StandsStill
<1>2. EngineInv'
  BY FetchInv, WriteBackInv, EndChainInv DEF Engine
<1> QED  BY <1>1, <1>2

------------------------------------------------------------------------------
(* The processor.                                                            *)

\* An interrupt comes when the program has started no transfer meanwhile.
LEMMA InterruptStep ==
  ASSUME TypeOK, EngineInv, CodeInv, Interrupt
  PROVE  EngineInv' /\ CodeInv'
<1>1. /\ irq /\ program = <<>> /\ code' = Irq
      /\ program' = <<[code |-> code, loaded |-> loaded]>>
      /\ UNCHANGED <<own, control, pointer, completed, irq, engine, device, turns, length, transfer>>
  BY DEF Interrupt, registers
<1>2. EngineInv'
  BY <1>1, EngineInvKept
<1>3. InCall(<<>>)
  <2>1. \A left, l : program # <<[code |-> left, loaded |-> l]>>
    BY <1>1
  <2> QED  BY <2>1 DEF CodeInv, InCall, Handling, ThenReturn
<1>4. Kept
  BY <1>1 DEF Kept, AtRest, Bounded, Busy
<1>5. At(code, <<>>) /\ code \in Seq(Instructions)
  BY <1>3, CodeIs DEF InCall
<1>6. \E left \in Seq(Instructions)', l \in (SUBSET Bits)' :
        program' = <<[code |-> left, loaded |-> l]>> /\ At(left, <<>>)'
  <2>1. PICK left : left = code
    OBVIOUS
  <2>2. PICK l : l = loaded
    OBVIOUS
  <2>3. At(left, <<>>)'
    BY <1>4, <1>5, <2>1, AtKept
  <2>4. left \in Seq(Instructions)' /\ l \in (SUBSET Bits)'
    BY <1>5, <2>1, <2>2 DEF TypeOK, Instructions, Bits
  <2> QED  BY <1>1, <2>1, <2>2, <2>3, <2>4
<1>7. InHandler'
  <2>1. Irq' = Irq
    BY <1>1, SameCalls
  <2>2. Irq \in Seq(Instructions) /\ <<>> \in Seq(Instructions) /\ Len(Irq) \in {3, 4}
    BY CallsAre
  <2>3. Left(Irq, 1, <<>>) = Irq
    BY <2>2, LeftEnds
  <2>4. 1 \in 1..Len(Irq)
    BY <2>2
  <2> QED  BY <1>1, <2>1, <2>3, <2>4 DEF InHandler
<1>8. Handling'
  BY <1>6, <1>7 DEF Handling
<1> QED  BY <1>2, <1>8 DEF CodeInv

\* An access of a call only, not of the handler.
LEMMA CallSteps ==
  ASSUME TypeOK, EngineInv, CodeInv,
         Built \/ ConstructDescriptor \/ RejectBusy \/ AwaitIdle \/ ClearStatus \/ Point
  PROVE  EngineInv' /\ CodeInv'
<1>1. /\ code # <<>> /\ code[1].op \in {"construct", "built", "reject_busy", "await_idle",
                                        "clear_status", "return_status", "point"}
      /\ UNCHANGED <<engine, irq, transfer, program, turns>>
  BY DEF Built, ConstructDescriptor, RejectBusy, AwaitIdle, ClearStatus, Point, Executes, registers
<1>2. PICK end \in Ends : InCall(end)
  BY <1>1, WhoExecutes
<1>3. At(code, end) /\ (program = <<>> <=> end = <<>>)
  BY <1>2, EndOfCall
<1>4. At(code, end)'
  BY <1>3, BuiltMoves, ConstructMoves, RejectMoves, AwaitMoves, ClearMoves, PointMoves
<1>5. CodeInv'
  BY <1>1, <1>2, <1>4, CallGoesOn
<1>6. /\ length'[transfer.chain] = length[transfer.chain]
      /\ \A d \in Descriptors : d[1] = transfer.chain => own'[d] = own[d]
  <2>1. CASE Built
    <3>1. This.chain # transfer.chain
      BY <1>3, <2>1, BuiltMoves
    <3> QED  BY <2>1, <3>1 DEF Built, TypeOK
  <2>2. CASE ConstructDescriptor
    <3>1. PICK c \in Chains \ {transfer.chain}, i \in 1..(ArraySize - 1) : This.desc = <<c, i>>
      BY <1>3, <2>2, ConstructMoves
    <3>2. own' = [own EXCEPT ![<<c, i + 1>>] = FALSE, ![<<c, i>>] = TRUE]
      <4>1. After(<<c, i>>) = <<c, i + 1>>
        BY Numbers
      <4> QED  BY <2>2, <3>1, <4>1 DEF ConstructDescriptor
    <3>3. \A d \in Descriptors : d[1] = transfer.chain => d # <<c, i>> /\ d # <<c, i + 1>>
      OBVIOUS
    <3>4. \A d \in Descriptors : d[1] = transfer.chain => own'[d] = own[d]
      BY <3>2, <3>3 DEF TypeOK
    <3> QED  BY <2>2, <3>4 DEF ConstructDescriptor
  <2>3. CASE RejectBusy \/ AwaitIdle \/ ClearStatus \/ Point
    BY <2>3 DEF RejectBusy, AwaitIdle, ClearStatus, Point
  <2> QED  BY <2>1, <2>2, <2>3
<1>7. EngineInv'
  BY <1>1, <1>6, EngineInvKept
<1> QED  BY <1>5, <1>7

\* The control register is read, by a call or by the handler.
LEMMA LoadStep ==
  ASSUME TypeOK, EngineInv, CodeInv, LoadControl
  PROVE  EngineInv' /\ CodeInv'
<1>1. /\ code # <<>> /\ code[1].op = "load" /\ code' = Rest
      /\ UNCHANGED <<own, control, pointer, completed, irq, engine, device, turns, program, length,
                     transfer>>
  BY DEF LoadControl, Executes, registers
<1>2. EngineInv'
  BY <1>1, EngineInvKept
<1>3. ASSUME NEW end \in Ends, InCall(end) PROVE CodeInv'
  BY <1>1, <1>3, EndOfCall, LoadMoves, CallGoesOn
<1>4. CASE Handling
  <2>1. PICK k \in 1..Len(Irq) : Rest = Left(Irq, k + 1, <<>>) /\ k = 1 /\ irq
    <3>1. PICK k \in 1..Len(Irq) :
            /\ Rest = Left(Irq, k + 1, <<>>)
            /\ IF k <= 2 THEN irq ELSE AtRest
            /\ code[1].op = IF k = 1 THEN "load" ELSE IF k = 2 THEN "store"
                            ELSE IF k = 3 /\ device.callback THEN "callback" ELSE "eret"
      BY <1>4, HandlerPlace DEF Handling
    <3>2. k = 1
      BY <1>1, <3>1
    <3> QED  BY <3>1, <3>2
  <2>2. Irq' = Irq /\ Len(Irq) \in {3, 4}
    BY <1>1, SameCalls, CallsAre
  <2>3. 2 \in 1..Len(Irq)
    BY <2>2
  <2>4. InHandler'
    BY <1>1, <2>1, <2>2, <2>3 DEF InHandler
  <2>5. Kept
    BY <1>1 DEF Kept, AtRest, Bounded, Busy
  <2> QED  BY <1>1, <1>2, <1>4, <2>4, <2>5, HandlingGoesOn DEF CodeInv
<1> QED  BY <1>1, <1>2, <1>3, <1>4, WhoExecutes

\* The engine starts at the first descriptor of a chain that is ready.
LEMMA StoreStartsChain ==
  ASSUME TypeOK, StoreControl, AtRest, ~Busy, Whole, ~irq',
         "RUN" \in Value /\ ~engine.ended => Ready(pointer) /\ Bounded(pointer)
  PROVE  EngineInv'
<1>1. CASE "RUN" \in Value /\ ~engine.ended
  <2>1. Starts
    BY <1>1 DEF Starts, AtRest
  <2>2. /\ engine'.running /\ ~engine'.ended /\ engine'.owned /\ engine'.next = <<pointer, 1>>
        /\ engine'.queue = <<>>
        /\ transfer' = [chain |-> pointer, processed |-> <<>>,
                        owed |-> device.callback /\ Interrupts \subseteq Value]
        /\ UNCHANGED <<own, pointer, length>>
    BY <1>1, <2>1, StoreIs DEF Busy
  <2>3. Done' = 0 /\ Ahead' = 0 /\ Last' = length[pointer] /\ transfer'.chain = pointer
        /\ transfer'.processed = <<>>
    BY <2>2, EmptySeq DEF Done, Ahead, Last
  <2>4. length[pointer] \in Nat /\ length[pointer] > 0
        /\ (\A i \in 1..length[pointer] : own[<<pointer, i>>])
        /\ ~own[<<pointer, length[pointer] + 1>>]
    <3>1. length[pointer] \in Nat
      BY Numbers DEF TypeOK
    <3> QED  BY <1>1, <3>1 DEF Ready, Bounded
  <2>5. <<>> = [i \in 1..0 |-> <<pointer, i>>] /\ <<>> = [i \in 1..0 |-> <<pointer, 0 + i>>]
    OBVIOUS
  <2>6. RunningInv'
    BY <2>2, <2>3, <2>4, <2>5 DEF RunningInv
  <2> QED  BY <2>2, <2>6 DEF EngineInv
<1>2. CASE ~("RUN" \in Value /\ ~engine.ended)
  <2>1. ~Starts
    BY <1>2 DEF Starts
  <2>2. /\ ~engine'.running /\ engine'.owned = engine.owned /\ engine'.queue = engine.queue
        /\ transfer' = transfer /\ length' = length
    BY <1>2, <2>1, StoreIs DEF TypeOK
  <2> QED  BY <2>2 DEF EngineInv, Busy, Whole
<1> QED  BY <1>1, <1>2

LEMMA StoreStep ==
  ASSUME TypeOK, EngineInv, CodeInv, StoreControl
  PROVE  EngineInv' /\ CodeInv'
<1>1. /\ code # <<>> /\ code[1].op = "store" /\ code' = Rest /\ program' = program /\ turns' = turns
  BY StoreIs
<1>2. ASSUME NEW end \in Ends, InCall(end) PROVE EngineInv' /\ CodeInv'
  <2>1. /\ At(code, end)' /\ AtRest /\ ~irq'
        /\ "RUN" \in Value /\ ~engine.ended => Ready(pointer) /\ Bounded(pointer)
    BY <1>2, EndOfCall, StoreMoves
  <2>2. ~Busy /\ Whole
    BY <2>1 DEF EngineInv, AtRest
  <2> QED  BY <1>1, <1>2, <2>1, <2>2, StoreStartsChain, CallGoesOn
<1>3. CASE Handling
  <2>1. PICK k \in 1..Len(Irq) :
          Rest = Left(Irq, k + 1, <<>>) /\ k = 2 /\ irq /\ code[1] = Irq[2]
    <3>1. PICK k \in 1..Len(Irq) :
            /\ Rest = Left(Irq, k + 1, <<>>) /\ code[1] = Irq[k]
            /\ IF k <= 2 THEN irq ELSE AtRest
            /\ code[1].op = IF k = 1 THEN "load" ELSE IF k = 2 THEN "store"
                            ELSE IF k = 3 /\ device.callback THEN "callback" ELSE "eret"
      BY <1>3, HandlerPlace DEF Handling
    <3>2. k = 2
      BY <1>1, <3>1
    <3> QED  BY <3>1, <3>2
  <2>2. "CLEAR_IRQ" \in Value
    BY <2>1, OtherAccesses DEF Value, This, Store
  <2>3. engine.ended /\ ~engine.running /\ ~Busy /\ Whole
    BY <2>1 DEF EngineInv, RunningInv
  <2>4. /\ ~irq' /\ ~engine'.running /\ engine'.owned = engine.owned /\ engine'.queue = engine.queue
        /\ transfer' = transfer
        /\ UNCHANGED <<own, pointer, completed, device, program, turns, length>>
    BY <2>2, <2>3, StoreIs DEF Starts
  <2>5. EngineInv'
    BY <2>3, <2>4 DEF EngineInv, Busy, Whole
  <2>6. Kept
    BY <2>1, <2>3, <2>4, StoreIs DEF Kept, AtRest, Bounded, Busy
  <2>7. Irq' = Irq /\ Len(Irq) \in {3, 4}
    BY <2>4, SameCalls, CallsAre
  <2>8. 3 \in 1..Len(Irq)
    BY <2>7
  <2>9. InHandler'
    BY <1>1, <2>1, <2>4, <2>7, <2>8 DEF InHandler, AtRest
  <2> QED  BY <1>1, <1>3, <2>5, <2>6, <2>9, HandlingGoesOn DEF CodeInv
<1> QED  BY <1>1, <1>2, <1>3, WhoExecutes

\* The callback finds the engine at rest and may prepare a chain and start it.
LEMMA CallbackStep ==
  ASSUME TypeOK, EngineInv, CodeInv, Callback
  PROVE  EngineInv' /\ CodeInv' /\ Whole /\ ~engine.running
<1>1. /\ code # <<>> /\ code[1].op = "callback" /\ program' = program
      /\ transfer'.chain = transfer.chain /\ transfer'.processed = transfer.processed
      /\ UNCHANGED <<own, control, pointer, completed, irq, engine, device, length>>
  BY DEF Callback, Executes, registers, TypeOK
<1>2. Handling
  BY <1>1, WhoExecutes
<1>3. EngineInv'
  BY <1>1, EngineInvKept
<1>4. PICK k \in 1..Len(Irq) :
        Rest = Left(Irq, 4, <<>>) /\ k = 3 /\ device.callback /\ AtRest
  <2>1. PICK k \in 1..Len(Irq) :
          /\ Rest = Left(Irq, k + 1, <<>>)
          /\ IF k <= 2 THEN irq ELSE AtRest
          /\ code[1].op = IF k = 1 THEN "load" ELSE IF k = 2 THEN "store"
                          ELSE IF k = 3 /\ device.callback THEN "callback" ELSE "eret"
    BY <1>2, HandlerPlace DEF Handling
  <2>2. k = 3 /\ device.callback
    BY <1>1, <2>1
  <2> QED  BY <2>1, <2>2
<1>5. Whole /\ ~engine.running
  BY <1>4 DEF EngineInv, AtRest
<1>6. Irq' = Irq /\ Irq \in Seq(Instructions) /\ <<>> \in Seq(Instructions) /\ Len(Irq) = 4
  BY <1>1, <1>4, SameCalls, CallsAre
<1>7. CASE turns = 0
  <2>1. code' = Rest /\ turns' = turns
    BY <1>7 DEF Callback
  <2>2. Kept
    BY <1>1, <2>1 DEF Kept, AtRest, Bounded, Busy
  <2>3. AtRest' /\ 4 \in 1..Len(Irq)
    BY <1>1, <1>4, <1>6 DEF AtRest
  <2>4. InHandler'
    BY <1>4, <1>6, <2>1, <2>3 DEF InHandler
  <2> QED  BY <1>1, <1>2, <1>3, <1>5, <2>2, <2>4, HandlingGoesOn DEF CodeInv
<1>8. CASE turns # 0
  <2>1. PICK c \in CallbackChains \ {transfer.chain}, n \in Lengths :
          turns' = turns - 1 /\ code' = Prepare(c, n) \o Rest
    BY <1>8 DEF Callback
  <2>2. turns = 1 /\ turns' = 0 /\ c \in Chains \ {transfer'.chain} /\ n \in Nat
    BY <1>1, <1>8, <2>1, Numbers DEF TypeOK, Chains
  <2>3. PICK left \in Seq(Instructions), l \in SUBSET Bits :
          program = <<[code |-> left, loaded |-> l]>> /\ At(left, <<>>)
    BY <1>2 DEF Handling
  <2>4. program # <<>>
    BY <2>3
  <2>5. left = <<>> /\ AllBounded
    <3>1. ~Alone(<<>>)
      BY <2>2, <2>4 DEF Alone
    <3>2. ~AtPrepare(left, <<>>)
      BY <3>1 DEF AtPrepare
    <3>3. ~AtTransfer(left, <<>>)
      BY <3>1 DEF AtTransfer
    <3>4. ~AtWait(left, <<>>) /\ ~AtStartOrStop(left, <<>>)
      BY <2>2, <2>4 DEF AtWait, AtStartOrStop
    <3> QED  BY <2>3, <3>2, <3>3, <3>4 DEF At
  <2>6. Rest = ThenReturn
    <3>1. /\ Rest \in Seq(Instructions) /\ Rest # <<>> /\ Rest[1] = Irq[4]
          /\ Tail(Rest) = Left(Irq, 4 + 1, <<>>)
      <4>1. PICK j \in 1..Len(Irq) : j = 4
        BY <1>6
      <4>2. /\ Left(Irq, j, <<>>) \in Seq(Instructions) /\ Left(Irq, j, <<>>) # <<>>
            /\ Left(Irq, j, <<>>)[1] = Irq[j] /\ Tail(Left(Irq, j, <<>>)) = Left(Irq, j + 1, <<>>)
        BY <1>6, LeftIs
      <4> QED  BY <1>4, <4>1, <4>2
    <3>2. Tail(Rest) = <<>>
      <4>1. Left(Irq, Len(Irq) + 1, <<>>) = <<>>
        BY <1>6, LeftEnds
      <4> QED  BY <1>6, <3>1, <4>1
    <3>3. Len(Rest) = 1
      <4>1. Len(Tail(Rest)) = Len(Rest) - 1 /\ Len(Rest) \in Nat
        BY <3>1, HeadTailProperties, LenProperties
      <4>2. Len(Tail(Rest)) = 0
        BY <1>6, <3>2, EmptySeq
      <4> QED  BY <4>1, <4>2
    <3>4. Rest[1] = [op |-> "eret"]
      BY <1>4, <3>1 DEF Irq
    <3>5. ThenReturn \in Seq(Instructions) /\ Len(ThenReturn) = 1 /\ ThenReturn[1] = [op |-> "eret"]
      BY CallsAre DEF ThenReturn
    <3>6. \A i \in 1..Len(Rest) : Rest[i] = ThenReturn[i]
      BY <3>3, <3>4, <3>5
    <3> QED  BY <3>1, <3>3, <3>5, <3>6, SeqEqual
  <2>7. code' = Left(Prepare(c, n), 1, ThenReturn)
    <3>1. Prepare(c, n) \in Seq(Instructions) /\ ThenReturn \in Seq(Instructions)
      BY <2>2, PrepareIs, CallsAre
    <3> QED  BY <2>1, <2>6, <3>1, LeftEnds
  <2>8. Alone(ThenReturn)' /\ 1 \in 1..(n + 1)
    BY <1>1, <1>4, <2>2 DEF Alone, AtRest
  <2>9. (\A b \in Chains \ {c} : Bounded(b))'
    BY <1>1, <2>5 DEF AllBounded, Bounded
  <2>10. \A j \in 1..(1 - 1) : own'[<<c, j>>]
    OBVIOUS
  <2>11. ThenReturn' = ThenReturn
    BY DEF ThenReturn
  <2>12. AtPrepare(code, ThenReturn)'
    BY <2>2, <2>7, <2>8, <2>9, <2>10, <2>11 DEF AtPrepare
  <2>13. program' = <<[code |-> <<>>, loaded |-> l]>> /\ l \in (SUBSET Bits)'
    BY <1>1, <2>3, <2>5 DEF Bits
  <2>14. InCall(ThenReturn)'
    BY <2>2, <2>12, <2>13, OtherAccesses DEF InCall, At
  <2> QED  BY <1>3, <1>5, <2>14 DEF CodeInv
<1> QED  BY <1>7, <1>8

\* The handler returns to the call that it has interrupted.
LEMMA EretStep ==
  ASSUME TypeOK, EngineInv, CodeInv, Eret
  PROVE  EngineInv' /\ CodeInv' /\ loaded' \in SUBSET Bits
<1>1. /\ code # <<>> /\ code[1].op = "eret"
      /\ code' = program[1].code /\ loaded' = program[1].loaded /\ program' = <<>>
      /\ UNCHANGED <<own, control, pointer, completed, irq, engine, device, turns, length, transfer>>
  BY DEF Eret, Executes, registers
<1>2. EngineInv'
  BY <1>1, EngineInvKept
<1>3. CASE Handling
  <2>1. PICK left \in Seq(Instructions), l \in SUBSET Bits :
          program = <<[code |-> left, loaded |-> l]>> /\ At(left, <<>>)
    BY <1>3 DEF Handling
  <2>2. Kept
    BY <1>1 DEF Kept, AtRest, Bounded, Busy
  <2>3. At(left, <<>>)'
    BY <2>1, <2>2, AtKept
  <2>4. code' = left /\ loaded' = l
    BY <1>1, <2>1
  <2>5. InCall(<<>>)'
    BY <1>1, <2>3, <2>4 DEF InCall
  <2> QED  BY <1>2, <2>1, <2>4, <2>5 DEF CodeInv
<1>4. CASE InCall(ThenReturn) /\ AllBounded
  <2>1. PICK l \in SUBSET Bits : program = <<[code |-> <<>>, loaded |-> l]>>
    BY <1>4, OtherAccesses DEF InCall
  <2>2. code' = <<>> /\ loaded' = l
    BY <1>1, <2>1
  <2>3. AllBounded'
    BY <1>1, <1>4 DEF AllBounded, Bounded
  <2>4. InCall(<<>>)'
    BY <1>1, <2>2, <2>3 DEF InCall, At
  <2> QED  BY <1>2, <2>2, <2>4 DEF CodeInv
<1> QED  BY <1>1, <1>3, <1>4, WhoExecutes

------------------------------------------------------------------------------
(* The program, between its calls.                                           *)

LEMMA BetweenCalls ==
  ASSUME TypeOK, CodeInv, code = <<>>
  PROVE  program = <<>> /\ AllBounded
<1>1. ~Handling
  BY HandlerPlace DEF Handling
<1>2. ASSUME NEW end \in Ends, InCall(end) PROVE code = end /\ AllBounded
  BY <1>2, PlaceOps DEF InCall
<1>3. ~InCall(ThenReturn)
  BY <1>2, OtherAccesses DEF Ends
<1>4. InCall(<<>>)
  BY <1>1, <1>3 DEF CodeInv
<1> QED  BY <1>2, <1>4 DEF InCall, Ends

\* A transfer with a callback that may start the next begins at rest.
LEMMA CallTransferStep ==
  ASSUME TypeOK, EngineInv, CodeInv, ~Overlap, CallTransfer
  PROVE  EngineInv' /\ CodeInv' /\ turns' \in {0, 1}
<1>1. /\ code = <<>> /\ ~irq
      /\ UNCHANGED <<own, control, pointer, completed, irq, engine, device, program, length, transfer>>
  BY DEF CallTransfer, registers
<1>2. program = <<>> /\ AllBounded
  BY <1>1, BetweenCalls
<1>3. EngineInv'
  BY <1>1, EngineInvKept
<1>4. PICK c \in ProgramChains \ {transfer.chain}, n \in Lengths :
        /\ code' = Prepare(c, n)
        /\ turns' \in IF device.callback /\ (Overlap \/ ~Outstanding) THEN {0, 1} ELSE {0}
  BY DEF CallTransfer
<1>5. turns' \in {0, 1} /\ (turns' = 1 => ~Outstanding)
  BY <1>4
<1>6. ~Outstanding => AtRest
  BY DEF Outstanding, Ending, AtRest
<1>7. Alone(<<>>)' /\ c \in Chains \ {transfer'.chain} /\ n \in Nat /\ 1 \in 1..(n + 1)
  BY <1>1, <1>2, <1>4, <1>5, <1>6, Numbers DEF Alone, AtRest, Chains
<1>8. code' = Left(Prepare(c, n), 1, <<>>)
  <2>1. Prepare(c, n) \in Seq(Instructions) /\ <<>> \in Seq(Instructions)
    BY <1>7, PrepareIs, CallsAre
  <2> QED  BY <1>4, <2>1, LeftEnds
<1>9. (\A b \in Chains \ {c} : Bounded(b))' /\ \A j \in 1..(1 - 1) : own'[<<c, j>>]
  BY <1>1, <1>2 DEF AllBounded, Bounded
<1>10. AtPrepare(code, <<>>)'
  BY <1>7, <1>8, <1>9 DEF AtPrepare
<1>11. InCall(<<>>)'
  BY <1>1, <1>2, <1>10 DEF InCall, At
<1> QED  BY <1>3, <1>5, <1>11 DEF CodeInv

LEMMA BetweenTransfers ==
  ASSUME TypeOK, EngineInv, CodeInv, RegisterCallback \/ StopOrStart
  PROVE  EngineInv' /\ CodeInv'
<1>1. /\ code = <<>> /\ ~Outstanding
      /\ UNCHANGED <<own, control, pointer, completed, irq, engine, program, turns, length, transfer>>
  BY DEF RegisterCallback, StopOrStart, registers
<1>2. program = <<>> /\ AllBounded
  BY <1>1, BetweenCalls
<1>3. EngineInv'
  BY <1>1, EngineInvKept
<1>4. AllBounded'
  BY <1>1, <1>2 DEF AllBounded, Bounded
<1>5. CASE RegisterCallback
  <2>1. code' = <<>>
    BY <1>1, <1>5 DEF RegisterCallback
  <2>2. InCall(<<>>)'
    BY <1>1, <1>2, <1>4, <2>1 DEF InCall, At
  <2> QED  BY <1>3, <2>2 DEF CodeInv
<1>6. CASE StopOrStart
  <2>1. AtRest'
    BY <1>1 DEF Outstanding, Ending, AtRest
  <2>2. \/ code' = StopEngine
        \/ code' = StartEngine /\ Ready(pointer)'
    BY <1>1, <1>6 DEF StopOrStart, Ready
  <2>3. \/ code' = Left(StopEngine', 1, <<>>)
        \/ code' = Left(StartEngine', 1, <<>>) /\ Ready(pointer)'
    <3>1. StartEngine \in Seq(Instructions) /\ StopEngine \in Seq(Instructions)
          /\ <<>> \in Seq(Instructions)
      BY CallsAre
    <3>2. Left(StopEngine, 1, <<>>) = StopEngine /\ Left(StartEngine, 1, <<>>) = StartEngine
      BY <3>1, LeftEnds
    <3>3. StartEngine' = StartEngine /\ StopEngine' = StopEngine
      BY DEF StartEngine, StopEngine, Load, Store, ClearRun
    <3> QED  BY <2>2, <3>2, <3>3
  <2>4. AtStartOrStop(code, <<>>)'
    BY <1>1, <1>2, <1>4, <2>1, <2>3 DEF AtStartOrStop
  <2>5. InCall(<<>>)'
    BY <1>1, <1>2, <2>4 DEF InCall, At
  <2> QED  BY <1>3, <2>5 DEF CodeInv
<1> QED  BY <1>5, <1>6

------------------------------------------------------------------------------
(* The theorems.                                                             *)

LEMMA TypeKept ==
  ASSUME TypeOK, EngineInv, CodeInv, ~Overlap, [Next]_vars
  PROVE  TypeOK'
<1>1. /\ own \in [Descriptors -> BOOLEAN]
      /\ control \in SUBSET Bits /\ pointer \in Chains /\ completed \in BOOLEAN /\ irq \in BOOLEAN
      /\ engine \in [running : BOOLEAN, ended : BOOLEAN, owned : BOOLEAN, next : Descriptors,
                     queue : Seq(Descriptors), written : BOOLEAN]
      /\ device \in [callback : BOOLEAN, chainControl : SUBSET Bits]
      /\ loaded \in SUBSET Bits /\ turns \in {0, 1}
      /\ length \in [Chains -> Lengths \cup {0}]
      /\ transfer \in [chain : Chains, processed : Seq(Descriptors), owed : BOOLEAN]
  BY DEF TypeOK
<1>2. \A d \in Descriptors : After(d) \in Descriptors
  BY Numbers DEF Descriptors
<1>3. CASE Interrupt \/ RejectBusy \/ AwaitIdle \/ StopOrStart
  BY <1>1, <1>3 DEF Interrupt, RejectBusy, AwaitIdle, StopOrStart, TypeOK, registers, Descriptors, Bits
<1>4. CASE Built
  <2>1. This.chain \in Chains /\ This.length \in Lengths
    <3>1. PICK end \in Ends : InCall(end)
      BY <1>4, WhoExecutes DEF Built, Executes
    <3> QED  BY <1>4, <3>1, EndOfCall, BuiltMoves
  <2> QED  BY <1>1, <1>4, <2>1 DEF Built, TypeOK, registers, Descriptors, Bits
<1>5. CASE ConstructDescriptor
  BY <1>1, <1>5 DEF ConstructDescriptor, TypeOK, registers, Descriptors, Bits
<1>6. CASE LoadControl
  BY <1>1, <1>6 DEF LoadControl, TypeOK, registers, Descriptors, Bits
<1>7. CASE ClearStatus
  BY <1>1, <1>7 DEF ClearStatus, TypeOK, Descriptors, Bits
<1>8. CASE Point
  <2>1. This.chain \in Chains
    <3>1. PICK end \in Ends : InCall(end)
      BY <1>8, WhoExecutes DEF Point, Executes
    <3> QED  BY <1>8, <3>1, EndOfCall, PointMoves
  <2> QED  BY <1>1, <1>8, <2>1 DEF Point, TypeOK, Descriptors, Bits
<1>9. CASE Callback
  <2>1. turns' \in {0, 1}
    BY <1>1, <1>9 DEF Callback
  <2> QED  BY <1>1, <1>9, <2>1 DEF Callback, TypeOK, registers, Descriptors, Bits
<1>10. CASE Eret
  <2>1. loaded' \in SUBSET Bits
    BY <1>10, EretStep
  <2> QED  BY <1>1, <1>10, <2>1 DEF Eret, TypeOK, registers, Descriptors, Bits
<1>11. CASE CallTransfer
  <2>1. turns' \in {0, 1}
    BY <1>11, CallTransferStep
  <2> QED  BY <1>1, <1>11, <2>1 DEF CallTransfer, TypeOK, registers, Descriptors, Bits
<1>12. CASE RegisterCallback
  <2>1. device' \in [callback : BOOLEAN, chainControl : SUBSET Bits]
    <3>1. CASE device' = [callback |-> FALSE, chainControl |-> {}]
      BY <3>1
    <3>2. ASSUME NEW park \in SUBSET {"PARK"},
                 device' = [callback |-> TRUE, chainControl |-> Interrupts \cup park]
          PROVE  device' \in [callback : BOOLEAN, chainControl : SUBSET Bits]
      <4>1. Interrupts \cup park \in SUBSET Bits
        BY DEF Interrupts, Bits
      <4> QED  BY <3>2, <4>1
    <3> QED  BY <1>12, <3>1, <3>2 DEF RegisterCallback
  <2> QED  BY <1>1, <1>12, <2>1 DEF RegisterCallback, TypeOK, registers, Descriptors, Bits
<1>13. CASE Fetch
  <2>1. After(engine.next) \in Descriptors /\ Append(engine.queue, engine.next) \in Seq(Descriptors)
        /\ own[engine.next] \in BOOLEAN
    BY <1>1, <1>2, AppendProperties
  <2>2. engine' \in [running : BOOLEAN, ended : BOOLEAN, owned : BOOLEAN, next : Descriptors,
                     queue : Seq(Descriptors), written : BOOLEAN]
    BY <1>1, <1>13, <2>1 DEF Fetch
  <2> QED  BY <1>1, <1>13, <2>2 DEF Fetch, TypeOK, registers, processor, Descriptors, Bits
<1>14. CASE WriteBack
  <2>1. Tail(engine.queue) \in Seq(Descriptors) /\ engine.queue[1] \in Descriptors
    BY <1>1, <1>14, HeadTailProperties DEF WriteBack
  <2>2. Append(transfer.processed, engine.queue[1]) \in Seq(Descriptors)
    BY <1>1, <2>1, AppendProperties
  <2>3. transfer' \in [chain : Chains, processed : Seq(Descriptors), owed : BOOLEAN]
    BY <1>1, <1>14, <2>2 DEF WriteBack
  <2>4. engine' \in [running : BOOLEAN, ended : BOOLEAN, owned : BOOLEAN, next : Descriptors,
                     queue : Seq(Descriptors), written : BOOLEAN]
    BY <1>1, <1>14, <2>1 DEF WriteBack
  <2>5. own' \in [Descriptors -> BOOLEAN]
    BY <1>1, <1>14 DEF WriteBack
  <2> QED  BY <1>1, <1>14, <2>3, <2>4, <2>5 DEF WriteBack, TypeOK, registers, processor, Descriptors, Bits
<1>15. CASE EndChain
  <2>1. engine' \in [running : BOOLEAN, ended : BOOLEAN, owned : BOOLEAN, next : Descriptors,
                     queue : Seq(Descriptors), written : BOOLEAN]
    BY <1>1, <1>15 DEF EndChain
  <2> QED  BY <1>1, <1>15, <2>1 DEF EndChain, TypeOK, processor, Descriptors, Bits
<1>16. CASE StoreControl
  <2>1. Value \in SUBSET Bits
    <3>1. This.set \in SUBSET Bits
      <4>1. code \in Seq(Instructions) /\ code # <<>> /\ code[1].op = "store"
        BY <1>16, CodeIs, StoreIs
      <4>2. code[1] \in Instructions
        BY <4>1, HeadTailProperties
      <4>3. code[1] \in [op : {"store"}, set : SUBSET Bits, clear : SUBSET Bits]
        BY <4>1, <4>2 DEF Instructions
      <4> QED  BY <4>3 DEF This
    <3> QED  BY <1>1, <3>1 DEF Value
  <2>2. <<pointer, 1>> \in Descriptors
    <3>1. 1 \in 1..ArraySize
      BY SgdmaAssumption
    <3> QED  BY <1>1, <3>1, Numbers
  <2>3. engine' \in [running : BOOLEAN, ended : BOOLEAN, owned : BOOLEAN, next : Descriptors,
                     queue : Seq(Descriptors), written : BOOLEAN]
    BY <1>1, <1>16, <2>2 DEF StoreControl
  <2>4. transfer' \in [chain : Chains, processed : Seq(Descriptors), owed : BOOLEAN]
    <3>1. <<>> \in Seq(Descriptors)
      OBVIOUS
    <3>2. (device.callback /\ Interrupts \subseteq Value) \in BOOLEAN
      BY <1>1
    <3>3. transfer' = transfer \/ transfer' = [chain |-> pointer, processed |-> <<>>,
                                owed |-> device.callback /\ Interrupts \subseteq Value]
      BY <1>16, StoreIs
    <3>4. [chain |-> pointer, processed |-> <<>>, owed |-> device.callback /\ Interrupts \subseteq Value]
            \in [chain : Chains, processed : Seq(Descriptors), owed : BOOLEAN]
      BY <1>1, <3>1, <3>2
    <3> QED  BY <1>1, <3>3, <3>4
  <2>5. control' \in SUBSET Bits /\ irq' \in BOOLEAN /\ loaded' \in SUBSET Bits
    BY <1>1, <1>16, <2>1, StoreIs
  <2> QED  BY <1>1, <1>16, <2>3, <2>4, <2>5, StoreIs DEF TypeOK, Descriptors, Bits
<1>17. CASE UNCHANGED vars
  BY <1>1, <1>17 DEF vars, TypeOK, registers, processor, Descriptors, Bits
<1> QED
  BY <1>3, <1>4, <1>5, <1>6, <1>7, <1>8, <1>9, <1>10, <1>11, <1>12, <1>13, <1>14, <1>15, <1>16, <1>17
  DEF Next, Processor, Engine, Program

\* At first nothing runs, and no chain has been constructed.
LEMMA InitSgdmaInv ==
  ASSUME Init
  PROVE  SgdmaInv
<1>1. TypeOK
  <2>1. \A d \in ProgramChains : <<d, 1>> \in Descriptors
    <3>1. 1 \in 1..ArraySize
      BY SgdmaAssumption
    <3> QED  BY <3>1 DEF Descriptors, Chains
  <2>2. own \in [Descriptors -> BOOLEAN] /\ pointer \in ProgramChains
    BY DEF Init
  <2>3. engine \in [running : BOOLEAN, ended : BOOLEAN, owned : BOOLEAN, next : Descriptors,
                    queue : Seq(Descriptors), written : BOOLEAN]
    BY <2>1, <2>2 DEF Init
  <2>4. device \in [callback : BOOLEAN, chainControl : SUBSET Bits]
    BY DEF Init
  <2>5. transfer \in [chain : Chains, processed : Seq(Descriptors), owed : BOOLEAN]
    BY <2>2 DEF Init, Chains
  <2> QED  BY <2>2, <2>3, <2>4, <2>5 DEF Init, TypeOK, Chains
<1>2. EngineInv
  <2>1. length[transfer.chain] = 0 /\ transfer.processed = <<>> /\ ~engine.running /\ ~irq
        /\ ~engine.owned /\ engine.queue = <<>>
    BY DEF Init, Chains
  <2>2. <<>> = [i \in 1..0 |-> <<transfer.chain, i>>]
    OBVIOUS
  <2>3. Whole
    BY <2>1, <2>2 DEF Whole
  <2> QED  BY <2>1, <2>3 DEF EngineInv, Busy
<1>3. CodeInv
  <2>1. AllBounded
    BY DEF Init, AllBounded, Bounded
  <2> QED  BY <2>1 DEF Init, CodeInv, InCall, At
<1> QED  BY <1>1, <1>2, <1>3 DEF SgdmaInv

\* One case for each action.
LEMMA StepSgdmaInv ==
  ASSUME SgdmaInv, ~Overlap, [Next]_vars
  PROVE  SgdmaInv'
<1> USE DEF SgdmaInv
<1>1. TypeOK'
  BY TypeKept
<1>2. CASE Interrupt
  BY <1>1, <1>2, InterruptStep
<1>3. CASE Built \/ ConstructDescriptor \/ RejectBusy \/ AwaitIdle \/ ClearStatus \/ Point
  BY <1>1, <1>3, CallSteps
<1>4. CASE LoadControl
  BY <1>1, <1>4, LoadStep
<1>5. CASE StoreControl
  BY <1>1, <1>5, StoreStep
<1>6. CASE Callback
  BY <1>1, <1>6, CallbackStep
<1>7. CASE Eret
  BY <1>1, <1>7, EretStep
<1>8. CASE Engine
  BY <1>1, <1>8, EngineSteps
<1>9. CASE CallTransfer
  BY <1>1, <1>9, CallTransferStep
<1>10. CASE RegisterCallback \/ StopOrStart
  BY <1>1, <1>10, BetweenTransfers
<1>11. CASE UNCHANGED vars
  <2>1. UNCHANGED <<own, control, pointer, completed, irq, engine, device, code, program, turns,
                    length, transfer>>
    BY <1>11 DEF vars, registers, processor
  <2>2. EngineInv'
    BY <2>1, EngineInvKept
  <2>3. Kept
    BY <2>1 DEF Kept, AtRest, Bounded, Busy
  <2>4. CodeInv'
    BY <2>1, <2>3, StandsStill
  <2> QED  BY <1>1, <2>2, <2>4
<1> QED
  BY <1>2, <1>3, <1>4, <1>5, <1>6, <1>7, <1>8, <1>9, <1>10, <1>11 DEF Next, Processor, Program

\* While the program leaves the engine to a callback that starts transfers,
\* the inductive invariant holds in every reachable state.
THEOREM SgdmaInvariantHolds ==
  ASSUME ~Overlap
  PROVE  Spec => []SgdmaInv
<1>1. Init => SgdmaInv
  BY InitSgdmaInv
<1>2. SgdmaInv /\ [Next]_vars => SgdmaInv'
  BY StepSgdmaInv
<1> QED  BY <1>1, <1>2, PTL DEF Spec

\* A callback is on its way only when its chain has been processed, and the
\* last access of a blocking transfer is made only after that; while the engine
\* runs, the last descriptor of its chain is the last to be written back.
LEMMA InvToldWhenWhole ==
  ASSUME SgdmaInv
  PROVE  ToldWhenWhole
<1> USE DEF SgdmaInv
<1>1. ASSUME Executing("callback") PROVE Whole
  <2>1. Handling
    BY <1>1, WhoExecutes DEF Executing
  <2>2. AtRest
    <3>1. PICK k \in 1..Len(Irq) :
            /\ IF k <= 2 THEN irq ELSE AtRest
            /\ code[1].op = IF k = 1 THEN "load" ELSE IF k = 2 THEN "store"
                            ELSE IF k = 3 /\ device.callback THEN "callback" ELSE "eret"
      BY <2>1, HandlerPlace DEF Handling
    <3> QED  BY <1>1, <3>1 DEF Executing
  <2> QED  BY <2>2 DEF EngineInv, AtRest
<1>2. ASSUME Executing("return_status") PROVE Whole /\ completed
  <2>1. PICK end \in Ends : InCall(end)
    BY <1>2, WhoExecutes DEF Executing
  <2>2. AtWait(code, end)
    BY <1>2, <2>1, PlaceOps DEF Executing, InCall
  <2>3. PICK c \in Chains, k \in 8..11 : code = Left(SyncTransfer(c), k, <<>>) /\ WaitInv(k)
    BY <2>2 DEF AtWait
  <2>4. k = 11
    BY <1>2, <2>3, WaitPlace DEF Executing
  <2> QED  BY <2>3, <2>4 DEF WaitInv, EngineInv
<1>3. ASSUME engine.running, CheckDescriptorStatus(<<transfer.chain, length[transfer.chain]>>) = "0"
      PROVE  Whole
  <2>1. /\ RunningInv /\ Done \in Nat /\ Ahead \in Nat /\ Last \in 1..(ArraySize - 1)
    BY <1>3, WhileRunning
  <2>2. ~own[<<transfer.chain, Last>>]
    BY <1>3 DEF CheckDescriptorStatus, Last
  <2>3. Done = Last
    <3>1. Last \notin (Done + 1)..Last
      BY <2>1, <2>2 DEF RunningInv
    <3> QED  BY <2>1, <3>1 DEF RunningInv
  <2> QED  BY <2>1, <2>3 DEF RunningInv, Whole, Last
<1> QED  BY <1>1, <1>2, <1>3 DEF ToldWhenWhole

\* Whoever is told that a transfer is over finds its chain processed whole, for
\* any arrays, lengths and FIFOs (altera_avalon_sgdma.c:213-226, 518-538,
\* 750-754).
THEOREM ToldCorrectly ==
  ASSUME ~Overlap
  PROVE  Spec => []ToldWhenWhole
<1>1. SgdmaInv => ToldWhenWhole
  BY InvToldWhenWhole
<1> QED  BY <1>1, SgdmaInvariantHolds, PTL

\* The engine is pointed at a chain only while it neither runs nor has anything
\* left of another (altera_avalon_sgdma.c:63-65, 166-168).
THEOREM PointedWhenIdle ==
  ASSUME ~Overlap
  PROVE  Spec => StartsOnlyWhenIdle
<1>1. ASSUME SgdmaInv, [Next]_vars
      PROVE  [pointer' # pointer => ~engine.running /\ ~Busy]_vars
  <2>1. SUFFICES ASSUME pointer' # pointer PROVE ~engine.running /\ ~Busy
    OBVIOUS
  <2>2. Point
    BY <1>1, <2>1, StoreIs DEF Next, Processor, Engine, Program, Interrupt, Built,
       ConstructDescriptor, RejectBusy, AwaitIdle, LoadControl, ClearStatus, Callback, Eret, Fetch,
       WriteBack, EndChain, CallTransfer, RegisterCallback, StopOrStart, vars, registers, SgdmaInv
  <2>3. PICK end \in Ends : InCall(end)
    BY <1>1, <2>2, WhoExecutes DEF Point, Executes, SgdmaInv
  <2>4. AtRest
    BY <1>1, <2>2, <2>3, EndOfCall, PointMoves DEF SgdmaInv
  <2> QED  BY <1>1, <2>4 DEF SgdmaInv, EngineInv, AtRest
<1> QED  BY <1>1, SgdmaInvariantHolds, PTL DEF Spec, StartsOnlyWhenIdle

==============================================================================
