--------------------------- MODULE JtagUartProofs ---------------------------
(* Theorems about the JTAG UART driver, for buffers and FIFOs of any length, *)
(* any number of calls of any length and any timeout.                        *)
EXTENDS JtagUart, SequenceTheorems, TLAPS

-----------------------------------------------------------------------------
(* Indices into a ring. *)

\* A remainder within one multiple of the modulus.
LEMMA Remainder ==
  ASSUME NEW m \in Nat, m > 0, NEW k \in 0 .. 2 * m - 1
  PROVE  k % m = IF k < m THEN k ELSE k - m
OBVIOUS

\* The place some places further on, within one round.
LEMMA Further ==
  ASSUME NEW i \in Slots, NEW k \in Nat, i + k <= BufLen
  PROVE  /\ (i + k) % BufLen = IF i + k = BufLen THEN 0 ELSE i + k
         /\ (i + k) % BufLen \in Slots
<1>1. i \in Nat /\ i + k \in 0 .. 2 * BufLen - 1 /\ BufLen \in Nat /\ BufLen > 0
  BY JtagAssumption DEF Slots
<1>2. (i + k) % BufLen = IF i + k < BufLen THEN i + k ELSE i + k - BufLen
  BY <1>1, Remainder
<1> QED  BY <1>1, <1>2 DEF Slots

\* The next place.
LEMMA NextPlace ==
  ASSUME NEW i \in Slots
  PROVE  Succ(i) = (IF i + 1 = BufLen THEN 0 ELSE i + 1) /\ Succ(i) \in Slots /\ Succ(i) # i
<1>1. i \in Nat /\ i + 1 <= BufLen /\ BufLen \in Nat /\ BufLen > 1
  BY JtagAssumption DEF Slots
<1>2. Succ(i) = (IF i + 1 = BufLen THEN 0 ELSE i + 1) /\ Succ(i) \in Slots
  BY <1>1, Further DEF Succ
<1> QED  BY <1>1, <1>2

\* How many places are in use.
LEMMA InUse ==
  ASSUME NEW i \in Slots, NEW j \in Slots
  PROVE  /\ Used(i, j) = IF j >= i THEN j - i ELSE j - i + BufLen
         /\ Used(i, j) \in 0 .. BufLen - 1
         /\ i = j <=> Used(i, j) = 0
<1>1. i \in Nat /\ j \in Nat /\ j - i + BufLen \in 0 .. 2 * BufLen - 1 /\ BufLen \in Nat /\ BufLen > 0
  BY JtagAssumption DEF Slots
<1>2. Used(i, j) = IF j - i + BufLen < BufLen THEN j - i + BufLen ELSE j - i + BufLen - BufLen
  BY <1>1, Remainder DEF Used
<1>3. i < BufLen /\ j < BufLen  BY JtagAssumption DEF Slots
<1> QED  BY <1>1, <1>2, <1>3

\* Some places more are in use after a writer has gone over them, up to the one that
\* has to stay free.
LEMMA UsedMore ==
  ASSUME NEW i \in Slots, NEW j \in Slots, NEW k \in Nat, j + k <= BufLen, Used(i, j) + k < BufLen
  PROVE  Used(i, (j + k) % BufLen) = Used(i, j) + k
<1> DEFINE m == (j + k) % BufLen
<1>1. m = (IF j + k = BufLen THEN 0 ELSE j + k) /\ m \in Slots
  BY Further
<1>2. /\ Used(i, j) = IF j >= i THEN j - i ELSE j - i + BufLen
      /\ Used(i, m) = IF m >= i THEN m - i ELSE m - i + BufLen
  BY <1>1, InUse
<1>3. i \in 0 .. BufLen - 1 /\ j \in 0 .. BufLen - 1 /\ BufLen \in Nat
  BY JtagAssumption DEF Slots
<1> HIDE DEF m
<1>4. Used(i, m) = Used(i, j) + k
  BY <1>1, <1>2, <1>3
<1> QED  BY <1>4 DEF m

\* So many are not any more after a reader has.
LEMMA UsedLess ==
  ASSUME NEW i \in Slots, NEW j \in Slots, NEW k \in Nat, i + k <= BufLen, k <= Used(i, j)
  PROVE  Used((i + k) % BufLen, j) = Used(i, j) - k
<1> DEFINE m == (i + k) % BufLen
<1>1. m = (IF i + k = BufLen THEN 0 ELSE i + k) /\ m \in Slots
  BY Further
<1>2. /\ Used(i, j) = IF j >= i THEN j - i ELSE j - i + BufLen
      /\ Used(m, j) = IF j >= m THEN j - m ELSE j - m + BufLen
  BY <1>1, InUse
<1>3. i \in 0 .. BufLen - 1 /\ j \in 0 .. BufLen - 1 /\ BufLen \in Nat
  BY JtagAssumption DEF Slots
<1> HIDE DEF m
<1>4. Used(m, j) = Used(i, j) - k
  BY <1>1, <1>2, <1>3
<1> QED  BY <1>4 DEF m

\* The two for one place.
LEMMA UsedNext ==
  ASSUME NEW i \in Slots, NEW j \in Slots
  PROVE  /\ Succ(j) # i => Used(i, Succ(j)) = Used(i, j) + 1
         /\ i # j => Used(Succ(i), j) = Used(i, j) - 1
<1>1. i \in 0 .. BufLen - 1 /\ j \in 0 .. BufLen - 1 /\ BufLen \in Nat
  BY JtagAssumption DEF Slots
<1>2. ASSUME Succ(j) # i  PROVE  Used(i, Succ(j)) = Used(i, j) + 1
  <2>1. Used(i, j) + 1 < BufLen
    <3>1. Used(i, j) = IF j >= i THEN j - i ELSE j - i + BufLen  BY InUse
    <3>2. Succ(j) = IF j + 1 = BufLen THEN 0 ELSE j + 1  BY NextPlace
    <3> QED  BY <1>1, <1>2, <3>1, <3>2
  <2> QED  BY <1>1, <2>1, UsedMore DEF Succ
<1>3. ASSUME i # j  PROVE  Used(Succ(i), j) = Used(i, j) - 1
  <2>1. 1 <= Used(i, j)
    BY <1>1, <1>3, InUse
  <2> QED  BY <1>1, <2>1, UsedLess DEF Succ
<1> QED  BY <1>2, <1>3

\* The places in use are those between the ends, in one piece or in two.
LEMMA PlacesInUse ==
  ASSUME NEW i \in Slots, NEW j \in Slots, NEW k \in 1 .. BufLen, k <= Used(i, j), i + k <= BufLen
  PROVE  i + k - 1 \in Slots /\ i + k - 1 # j
<1>1. i \in 0 .. BufLen - 1 /\ j \in 0 .. BufLen - 1 /\ BufLen \in Nat
  BY JtagAssumption DEF Slots
<1>2. Used(i, j) = IF j >= i THEN j - i ELSE j - i + BufLen
  BY InUse
<1> QED  BY <1>1, <1>2 DEF Slots

-----------------------------------------------------------------------------
(* What a step keeps. *)

\* A character the host types has a number, and so has one that it is given.
LEMMA Numbers ==
  /\ Serials \subseteq Nat /\ 0 .. MaxTyped \subseteq Serials
  /\ \A k \in Nat : k <= MaxCalls * MaxCall => k \in Serials
<1>1. MaxCalls * MaxCall \in Nat  BY JtagAssumption
<1> QED  BY <1>1, JtagAssumption DEF Serials

\* The indices and lengths are numbers, within their bounds.
LEMMA Bounds ==
  ASSUME TypeOK
  PROVE  /\ BufLen \in Nat /\ BufLen > 1 /\ FifoLen \in Nat /\ MaxCall \in Nat
         /\ rxIn \in 0 .. BufLen - 1 /\ rxOut \in 0 .. BufLen - 1
         /\ txIn \in 0 .. BufLen - 1 /\ txOut \in 0 .. BufLen - 1
         /\ req \in Nat /\ req <= MaxCall /\ cnt \in Nat /\ cnt <= req /\ n \in Nat /\ n <= req
         /\ Used(rxOut, rxIn) \in 0 .. BufLen - 1 /\ Used(txOut, txIn) \in 0 .. BufLen - 1
<1>1. Used(rxOut, rxIn) \in 0 .. BufLen - 1 /\ Used(txOut, txIn) \in 0 .. BufLen - 1
  BY InUse DEF TypeOK
<1> QED  BY <1>1, JtagAssumption DEF TypeOK, Slots

\* The UART, the host and the alarm.
LEMMA HostKeeps ==
  ASSUME NoLostWakeup, HostSend \/ HostPause \/ HostReceive \/ HostComesOrGoes \/ Alarm
  PROVE  NoLostWakeup'
<1>0. TypeOK /\ RoutineInv /\ ReadInv /\ WriteInv /\ NumbersInv /\ Wakeups
  BY DEF NoLostWakeup, Wakeups
<1>1. UNCHANGED <<irqEnable, rx, tx, routine, call, printed, callsLeft>>
  BY DEF HostSend, HostPause, HostReceive, HostComesOrGoes, Alarm, host
<1>2. ReadInv' /\ WriteInv' /\ NumbersInv' /\ Wakeups'
  BY <1>0, <1>1 DEF ReadInv, WriteInv, NumbersInv, Wakeups, Reading, Writing, rx, tx, routine, call
<1>3. TypeOK'
  <2>1. CASE HostSend
    <3>1. typed \in Serials /\ typed + 1 \in 0 .. MaxTyped
      BY <1>0, <2>1, Numbers, JtagAssumption DEF HostSend, TypeOK
    <3>2. rfifo' \in Seq(Serials) /\ Len(rfifo') <= FifoLen
      BY <1>0, <2>1, <3>1, JtagAssumption DEF HostSend, TypeOK
    <3> QED  BY <1>0, <1>1, <2>1, <3>1, <3>2 DEF HostSend, TypeOK, Reading, Writing, rx, tx, watch,
          routine, call
  <2>2. CASE HostPause \/ HostComesOrGoes
    <3>1. pause' \in BOOLEAN /\ ac' \in BOOLEAN /\ connected' \in BOOLEAN
      <4>1. pause \in BOOLEAN /\ ac \in BOOLEAN /\ connected \in BOOLEAN
        BY <1>0 DEF TypeOK
      <4>2. CASE HostPause
        <5>1. pause' = (pause \/ rfifo # <<>>) /\ ac' = TRUE /\ connected' = connected
          BY <4>2 DEF HostPause, host
        <5> QED  BY <4>1, <5>1, Zenon
      <4>3. CASE HostComesOrGoes
        <5>1. pause' = pause /\ ac' = ac /\ connected' = ~connected
          BY <4>3 DEF HostComesOrGoes, uart
        <5> QED  BY <4>1, <5>1, Zenon
      <4> QED  BY <2>2, <4>2, <4>3
    <3>2. UNCHANGED <<rfifo, wfifo, watch, typed>>
      BY <2>2 DEF HostPause, HostComesOrGoes, uart, host
    <3> QED  BY <1>0, <1>1, <3>1, <3>2 DEF TypeOK, Reading, Writing, rx, tx, watch, routine, call
  <2>3. CASE HostReceive
    <3>1. wfifo' \in Seq(Serials) /\ Len(wfifo') <= FifoLen
      BY <1>0, <2>3, JtagAssumption DEF HostReceive, TypeOK
    <3> QED  BY <1>0, <1>1, <2>3, <3>1 DEF HostReceive, TypeOK, Reading, Writing, rx, tx, watch,
          routine, call, host
  <2>4. CASE Alarm
    <3>1. hostInactive' \in 0 .. (IntMax - 2)
      BY <1>0, <2>4, JtagAssumption DEF Alarm, TypeOK
    <3> QED  BY <1>0, <1>1, <2>4, <3>1 DEF Alarm, TypeOK, Reading, Writing, rx, tx, routine, call, host
  <2> QED  BY <2>1, <2>2, <2>3, <2>4
<1>4. RoutineInv'
  <2>1. CASE HostSend
    <3>1. rfifo' # <<>>
      BY <1>0, <2>1 DEF HostSend, TypeOK
    <3> QED  BY <1>0, <1>1, <2>1, <3>1 DEF HostSend, RoutineInv, rx, routine
  <2>2. CASE HostPause \/ HostComesOrGoes \/ Alarm
    <3>1. pause' => rfifo' # <<>>
      <4>1. CASE HostPause
        <5>1. pause' = (pause \/ rfifo # <<>>) /\ rfifo' = rfifo
          BY <4>1 DEF HostPause
        <5> QED  BY <1>0, <5>1, Zenon DEF RoutineInv
      <4>2. CASE HostComesOrGoes \/ Alarm
        BY <1>0, <4>2 DEF HostComesOrGoes, Alarm, RoutineInv, uart
      <4> QED  BY <2>2, <4>1, <4>2
    <3>2. rfifo' = rfifo /\ wfifo' = wfifo
      BY <2>2 DEF HostPause, HostComesOrGoes, Alarm, uart
    <3> QED  BY <1>0, <1>1, <3>1, <3>2 DEF RoutineInv, rx, routine
  <2>3. CASE HostReceive
    <3>1. Len(wfifo') <= Len(wfifo) /\ Len(wfifo') \in Nat /\ Len(wfifo) \in Nat
      BY <1>0, <2>3, JtagAssumption DEF HostReceive, TypeOK
    <3> QED  BY <1>0, <1>1, <2>3, <3>1, JtagAssumption DEF HostReceive, RoutineInv, TypeOK, rx, routine
  <2> QED  BY <2>1, <2>2, <2>3
<1> QED  BY <1>2, <1>3, <1>4 DEF NoLostWakeup, Wakeups

\* The interrupt routine.
LEMMA IsrKeeps ==
  ASSUME NoLostWakeup, Isr
  PROVE  NoLostWakeup'
<1>0. TypeOK /\ RoutineInv /\ ReadInv /\ WriteInv /\ NumbersInv /\ Wakeups
  BY DEF NoLostWakeup, Wakeups
<1>1. UNCHANGED <<watch, call, connected, printed, callsLeft, rxOut, txIn, txBuf>>
  BY DEF Isr, Interrupt, IsrControl, IsrRxFull, IsrRxRead, IsrRxEmpty, IsrRxLate, IsrRxMask,
         IsrTxWrite, IsrTxDone, rx, tx, host
<1>2. NumbersInv'
  BY <1>0, <1>1 DEF NumbersInv, Writing, call
<1>3. ASSUME UNCHANGED <<uart, rx, tx, typed>>, irqEnable' \subseteq {"RE", "WE"},
             isr' \in {"off", "control", "rx", "rxmask", "tx"}, wi' \in BOOLEAN,
             space' \in 0 .. FifoLen, avail' \in BOOLEAN
      PROVE  TypeOK' /\ ReadInv' /\ WriteInv'
  <2>1. TypeOK'
    BY <1>0, <1>1, <1>3 DEF TypeOK, Reading, Writing, uart, rx, tx, watch, call
  <2>2. ReadInv' /\ WriteInv'
    BY <1>0, <1>1, <1>3 DEF ReadInv, WriteInv, Reading, Writing, rx, tx, call
  <2> QED  BY <2>1, <2>2
<1>4. CASE Interrupt
  <2>1. TypeOK' /\ ReadInv' /\ WriteInv'
    BY <1>0, <1>3, <1>4 DEF Interrupt, TypeOK, host
  <2>2. RoutineInv'
    BY <1>0, <1>4 DEF Interrupt, RoutineInv, TypeOK, uart, rx
  <2>3. Wakeups'
    BY <1>0, <1>1, <1>4 DEF Interrupt, Wakeups, rx, tx, call, Reading
  <2> QED  BY <1>2, <2>1, <2>2, <2>3 DEF NoLostWakeup, Wakeups
<1>5. CASE IsrControl
  <2>1. TypeOK' /\ ReadInv' /\ WriteInv'
    <3>1. wi' \in BOOLEAN /\ avail' \in BOOLEAN
      <4>1. RI \in BOOLEAN /\ WI \in BOOLEAN  BY Zenon DEF RI, WI
      <4> QED  BY <1>5, <4>1, Zenon DEF IsrControl
    <3>2. space' \in 0 .. FifoLen
      BY <1>0, <1>5, JtagAssumption DEF IsrControl, TypeOK
    <3> QED  BY <1>0, <1>3, <1>5, <3>1, <3>2 DEF IsrControl, TypeOK, host
  <2>2. RoutineInv'
    <3>1. isr' = "rx" => rfifo # <<>>
      <4>1. RI => rfifo # <<>>
        BY <1>0, JtagAssumption DEF RI, RoutineInv, TypeOK
      <4> QED  BY <1>5, <4>1 DEF IsrControl
    <3>2. isr' = "tx" => wi'
      BY <1>5 DEF IsrControl
    <3>3. wi' => space' + Len(wfifo) <= FifoLen
      <4>1. wi' => space' = FifoLen - Len(wfifo)
        BY <1>5 DEF IsrControl
      <4> QED  BY <1>0, <4>1, JtagAssumption DEF TypeOK
    <3>4. UNCHANGED <<rfifo, wfifo, pause>> /\ isr' # "rxmask"
      BY <1>5 DEF IsrControl, uart
    <3> QED  BY <1>0, <3>1, <3>2, <3>3, <3>4 DEF RoutineInv
  <2>3. Wakeups'
    BY <1>0, <1>1, <1>5 DEF IsrControl, Wakeups, rx, tx, call, Reading
  <2> QED  BY <1>2, <2>1, <2>2, <2>3 DEF NoLostWakeup, Wakeups
<1>6. CASE IsrRxFull
  <2>1. TypeOK' /\ ReadInv' /\ WriteInv'
    BY <1>0, <1>3, <1>6 DEF IsrRxFull, RxDone, TypeOK, host
  <2>2. RoutineInv'
    BY <1>0, <1>6, NextPlace, JtagAssumption DEF IsrRxFull, RxDone, RoutineInv, TypeOK, uart, rx
  <2>3. Wakeups'
    BY <1>0, <1>1, <1>6 DEF IsrRxFull, Wakeups, rx, tx, call, Reading
  <2> QED  BY <1>2, <2>1, <2>2, <2>3 DEF NoLostWakeup, Wakeups
<1>7. CASE IsrRxRead
  <2>1. rxIn' = Succ(rxIn) /\ rxIn' \in Slots /\ rxIn' # rxOut /\ rxIn' # rxIn
    BY <1>0, <1>7, NextPlace DEF IsrRxRead, TypeOK
  <2>2. /\ Head(rfifo) \in Serials /\ rfifo' \in Seq(Serials) /\ Len(rfifo') = Len(rfifo) - 1
        /\ Len(rfifo) \in Nat
    BY <1>0, <1>7 DEF IsrRxRead, TypeOK
  <2>3. rxBuf' \in [Slots -> Serials] /\ \A i \in Slots : i # rxIn => rxBuf'[i] = rxBuf[i]
    BY <1>0, <1>7, <2>2 DEF IsrRxRead, TypeOK
  <2>4. Used(rxOut, rxIn') = Used(rxOut, rxIn) + 1
    BY <1>0, <2>1, UsedNext DEF TypeOK
  <2>5. TypeOK'
    <3>1. avail' \in BOOLEAN /\ pause' = FALSE /\ Len(rfifo') <= FifoLen
      BY <1>0, <1>7, <2>2, JtagAssumption DEF IsrRxRead, TypeOK
    <3> QED
      BY <1>0, <1>1, <1>7, <2>1, <2>2, <2>3, <3>1
         DEF IsrRxRead, TypeOK, Reading, Writing, rx, tx, watch, call, host
  <2>6. WriteInv'
    BY <1>0, <1>1, <1>7 DEF IsrRxRead, WriteInv, Writing, tx, call
  <2>7. ReadInv'
    <3>1. ASSUME pc = "r_out", NEW i \in 1 .. n  PROVE  rxBuf'[rxOut + i - 1] = rxBuf[rxOut + i - 1]
      <4>1. n <= Used(rxOut, rxIn) /\ rxOut + n <= BufLen
        BY <1>0, <3>1 DEF ReadInv
      <4>2. rxOut + i - 1 \in Slots /\ rxOut + i - 1 # rxIn
        <5>1. i \in 1 .. BufLen /\ i <= Used(rxOut, rxIn) /\ rxOut + i <= BufLen
          <6>1. Used(rxOut, rxIn) \in 0 .. BufLen - 1 /\ n \in Nat /\ rxOut \in Nat /\ BufLen \in Nat
            BY <1>0, Bounds
          <6> QED  BY <4>1, <6>1
        <5> QED  BY <1>0, <5>1, PlacesInUse DEF TypeOK
      <4> QED  BY <2>3, <4>2
    <3>2. pc' \in {"r_copy", "r_out"} => n' <= Used(rxOut, rxIn)'
      <4>1. Used(rxOut, rxIn)' = Used(rxOut, rxIn) + 1 /\ Used(rxOut, rxIn) \in Nat /\ n' = n /\ pc' = pc
        BY <1>0, <1>1, <2>4, InUse DEF TypeOK, call
      <4> QED  BY <1>0, <4>1 DEF ReadInv, TypeOK
    <3> QED  BY <1>0, <1>1, <3>1, <3>2 DEF ReadInv, Reading, call
  <2>8. RoutineInv'
    <3>1. rfifo' # <<>> \/ rxIn' # rxOut'
      BY <1>1, <2>1
    <3> QED  BY <1>0, <1>7, <3>1 DEF IsrRxRead, RoutineInv
  <2>9. Wakeups'
    BY <1>1, <1>7, <1>0, <2>1 DEF IsrRxRead, Wakeups, tx, call
  <2> QED  BY <1>2, <2>5, <2>6, <2>7, <2>8, <2>9 DEF NoLostWakeup, Wakeups
<1>8. CASE IsrRxEmpty
  <2>1. TypeOK' /\ ReadInv' /\ WriteInv'
    <3>1. TypeOK'
      BY <1>0, <1>1, <1>8
         DEF IsrRxEmpty, RxDone, TypeOK, Reading, Writing, uart, rx, tx, watch, call, host
    <3> QED  BY <1>0, <1>1, <1>8, <3>1 DEF IsrRxEmpty, ReadInv, WriteInv, Reading, Writing, rx, tx, call
  <2>2. RoutineInv'
    BY <1>0, <1>8 DEF IsrRxEmpty, RxDone, RoutineInv, TypeOK, rx
  <2>3. Wakeups'
    BY <1>0, <1>1, <1>8 DEF IsrRxEmpty, Wakeups, rx, tx, call, Reading
  <2> QED  BY <1>2, <2>1, <2>2, <2>3 DEF NoLostWakeup, Wakeups
<1>9. CASE IsrRxLate
  <2>1. TypeOK'
    <3>1. typed \in Serials /\ typed + 1 \in 0 .. MaxTyped
      BY <1>0, <1>9, Numbers, JtagAssumption DEF IsrRxLate, TypeOK
    <3>2. rfifo' \in Seq(Serials) /\ Len(rfifo') <= FifoLen
      <4>1. rfifo' = <<typed>>  BY <1>9 DEF IsrRxLate
      <4> QED  BY <3>1, <4>1, JtagAssumption
    <3> QED  BY <1>0, <1>1, <1>9, <3>1, <3>2
                DEF IsrRxLate, RxDone, TypeOK, Reading, Writing, uart, rx, tx, watch, call, host
  <2>2. ReadInv' /\ WriteInv'
    BY <1>0, <1>1, <1>9 DEF IsrRxLate, ReadInv, WriteInv, Reading, Writing, rx, tx, call
  <2>3. RoutineInv'
    BY <1>0, <1>9 DEF IsrRxLate, RxDone, RoutineInv, TypeOK, rx
  <2>4. Wakeups'
    BY <1>0, <1>1, <1>9 DEF IsrRxLate, Wakeups, rx, tx, call, Reading
  <2> QED  BY <1>2, <2>1, <2>2, <2>3, <2>4 DEF NoLostWakeup, Wakeups
<1>10. CASE IsrRxMask
  <2>1. TypeOK' /\ ReadInv' /\ WriteInv'
    BY <1>0, <1>3, <1>10 DEF IsrRxMask, TypeOK, host
  <2>2. RoutineInv'
    BY <1>0, <1>10 DEF IsrRxMask, RoutineInv, TypeOK, uart, rx
  <2>3. Wakeups'
    BY <1>0, <1>1, <1>10 DEF IsrRxMask, RoutineInv, Wakeups, rx, tx, call, Reading
  <2> QED  BY <1>2, <2>1, <2>2, <2>3 DEF NoLostWakeup, Wakeups
<1>11. CASE IsrTxWrite
  <2>1. Succ(txOut) \in Slots /\ txBuf[txOut] \in Serials /\ Len(wfifo) < FifoLen /\ Len(wfifo) \in Nat
    BY <1>0, <1>11, NextPlace, JtagAssumption DEF IsrTxWrite, TypeOK, RoutineInv
  <2>2. wfifo' = Append(wfifo, txBuf[txOut])
    BY <1>11, <2>1 DEF IsrTxWrite
  <2>3. wfifo' \in Seq(Serials) /\ Len(wfifo') = Len(wfifo) + 1
    BY <1>0, <2>1, <2>2 DEF TypeOK
  <2>4. Used(txOut', txIn') = Used(txOut, txIn) - 1
    BY <1>0, <1>1, <1>11, UsedNext DEF IsrTxWrite, TypeOK
  <2>5. TypeOK'
    <3>1. Len(wfifo') <= FifoLen /\ space' \in 0 .. FifoLen
      BY <1>0, <1>11, <2>1, <2>3, JtagAssumption DEF IsrTxWrite, TypeOK
    <3> QED  BY <1>0, <1>1, <1>11, <2>1, <2>3, <3>1
                DEF IsrTxWrite, TypeOK, Reading, Writing, uart, rx, tx, watch, call, host
  <2>6. ReadInv'
    BY <1>0, <1>1, <1>11 DEF IsrTxWrite, ReadInv, Reading, rx, call
  <2>7. WriteInv'
    <3>1. Used(txOut, txIn)' = Used(txOut, txIn) - 1 /\ Used(txOut, txIn) \in Nat
      BY <1>0, <2>4, InUse DEF TypeOK
    <3>2. n \in Nat /\ BufLen \in Nat
      BY <1>0, JtagAssumption DEF TypeOK
    <3>3. Used(txOut, txIn) + n < BufLen => Used(txOut, txIn)' + n < BufLen
      BY <3>1, <3>2
    <3> QED  BY <1>0, <1>1, <3>3 DEF WriteInv, Writing, call
  <2>8. RoutineInv'
    BY <1>0, <1>11, <2>1, <2>3, JtagAssumption DEF IsrTxWrite, RoutineInv, TypeOK, rx
  <2>9. Wakeups'
    BY <1>0, <1>1, <1>11 DEF IsrTxWrite, Wakeups, rx, call, Reading
  <2> QED  BY <1>2, <2>5, <2>6, <2>7, <2>8, <2>9 DEF NoLostWakeup, Wakeups
<1>12. CASE IsrTxDone
  <2>1. TypeOK' /\ ReadInv' /\ WriteInv'
    BY <1>0, <1>3, <1>12 DEF IsrTxDone, TypeOK, host
  <2>2. RoutineInv'
    BY <1>0, <1>12 DEF IsrTxDone, RoutineInv, TypeOK, uart, rx
  <2>3. Wakeups'
    BY <1>0, <1>1, <1>12 DEF IsrTxDone, Wakeups, TypeOK, rx, tx, call, Reading
  <2> QED  BY <1>2, <2>1, <2>2, <2>3 DEF NoLostWakeup, Wakeups
<1> QED  BY <1>4, <1>5, <1>6, <1>7, <1>8, <1>9, <1>10, <1>11, <1>12 DEF Isr

\* What a call of read may take at once is in one piece and in the ring.
LEMMA ReadyFits ==
  ASSUME TypeOK, cnt < req
  PROVE  /\ RxReady \in Nat /\ RxReady <= req - cnt
         /\ RxReady <= Used(rxOut, rxIn) /\ rxOut + RxReady <= BufLen
         /\ RxReady = 0 <=> rxIn = rxOut
<1>1. Used(rxOut, rxIn) = IF rxIn >= rxOut THEN rxIn - rxOut ELSE rxIn - rxOut + BufLen
  BY InUse DEF TypeOK
<1> QED  BY <1>1, Bounds DEF RxReady, Least

\* What a call of write may copy at once is in one piece and leaves a place free.
LEMMA FreeFits ==
  ASSUME TypeOK, cnt < req
  PROVE  LET k == Least(TxFree, req - cnt)
         IN /\ k \in Nat /\ k <= req - cnt /\ txIn + k <= BufLen /\ Used(txOut, txIn) + k < BufLen
            /\ TxFree # 0 => k > 0
<1>1. Used(txOut, txIn) = IF txIn >= txOut THEN txIn - txOut ELSE txIn - txOut + BufLen
  BY InUse DEF TypeOK
<1> QED  BY <1>1, Bounds DEF TxFree, Least

\* A call that ends leaves its locals cleared.
LEMMA EndKeeps ==
  ASSUME NoLostWakeup, Ended, UNCHANGED <<uart, watch, routine, host, rx, tx>>,
         irqEnable' \subseteq {"RE", "WE"}, Wakeups', pc # "idle"
  PROVE  NoLostWakeup'
<1>0. TypeOK /\ RoutineInv /\ NumbersInv
  BY DEF NoLostWakeup
<1>1. TypeOK'
  <2>1. /\ seen' \in Slots /\ mem' \in Seq(Serials) /\ req' \in 0 .. MaxCall
        /\ cnt' \in 0 .. req' /\ n' \in 0 .. req' /\ nonblock' \in BOOLEAN /\ pc' = "idle"
    <3>1. 0 \in Slots /\ 0 \in 0 .. MaxCall
      BY JtagAssumption DEF Slots
    <3>2. <<>> \in Seq(Serials)
      BY EmptySeq
    <3>3. pc' = "idle" /\ mem' = <<>> /\ req' = 0 /\ cnt' = 0 /\ n' = 0 /\ seen' = 0 /\ nonblock' = FALSE
      BY DEF Ended
    <3>4. 0 \in 0 .. 0  OBVIOUS
    <3> QED  BY <3>1, <3>2, <3>3, <3>4
  <2> QED  BY <1>0, <2>1 DEF TypeOK, Reading, Writing, uart, watch, routine, host, rx, tx
<1>2. RoutineInv'
  BY <1>0 DEF RoutineInv, uart, routine, rx
<1>3. ReadInv' /\ WriteInv'
  BY DEF Ended, ReadInv, WriteInv, Reading, Writing
<1>4. NumbersInv'
  <2>1. printed \in Nat /\ callsLeft * MaxCall \in Nat /\ MaxCalls * MaxCall \in Nat
        /\ req - cnt \in Nat
    <3>1. callsLeft \in Nat /\ MaxCall \in Nat /\ MaxCalls \in Nat
      BY <1>0, JtagAssumption DEF TypeOK
    <3>2. printed \in Nat /\ req - cnt \in Nat
      BY <1>0, Bounds, Numbers DEF TypeOK
    <3> QED  BY <3>1, <3>2
  <2>2. printed + callsLeft * MaxCall <= MaxCalls * MaxCall
    BY <1>0, <2>1 DEF NumbersInv
  <2>3. ~Writing' /\ printed' = printed /\ callsLeft' = callsLeft
    BY DEF Ended, Writing, host
  <2> QED  BY <2>1, <2>2, <2>3 DEF NumbersInv
<1> QED  BY <1>1, <1>2, <1>3, <1>4 DEF NoLostWakeup, Wakeups

\* A step inside a call leaves the UART, the routine and the host alone.
LEMMA StepKeeps ==
  ASSUME NoLostWakeup, UNCHANGED <<uart, watch, routine, connected, typed, callsLeft, nonblock, req>>,
         irqEnable' \subseteq {"RE", "WE"},
         rxIn' = rxIn, rxOut' \in Slots, rxBuf' = rxBuf, txOut' = txOut, txIn' \in Slots,
         txBuf' \in [Slots -> Serials],
         Reading' \/ Writing', cnt' \in 0 .. req, n' \in 0 .. req, seen' \in Slots,
         mem' \in Seq(Serials), printed' \in Serials, isr = "off"
  PROVE  TypeOK' /\ RoutineInv'
<1>0. TypeOK /\ RoutineInv
  BY DEF NoLostWakeup
<1>1. TypeOK'
  BY <1>0 DEF TypeOK, Reading, Writing, uart, watch, routine
<1>2. RoutineInv'
  BY <1>0 DEF RoutineInv, uart, routine
<1> QED  BY <1>1, <1>2

\* The call of read.
LEMMA ReadKeeps ==
  ASSUME NoLostWakeup, ReadIn \/ ReadCopy \/ ReadOut \/ ReadWait \/ ReadCheck \/ ReadEnable
  PROVE  NoLostWakeup'
<1>0. TypeOK /\ RoutineInv /\ ReadInv /\ WriteInv /\ NumbersInv /\ Wakeups
  BY DEF NoLostWakeup, Wakeups
<1>1. UNCHANGED <<uart, watch, routine, host, rxIn, rxBuf, tx>> /\ isr = "off" /\ Reading
  BY DEF ReadIn, ReadCopy, ReadOut, ReadWait, ReadCheck, ReadEnable, Elsewhere, rx, Running, Reading
<1>2. /\ rxIn \in Slots /\ rxOut \in Slots /\ txIn \in Slots /\ txBuf \in [Slots -> Serials]
      /\ seen \in Slots /\ mem \in Seq(Serials) /\ printed \in Serials /\ irqEnable \subseteq {"RE", "WE"}
  BY <1>0 DEF TypeOK
<1>3. /\ req \in Nat /\ cnt \in 0 .. req /\ n \in 0 .. req /\ BufLen \in Nat
  BY <1>0, Bounds
<1>4. ASSUME UNCHANGED <<irqEnable, nonblock, req>>, rxOut' \in Slots, cnt' \in 0 .. req,
             n' \in 0 .. req, seen' \in Slots, mem' \in Seq(Serials), Reading', ReadInv',
             rxOut' = rxOut \/ cnt' > 0, cnt' >= cnt
      PROVE  NoLostWakeup'
  <2>1. TypeOK' /\ RoutineInv'
    BY <1>1, <1>2, <1>4, StepKeeps DEF host, tx
  <2>2. ~Writing /\ ~Writing' /\ pc' \notin {"idle", "c_wait"}
    BY <1>1, <1>4 DEF Reading, Writing
  <2>3. WriteInv'
    BY <1>1, <2>2 DEF WriteInv, Writing
  <2>4. NumbersInv'
    BY <1>0, <1>1, <2>2 DEF NumbersInv, host
  <2>5. Wakeups'
    <3>1. "RE" \in irqEnable' \/ rxIn' # rxOut' \/ cnt' > 0
      BY <1>0, <1>1, <1>3, <1>4 DEF Wakeups
    <3>2. "WE" \in irqEnable' \/ txIn' = txOut'
      BY <1>0, <1>1, <1>4 DEF Wakeups, tx, Reading
    <3> QED  BY <1>4, <3>1, <3>2 DEF Wakeups
  <2> QED  BY <1>4, <2>1, <2>3, <2>4, <2>5 DEF NoLostWakeup, Wakeups
<1>5. ASSUME Ended, irqEnable' = irqEnable \/ irqEnable' = irqEnable \cup {"RE"},
             UNCHANGED <<rx, tx>>, cnt = 0 \/ "RE" \in irqEnable'
      PROVE  NoLostWakeup'
  <2>1. Wakeups'
    <3>1. "RE" \in irqEnable' \/ rxIn' # rxOut'
      BY <1>0, <1>3, <1>5 DEF Wakeups, rx
    <3>2. "WE" \in irqEnable' \/ txIn' = txOut'
      BY <1>0, <1>1, <1>5 DEF Wakeups, tx, Reading
    <3> QED  BY <3>1, <3>2 DEF Wakeups
  <2>2. irqEnable' \subseteq {"RE", "WE"} /\ pc # "idle"
    BY <1>1, <1>2, <1>5 DEF Reading
  <2> QED  BY <1>1, <1>5, <2>1, <2>2, EndKeeps
<1>6. CASE ReadIn
  <2>1. cnt < req /\ pc = "r_in" /\ UNCHANGED <<irqEnable, rx, tx>>
    BY <1>0, <1>6 DEF ReadIn, ReadInv, Running
  <2>2. CASE RxReady = 0 /\ cnt = 0 /\ Ended
    BY <1>5, <2>1, <2>2
  <2>3. CASE /\ seen' = rxIn /\ n' = RxReady
             /\ pc' = IF RxReady > 0 THEN "r_copy" ELSE IF cnt > 0 THEN "r_enable" ELSE "r_wait"
             /\ UNCHANGED <<nonblock, mem, req, cnt>>
    <3>1. /\ RxReady \in Nat /\ RxReady <= req - cnt
          /\ RxReady <= Used(rxOut, rxIn) /\ rxOut + RxReady <= BufLen
      BY <1>0, <2>1, ReadyFits
    <3>2. n' \in 0 .. req
      BY <1>3, <2>3, <3>1
    <3>3. Len(mem) = cnt
      BY <1>0, <1>1, <2>1 DEF ReadInv
    <3>4. Used(rxOut, rxIn)' = Used(rxOut, rxIn) /\ rxOut' = rxOut
      BY <2>1 DEF rx
    <3>5. ReadInv'
      <4>1. pc' = "r_copy" => n' > 0 /\ cnt' + n' <= req' /\ rxOut' + n' <= BufLen
            /\ n' <= Used(rxOut, rxIn)'
        BY <1>3, <2>3, <3>1, <3>4
      <4>2. pc' \in {"r_copy", "r_enable", "r_wait"} /\ pc' = "r_wait" => cnt' = 0
        BY <1>3, <2>3
      <4>3. pc' = "r_enable" => cnt' > 0
        BY <2>3
      <4>4. pc' \in {"r_copy", "r_enable", "r_wait"} /\ Len(mem') = cnt' /\ cnt' < req'
        BY <2>1, <2>3, <3>3
      <4> QED  BY <1>3, <2>3, <4>1, <4>2, <4>3, <4>4 DEF ReadInv
    <3>6. Reading'
      BY <2>3 DEF Reading
    <3>7. cnt' >= cnt /\ cnt' \in 0 .. req
      BY <1>3, <2>3
    <3> QED  BY <1>2, <1>4, <2>1, <2>3, <3>2, <3>4, <3>5, <3>6, <3>7
  <2> QED  BY <1>6, <2>2, <2>3 DEF ReadIn
<1>7. CASE ReadCopy
  <2>1. /\ pc = "r_copy" /\ pc' = "r_out" /\ UNCHANGED <<nonblock, req, cnt, n, seen, irqEnable, rx, tx>>
        /\ mem' = mem \o [i \in 1 .. n |-> rxBuf[rxOut + i - 1]]
    BY <1>7 DEF ReadCopy, Running
  <2>2. n > 0 /\ cnt + n <= req /\ rxOut + n <= BufLen /\ n <= Used(rxOut, rxIn) /\ Len(mem) = cnt
    BY <1>0, <1>1, <2>1 DEF ReadInv
  <2> DEFINE piece == [i \in 1 .. n |-> rxBuf[rxOut + i - 1]]
  <2>3. piece \in Seq(Serials) /\ Len(piece) = n /\ \A i \in 1 .. n : piece[i] = rxBuf[rxOut + i - 1]
    <3>1. \A i \in 1 .. n : rxOut + i - 1 \in Slots
      BY <1>0, <1>3, <2>2, Bounds DEF Slots
    <3>2. rxBuf \in [Slots -> Serials]
      BY <1>0 DEF TypeOK
    <3> QED  BY <1>3, <3>1, <3>2
  <2> HIDE DEF piece
  <2>4. /\ mem' \in Seq(Serials) /\ Len(mem') = cnt + n
        /\ \A i \in 1 .. n : mem'[cnt + i] = rxBuf[rxOut + i - 1]
    <3>1. mem' = mem \o piece
      BY <2>1 DEF piece
    <3>2. /\ mem' \in Seq(Serials) /\ Len(mem') = Len(mem) + Len(piece)
          /\ \A i \in 1 .. Len(mem) + Len(piece) :
               mem'[i] = IF i <= Len(mem) THEN mem[i] ELSE piece[i - Len(mem)]
      BY <1>2, <2>3, <3>1, ConcatProperties
    <3>3. ASSUME NEW i \in 1 .. n  PROVE  mem'[cnt + i] = piece[i]
      <4>1. cnt + i \in 1 .. Len(mem) + Len(piece) /\ cnt + i > Len(mem) /\ cnt + i - Len(mem) = i
        BY <1>3, <2>2, <2>3
      <4> QED  BY <1>3, <2>2, <3>2, <4>1
    <3>4. Len(mem') = cnt + n
      BY <2>2, <2>3, <3>2
    <3> QED  BY <2>3, <3>2, <3>3, <3>4
  <2>5. ReadInv'
    <3>1. Used(rxOut, rxIn)' = Used(rxOut, rxIn) /\ rxOut' = rxOut /\ rxBuf' = rxBuf
      BY <2>1 DEF rx
    <3> QED  BY <1>3, <2>1, <2>2, <2>4, <3>1 DEF ReadInv
  <2>6. Reading'
    BY <2>1 DEF Reading
  <2> QED  BY <1>2, <1>3, <1>4, <2>1, <2>4, <2>5, <2>6 DEF rx
<1>8. CASE ReadOut
  <2>1. /\ pc = "r_out" /\ cnt' = cnt + n /\ rxOut' = (rxOut + n) % BufLen
        /\ pc' = IF cnt + n < req THEN "r_in" ELSE "r_enable"
        /\ n' = 0 /\ UNCHANGED <<nonblock, mem, req, seen, irqEnable, rxIn, rxBuf, tx>>
    BY <1>8 DEF ReadOut, Running
  <2>2. n > 0 /\ cnt + n <= req /\ rxOut + n <= BufLen /\ Len(mem) = cnt + n
    BY <1>0, <1>1, <2>1 DEF ReadInv
  <2>3. rxOut' \in Slots
    BY <1>2, <1>3, <2>1, <2>2, Further
  <2>4. cnt' > 0 /\ cnt' \in 0 .. req /\ cnt' >= cnt /\ n' \in 0 .. req
    BY <1>3, <2>1, <2>2
  <2>5. ReadInv'
    BY <1>3, <2>1, <2>2, <2>4 DEF ReadInv
  <2>6. Reading'
    BY <2>1 DEF Reading
  <2> QED  BY <1>2, <1>4, <2>1, <2>3, <2>4, <2>5, <2>6
<1>9. CASE ReadWait
  <2>1. pc = "r_wait" /\ pc' = "r_check" /\ UNCHANGED <<nonblock, mem, req, cnt, n, seen, irqEnable,
          rx, tx>>
    BY <1>9 DEF ReadWait, Running
  <2>2. ReadInv'
    BY <1>0, <2>1 DEF ReadInv, Reading
  <2>3. Reading'
    BY <2>1 DEF Reading
  <2> QED  BY <1>2, <1>3, <1>4, <2>1, <2>2, <2>3 DEF rx
<1>10. CASE ReadCheck
  <2>1. pc = "r_check" /\ UNCHANGED <<irqEnable, rx, tx>> /\ cnt = 0
    BY <1>0, <1>10 DEF ReadCheck, Running, ReadInv
  <2>2. CASE Ended
    BY <1>5, <2>1, <2>2
  <2>3. CASE pc' = "r_in" /\ UNCHANGED <<nonblock, mem, req, cnt, n, seen>>
    <3>1. req > 0
      BY <1>0, <2>1 DEF ReadInv
    <3>2. ReadInv'
      BY <1>0, <2>1, <2>3, <3>1 DEF ReadInv, Reading
    <3>3. Reading'
      BY <2>3 DEF Reading
    <3> QED  BY <1>2, <1>3, <1>4, <2>1, <2>3, <3>2, <3>3 DEF rx
  <2> QED  BY <1>10, <2>2, <2>3 DEF ReadCheck
<1>11. CASE ReadEnable
  BY <1>5, <1>11 DEF ReadEnable
<1> QED  BY <1>6, <1>7, <1>8, <1>9, <1>10, <1>11

\* The call of write, and of close.
LEMMA WriteKeeps ==
  ASSUME NoLostWakeup,
         \/ WriteOut \/ WriteCopy \/ WriteIn \/ WriteEnable \/ WriteWait \/ WriteCheck \/ CloseWait
  PROVE  NoLostWakeup'
<1>0. TypeOK /\ RoutineInv /\ ReadInv /\ WriteInv /\ NumbersInv /\ Wakeups
  BY DEF NoLostWakeup, Wakeups
<1>1. /\ UNCHANGED <<uart, watch, routine, connected, typed, callsLeft, rx, txOut>>
      /\ isr = "off" /\ (Writing \/ pc = "c_wait") /\ pc # "idle" /\ ~Reading
  BY DEF WriteOut, WriteCopy, WriteIn, WriteEnable, WriteWait, WriteCheck, CloseWait, Elsewhere, tx, host,
         Running, Writing, Reading
<1>2. /\ rxOut \in Slots /\ txIn \in Slots /\ txOut \in Slots /\ txBuf \in [Slots -> Serials]
      /\ seen \in Slots /\ mem \in Seq(Serials) /\ printed \in Serials /\ irqEnable \subseteq {"RE", "WE"}
  BY <1>0 DEF TypeOK
<1>3. /\ req \in Nat /\ cnt \in 0 .. req /\ n \in 0 .. req /\ BufLen \in Nat
  BY <1>0, Bounds
<1>4. ASSUME UNCHANGED <<nonblock, req, mem>>, irqEnable' = irqEnable \/ irqEnable' = irqEnable \cup {"WE"},
             txIn' \in Slots, txBuf' \in [Slots -> Serials],
             cnt' \in 0 .. req, n' \in 0 .. req, seen' \in Slots, Writing', WriteInv', NumbersInv',
             printed' \in Serials,
             \/ "WE" \in irqEnable' \/ txIn' = txOut'
             \/ pc' \in {"w_out", "w_copy", "w_in", "w_enable"}
      PROVE  NoLostWakeup'
  <2>1. TypeOK' /\ RoutineInv'
    BY <1>1, <1>2, <1>4, StepKeeps DEF rx
  <2>2. ~Reading' /\ pc' \notin {"r_in", "r_copy", "r_out", "r_wait", "r_check", "r_enable"}
    BY <1>4 DEF Reading, Writing
  <2>3. ReadInv'
    BY <2>2 DEF ReadInv
  <2>4. Wakeups'
    BY <1>0, <1>1, <1>4 DEF Wakeups, rx
  <2> QED  BY <1>4, <2>1, <2>3, <2>4 DEF NoLostWakeup, Wakeups
<1>5. ASSUME Ended, irqEnable' = irqEnable \/ irqEnable' = irqEnable \cup {"WE"},
             UNCHANGED <<rx, tx, host>>,
             "WE" \in irqEnable' \/ txIn = txOut
      PROVE  NoLostWakeup'
  <2>1. Wakeups'
    <3>1. "RE" \in irqEnable' \/ rxIn' # rxOut'
      BY <1>0, <1>1, <1>5 DEF Wakeups, rx
    <3>2. "WE" \in irqEnable' \/ txIn' = txOut'
      BY <1>5 DEF tx
    <3> QED  BY <3>1, <3>2 DEF Wakeups
  <2>2. irqEnable' \subseteq {"RE", "WE"}
    BY <1>2, <1>5
  <2> QED  BY <1>1, <1>5, <2>1, <2>2, EndKeeps
<1>6. CASE WriteOut
  <2>1. /\ cnt < req /\ pc = "w_out" /\ UNCHANGED <<nonblock, mem, req, cnt, irqEnable, rx, tx, host>>
        /\ seen' = txOut /\ n' = Least(TxFree, req - cnt)
        /\ pc' = IF TxFree = 0 THEN "w_enable" ELSE "w_copy"
    BY <1>0, <1>6 DEF WriteOut, WriteInv, Running, Elsewhere
  <2>2. /\ n' \in Nat /\ n' <= req - cnt /\ txIn + n' <= BufLen /\ Used(txOut, txIn) + n' < BufLen
        /\ pc' = "w_copy" => n' > 0
    BY <1>0, <2>1, FreeFits
  <2>3. pc' \in {"w_enable", "w_copy"} /\ Writing /\ Writing'
    BY <2>1 DEF Writing
  <2>4. Used(txOut, txIn)' = Used(txOut, txIn) /\ txIn' = txIn
    BY <2>1 DEF tx
  <2>5. WriteInv'
    <3>1. Len(mem) = req
      BY <1>0, <2>3 DEF WriteInv
    <3>2. cnt' + n' <= req' /\ txIn' + n' <= BufLen /\ Used(txOut, txIn)' + n' < BufLen
      BY <1>3, <2>1, <2>2, <2>4
    <3> QED  BY <2>1, <2>2, <2>3, <3>1, <3>2 DEF WriteInv
  <2>6. NumbersInv'
    BY <1>0, <2>1, <2>3 DEF NumbersInv, host
  <2>7. n' \in 0 .. req
    BY <1>3, <2>2
  <2> QED  BY <1>2, <1>3, <1>4, <2>1, <2>3, <2>5, <2>6, <2>7 DEF tx, host
<1>7. CASE WriteCopy
  <2>1. /\ pc = "w_copy" /\ pc' = "w_in" /\ UNCHANGED <<nonblock, mem, req, cnt, n, seen, irqEnable,
             rx, txIn, txOut, host>>
        /\ txBuf' = [i \in Slots |-> IF i \in txIn..(txIn + n - 1) THEN mem[cnt + 1 + i - txIn]
             ELSE txBuf[i]]
    BY <1>7 DEF WriteCopy, Running, Elsewhere
  <2>2. Writing /\ Writing'
    BY <2>1 DEF Writing
  <2>3. n > 0 /\ cnt + n <= req /\ txIn + n <= BufLen /\ Used(txOut, txIn) + n < BufLen /\ Len(mem) = req
    BY <1>0, <2>1, <2>2 DEF WriteInv
  <2>4. \A i \in 1 .. req : mem[i] \in Serials
    BY <1>2, <2>3, ElementOfSeq
  <2>5. txBuf' \in [Slots -> Serials]
    <3>1. ASSUME NEW i \in Slots, i \in txIn..(txIn + n - 1)  PROVE  mem[cnt + 1 + i - txIn] \in Serials
      <4>1. txIn \in Nat /\ i \in Nat
        BY <1>2 DEF Slots
      <4>2. cnt + 1 + i - txIn \in 1 .. req
        BY <1>3, <2>3, <3>1, <4>1
      <4> QED  BY <2>4, <4>2
    <3>2. \A i \in Slots : txBuf[i] \in Serials
      BY <1>2
    <3> QED  BY <2>1, <3>1, <3>2
  <2>6. ASSUME NEW i \in 1 .. n  PROVE  txBuf'[txIn + i - 1] = mem[cnt + i]
    <3>1. txIn \in Nat
      BY <1>2 DEF Slots
    <3>2. txIn + i - 1 \in Slots /\ txIn + i - 1 \in txIn..(txIn + n - 1)
          /\ cnt + 1 + (txIn + i - 1) - txIn = cnt + i
      BY <1>3, <2>3, <3>1 DEF Slots
    <3> QED  BY <2>1, <3>2
  <2>7. Used(txOut, txIn)' = Used(txOut, txIn)
    BY <2>1
  <2>8. WriteInv'
    BY <2>1, <2>2, <2>3, <2>6, <2>7 DEF WriteInv
  <2>9. NumbersInv'
    BY <1>0, <2>1, <2>2 DEF NumbersInv, host
  <2> QED  BY <1>2, <1>3, <1>4, <2>1, <2>2, <2>5, <2>8, <2>9 DEF host
<1>8. CASE WriteIn
  <2>1. /\ pc = "w_in" /\ cnt' = cnt + n /\ txIn' = (txIn + n) % BufLen
        /\ pc' = IF cnt + n < req THEN "w_out" ELSE "w_enable"
        /\ printed' = printed + n /\ n' = 0
        /\ UNCHANGED <<nonblock, mem, req, seen, irqEnable, rx, txOut, txBuf>>
    BY <1>8 DEF WriteIn, Running
  <2>2. Writing /\ Writing'
    BY <2>1 DEF Writing
  <2>3. n > 0 /\ cnt + n <= req /\ txIn + n <= BufLen /\ Len(mem) = req
    BY <1>0, <2>1, <2>2 DEF WriteInv
  <2>4. txIn' \in Slots
    BY <1>2, <1>3, <2>1, <2>3, Further
  <2>5. cnt' \in 0 .. req /\ n' \in 0 .. req
    BY <1>3, <2>1, <2>3
  <2>6. WriteInv'
    BY <2>1, <2>2, <2>3 DEF WriteInv
  <2>7. NumbersInv' /\ printed' \in Serials
    <3>1. /\ printed \in Nat /\ callsLeft * MaxCall \in Nat /\ MaxCalls * MaxCall \in Nat
      <4>1. callsLeft \in Nat /\ MaxCall \in Nat /\ MaxCalls \in Nat
        BY <1>0, JtagAssumption DEF TypeOK
      <4> QED  BY <1>0, <4>1, Numbers DEF TypeOK
    <3>2. printed + callsLeft * MaxCall + (req - cnt) <= MaxCalls * MaxCall
      BY <1>0, <2>2 DEF NumbersInv
    <3>3. printed' + callsLeft * MaxCall + (req' - cnt') <= MaxCalls * MaxCall
      BY <1>3, <2>1, <3>1, <3>2
    <3>4. printed' \in Nat /\ printed' <= MaxCalls * MaxCall
      BY <1>3, <2>1, <2>5, <3>1, <3>3
    <3>5. callsLeft' = callsLeft
      BY <1>1
    <3> QED  BY <2>2, <3>3, <3>4, <3>5, Numbers DEF NumbersInv
  <2>8. pc' \in {"w_out", "w_copy", "w_in", "w_enable"}
    BY <2>1
  <2> QED  BY <1>2, <1>4, <2>1, <2>2, <2>4, <2>5, <2>6, <2>7, <2>8
<1>9. CASE WriteEnable
  <2>1. /\ pc = "w_enable" /\ irqEnable' = irqEnable \cup {"WE"} /\ UNCHANGED <<rx, tx, host>>
    BY <1>9 DEF WriteEnable, Running, Elsewhere
  <2>2. CASE Ended
    BY <1>5, <2>1, <2>2
  <2>3. CASE cnt # req /\ pc' = "w_wait" /\ UNCHANGED <<nonblock, mem, req, cnt, n, seen>>
    <3>1. Writing /\ Writing'
      BY <2>1, <2>3 DEF Writing
    <3>2. WriteInv'
      <4>1. Len(mem) = req
        BY <1>0, <3>1 DEF WriteInv
      <4> QED  BY <1>3, <2>3, <3>1, <4>1 DEF WriteInv
    <3>3. NumbersInv'
      BY <1>0, <1>3, <2>1, <2>3, <3>1 DEF NumbersInv, host
    <3> QED  BY <1>2, <1>3, <1>4, <2>1, <2>3, <3>1, <3>2, <3>3 DEF tx, host
  <2> QED  BY <1>9, <2>2, <2>3 DEF WriteEnable
<1>10. CASE WriteWait
  <2>1. pc = "w_wait" /\ pc' = "w_check" /\ UNCHANGED <<nonblock, mem, req, cnt, n, seen, irqEnable,
          rx, tx, host>>
    BY <1>10 DEF WriteWait, Running, Elsewhere
  <2>2. Writing /\ Writing'
    BY <2>1 DEF Writing
  <2>3. WriteInv' /\ NumbersInv'
    BY <1>0, <2>1, <2>2 DEF WriteInv, NumbersInv, host
  <2>4. "WE" \in irqEnable' \/ txIn' = txOut'
    BY <1>0, <2>1 DEF Wakeups, tx
  <2> QED  BY <1>2, <1>3, <1>4, <2>1, <2>2, <2>3, <2>4 DEF tx, host
<1>11. CASE WriteCheck
  <2>1. pc = "w_check" /\ UNCHANGED <<irqEnable, rx, tx, host>>
    BY <1>11 DEF WriteCheck, Running, Elsewhere
  <2>2. "WE" \in irqEnable' \/ txIn = txOut
    BY <1>0, <2>1 DEF Wakeups
  <2>3. CASE Ended
    BY <1>5, <2>1, <2>2, <2>3
  <2>4. CASE pc' = "w_out" /\ UNCHANGED <<nonblock, mem, req, cnt, n, seen>>
    <3>1. Writing /\ Writing'
      BY <2>1, <2>4 DEF Writing
    <3>2. WriteInv' /\ NumbersInv'
      BY <1>0, <2>1, <2>4, <3>1 DEF WriteInv, NumbersInv, host
    <3> QED  BY <1>2, <1>3, <1>4, <2>1, <2>4, <3>1, <3>2 DEF tx, host
  <2> QED  BY <1>11, <2>3, <2>4 DEF WriteCheck
<1>12. CASE CloseWait
  <2>1. pc = "c_wait" /\ Ended /\ UNCHANGED <<irqEnable, rx, tx, host>>
    BY <1>12 DEF CloseWait, Running, Elsewhere
  <2>2. "WE" \in irqEnable' \/ txIn = txOut
    BY <1>0, <2>1 DEF Wakeups
  <2> QED  BY <1>5, <2>1, <2>2
<1> QED  BY <1>6, <1>7, <1>8, <1>9, <1>10, <1>11, <1>12

\* The beginning of a call.
LEMMA CallKeeps ==
  ASSUME NoLostWakeup,
         \/ \E k \in 1..MaxCall, nb \in BOOLEAN : Read(k, nb) \/ Write(k, nb)
         \/ Close \/ \E t \in 0..IntMax : Ioctl(t)
  PROVE  NoLostWakeup'
<1>0. TypeOK /\ RoutineInv /\ ReadInv /\ WriteInv /\ NumbersInv /\ Wakeups
  BY DEF NoLostWakeup, Wakeups
<1>1. /\ pc = "idle" /\ callsLeft > 0 /\ callsLeft' = callsLeft - 1
      /\ UNCHANGED <<uart, hostInactive, routine, irqEnable, rx, tx, connected, typed, printed>>
      /\ UNCHANGED <<cnt, n, seen>>
  BY DEF Read, Write, Close, Ioctl, Running, CountCall, watch, call
<1>2. mem = <<>> /\ req = 0 /\ cnt = 0 /\ n = 0 /\ ~Writing /\ ~Reading
  BY <1>0, <1>1 DEF WriteInv, Writing, Reading, TypeOK
<1>3. RoutineInv'
  BY <1>0, <1>1 DEF RoutineInv, uart, routine, rx
<1>4. Wakeups'
  BY <1>0, <1>1, <1>2 DEF Wakeups, rx, tx
<1>5. /\ printed \in Nat /\ callsLeft' \in 0 .. MaxCalls
      /\ \A k \in 0 .. MaxCall : /\ printed + callsLeft' * MaxCall + k <= MaxCalls * MaxCall
                                 /\ printed + k <= MaxCalls * MaxCall
  <2>1. callsLeft \in 0 .. MaxCalls /\ MaxCall \in Nat /\ MaxCalls \in Nat /\ printed \in Nat
    BY <1>0, Numbers, JtagAssumption DEF TypeOK
  <2>2. callsLeft' \in 0 .. MaxCalls
    BY <1>1, <2>1
  <2> DEFINE before == callsLeft * MaxCall  after == callsLeft' * MaxCall  all == MaxCalls * MaxCall
  <2>3. before = after + MaxCall
    <3>1. \A c \in Nat : (c + 1) * MaxCall = c * MaxCall + MaxCall
      BY <2>1
    <3>2. callsLeft = callsLeft' + 1 /\ callsLeft' \in Nat
      BY <1>1, <2>1
    <3> QED  BY <3>1, <3>2
  <2>4. before \in Nat /\ after \in Nat /\ all \in Nat
    <3>1. \A a, b \in Nat : a * b \in Nat
      OBVIOUS
    <3>2. callsLeft \in Nat /\ callsLeft' \in Nat
      BY <2>1, <2>2
    <3> QED  BY <2>1, <3>1, <3>2
  <2>5. printed + before + 0 <= all
    BY <1>0, <1>2 DEF NumbersInv
  <2> HIDE DEF before, after, all
  <2>6. \A k \in 0 .. MaxCall : printed + after + k <= all /\ printed + k <= all
    BY <2>1, <2>3, <2>4, <2>5
  <2> QED  BY <2>1, <2>2, <2>6 DEF after, all
<1>6. ASSUME timeout' \in 2 .. IntMax, nonblock' \in BOOLEAN, req' \in 0 .. MaxCall,
             mem' \in Seq(Serials), Reading' \/ Writing' \/ pc' \in {"idle", "c_wait"}
      PROVE  TypeOK'
  <2>1. cnt' \in 0 .. req' /\ n' \in 0 .. req'
    BY <1>1, <1>2, <1>6, JtagAssumption
  <2> QED  BY <1>0, <1>1, <1>5, <1>6, <2>1 DEF TypeOK, Reading, Writing, uart, routine, rx, tx
<1>7. ASSUME NEW k \in 1..MaxCall, NEW nb \in BOOLEAN, Read(k, nb)
      PROVE  NoLostWakeup'
  <2>1. pc' = "r_in" /\ req' = k /\ nonblock' = nb /\ mem' = mem /\ timeout' = timeout
    BY <1>7 DEF Read, CountCall, watch
  <2>2. Reading' /\ ~Writing'
    BY <2>1 DEF Reading, Writing
  <2>3. k \in 0 .. MaxCall /\ k > 0 /\ k \in Nat
    BY JtagAssumption
  <2>4. TypeOK'
    BY <1>0, <1>6, <1>7, <2>1, <2>2, <2>3 DEF TypeOK
  <2>5. Len(mem') = 0 /\ cnt' = 0
    BY <1>1, <1>2, <2>1
  <2>6. ReadInv' /\ WriteInv'
    BY <2>1, <2>2, <2>3, <2>5 DEF ReadInv, WriteInv
  <2>7. NumbersInv'
    <3>1. printed + callsLeft' * MaxCall + 0 <= MaxCalls * MaxCall
      <4>1. 0 \in 0 .. MaxCall
        BY JtagAssumption
      <4> QED  BY <1>5, <4>1
    <3> QED  BY <1>1, <2>2, <3>1 DEF NumbersInv
  <2> QED  BY <1>3, <1>4, <2>4, <2>6, <2>7 DEF NoLostWakeup, Wakeups
<1>8. ASSUME NEW k \in 1..MaxCall, NEW nb \in BOOLEAN, Write(k, nb)
      PROVE  NoLostWakeup'
  <2>1. /\ pc' = "w_out" /\ req' = k /\ nonblock' = nb /\ timeout' = timeout
        /\ mem' = [i \in 1..k |-> printed + i - 1]
    BY <1>8 DEF Write, CountCall, watch
  <2>2. ~Reading' /\ Writing'
    BY <2>1 DEF Reading, Writing
  <2>3. k \in 0 .. MaxCall /\ k > 0 /\ k \in Nat
    BY JtagAssumption
  <2>4. mem' \in Seq(Serials) /\ Len(mem') = k
    <3>1. ASSUME NEW i \in 1 .. k  PROVE  printed + i - 1 \in Serials
      <4>1. printed + i - 1 \in Nat /\ printed + i - 1 <= MaxCalls * MaxCall
        <5>1. i - 1 \in 0 .. MaxCall /\ i \in Nat
          BY <2>3, JtagAssumption
        <5>2. printed + (i - 1) <= MaxCalls * MaxCall
          BY <1>5, <5>1
        <5>3. printed + i - 1 = printed + (i - 1) /\ printed + i - 1 \in Nat
          BY <1>5, <5>1
        <5> QED  BY <5>2, <5>3
      <4> QED  BY <4>1, Numbers
    <3> QED  BY <2>1, <2>3, <3>1
  <2>5. TypeOK'
    BY <1>0, <1>6, <1>8, <2>1, <2>2, <2>3, <2>4 DEF TypeOK
  <2>6. cnt' = 0 /\ printed' = printed
    BY <1>1, <1>2
  <2>7. ReadInv' /\ WriteInv'
    BY <2>1, <2>2, <2>3, <2>4, <2>6 DEF ReadInv, WriteInv
  <2>8. NumbersInv'
    <3>1. printed + callsLeft' * MaxCall + (req' - cnt') <= MaxCalls * MaxCall
      <4>1. req' - cnt' = k
        BY <2>1, <2>3, <2>6
      <4> QED  BY <1>5, <2>3, <4>1
    <3> QED  BY <2>2, <2>6, <3>1 DEF NumbersInv
  <2> QED  BY <1>3, <1>4, <2>5, <2>7, <2>8 DEF NoLostWakeup, Wakeups
<1>9. CASE Close
  <2>1. pc' = "c_wait" /\ nonblock' \in BOOLEAN /\ mem' = mem /\ req' = req /\ timeout' = timeout
    BY <1>9 DEF Close, CountCall, watch
  <2>2. ~Reading' /\ ~Writing'
    BY <2>1 DEF Reading, Writing
  <2>3. TypeOK'
    BY <1>0, <1>6, <2>1 DEF TypeOK
  <2>4. ReadInv' /\ WriteInv'
    BY <1>1, <1>2, <2>1, <2>2 DEF ReadInv, WriteInv
  <2>5. NumbersInv'
    <3>1. printed + callsLeft' * MaxCall + 0 <= MaxCalls * MaxCall
      <4>1. 0 \in 0 .. MaxCall
        BY JtagAssumption
      <4> QED  BY <1>5, <4>1
    <3> QED  BY <1>1, <2>2, <3>1 DEF NumbersInv
  <2> QED  BY <1>3, <1>4, <2>3, <2>4, <2>5 DEF NoLostWakeup, Wakeups
<1>10. ASSUME NEW t \in 0..IntMax, Ioctl(t)
       PROVE  NoLostWakeup'
  <2>1. pc' = "idle" /\ nonblock' = nonblock /\ mem' = mem /\ req' = req
    BY <1>1, <1>10 DEF Ioctl, call
  <2>2. timeout' \in 2 .. IntMax
    BY <1>10, JtagAssumption DEF Ioctl
  <2>3. ~Reading' /\ ~Writing'
    BY <2>1 DEF Reading, Writing
  <2>4. TypeOK'
    BY <1>0, <1>6, <2>1, <2>2 DEF TypeOK
  <2>5. ReadInv' /\ WriteInv'
    BY <1>1, <1>2, <2>1, <2>3 DEF ReadInv, WriteInv
  <2>6. NumbersInv'
    <3>1. printed + callsLeft' * MaxCall + 0 <= MaxCalls * MaxCall
      <4>1. 0 \in 0 .. MaxCall
        BY JtagAssumption
      <4> QED  BY <1>5, <4>1
    <3> QED  BY <1>1, <2>3, <3>1 DEF NumbersInv
  <2> QED  BY <1>3, <1>4, <2>4, <2>5, <2>6 DEF NoLostWakeup, Wakeups
<1> QED  BY <1>7, <1>8, <1>9, <1>10

\* Interrupts are masked only while there is somebody who will enable them again, in every
\* step of the routine, of the calls and of the host (altera_avalon_jtag_uart_init.c:120-200).
THEOREM WakeupsKept == Spec => []NoLostWakeup
<1>1. Init => NoLostWakeup
  <2> SUFFICES ASSUME Init PROVE NoLostWakeup
    OBVIOUS
  <2>1. 0 \in Slots /\ 0 \in Serials /\ 0 \in 0 .. MaxCall /\ 0 \in 0 .. FifoLen /\ 0 \in 0 .. MaxTyped
        /\ 0 \in 0 .. (IntMax - 2) /\ MaxCalls \in 0 .. MaxCalls
    BY JtagAssumption, Numbers DEF Slots
  <2>2. TypeOK
    <3>1. <<>> \in Seq(Serials) /\ Len(<<>>) <= FifoLen
      BY EmptySeq, JtagAssumption
    <3>2. timeout \in 2 .. IntMax
      BY JtagAssumption DEF Init
    <3> QED  BY <2>1, <3>1, <3>2 DEF Init, TypeOK
  <2>3. RoutineInv /\ ReadInv /\ WriteInv
    BY DEF Init, RoutineInv, ReadInv, WriteInv, Reading, Writing
  <2>4. NumbersInv
    <3>1. MaxCalls * MaxCall \in Nat
      BY JtagAssumption
    <3>2. ~Writing /\ printed = 0 /\ callsLeft = MaxCalls
      BY DEF Init, Writing
    <3> QED  BY <3>1, <3>2 DEF NumbersInv
  <2> QED  BY <2>2, <2>3, <2>4 DEF Init, NoLostWakeup, Wakeups
<1>2. NoLostWakeup /\ [Next]_vars => NoLostWakeup'
  <2> SUFFICES ASSUME NoLostWakeup, [Next]_vars PROVE NoLostWakeup'
    OBVIOUS
  <2>1. CASE UNCHANGED vars
    BY <2>1 DEF NoLostWakeup, TypeOK, RoutineInv, ReadInv, WriteInv, NumbersInv, Wakeups, Reading, Writing,
                vars, uart, rx, tx, watch, routine, call, host
  <2>2. CASE Next
    <3>1. CASE Proceed
      BY <3>1, ReadKeeps, WriteKeeps DEF Proceed
    <3> QED  BY <2>2, <3>1, HostKeeps, IsrKeeps, CallKeeps DEF Next
  <2> QED  BY <2>1, <2>2
<1> QED  BY <1>1, <1>2, PTL DEF Spec

-----------------------------------------------------------------------------
(* Rings as sequences. *)

\* Where the k-th character of a ring is.
Place(i, k) == (i + k - 1) % BufLen

\* It is a place of the ring, after at most one wrap.
LEMMA PlaceIs ==
  ASSUME NEW i \in Slots, NEW k \in 1 .. BufLen
  PROVE  Place(i, k) = (IF i + k - 1 < BufLen THEN i + k - 1 ELSE i + k - 1 - BufLen)
         /\ Place(i, k) \in Slots
<1>1. i \in 0 .. BufLen - 1 /\ BufLen \in Nat /\ BufLen > 0
  BY JtagAssumption DEF Slots
<1>2. i + k - 1 \in 0 .. 2 * BufLen - 1 /\ i \in Nat
  BY <1>1
<1>3. (i + k - 1) % BufLen = IF i + k - 1 < BufLen THEN i + k - 1 ELSE i + k - 1 - BufLen
  BY <1>1, <1>2, Remainder
<1> QED  BY <1>1, <1>2, <1>3 DEF Place, Slots

\* The characters of a ring.
LEMMA RingIs ==
  ASSUME NEW buf \in [Slots -> Serials], NEW i \in Slots, NEW j \in Slots
  PROVE  /\ Ring(buf, i, j) \in Seq(Serials) /\ Len(Ring(buf, i, j)) = Used(i, j)
         /\ \A k \in 1 .. Used(i, j) : Ring(buf, i, j)[k] = buf[Place(i, k)]
<1>1. Used(i, j) \in 0 .. BufLen - 1 /\ BufLen \in Nat
  BY InUse, JtagAssumption
<1>2. \A k \in 1 .. Used(i, j) : Place(i, k) \in Slots
  BY <1>1, PlaceIs
<1>3. Ring(buf, i, j) = [k \in 1 .. Used(i, j) |-> buf[Place(i, k)]]
  BY DEF Ring, Place
<1> QED  BY <1>1, <1>2, <1>3

\* What is written behind the ring, or over the free places, does not change it.
LEMMA RingSame ==
  ASSUME NEW buf \in [Slots -> Serials], NEW new \in [Slots -> Serials], NEW i \in Slots, NEW j \in Slots,
         NEW k \in Nat, j + k <= BufLen, Used(i, j) + k <= BufLen,
         \A p \in Slots : p \notin j .. j + k - 1 => new[p] = buf[p]
  PROVE  Ring(new, i, j) = Ring(buf, i, j)
<1>1. /\ Used(i, j) = IF j >= i THEN j - i ELSE j - i + BufLen
      /\ Used(i, j) \in 0 .. BufLen - 1
  BY InUse
<1>2. i \in 0 .. BufLen - 1 /\ j \in 0 .. BufLen - 1 /\ BufLen \in Nat
  BY JtagAssumption DEF Slots
<1>3. ASSUME NEW m \in 1 .. Used(i, j)  PROVE  new[Place(i, m)] = buf[Place(i, m)]
  <2>1. m \in 1 .. BufLen  BY <1>1, <1>2
  <2>2. Place(i, m) = (IF i + m - 1 < BufLen THEN i + m - 1 ELSE i + m - 1 - BufLen)
        /\ Place(i, m) \in Slots
    BY <2>1, PlaceIs
  <2>3. Place(i, m) \notin j .. j + k - 1
    BY <1>1, <1>2, <2>1, <2>2
  <2> QED  BY <2>2, <2>3
<1>4. /\ Ring(buf, i, j) = [m \in 1 .. Used(i, j) |-> buf[Place(i, m)]]
      /\ Ring(new, i, j) = [m \in 1 .. Used(i, j) |-> new[Place(i, m)]]
  BY DEF Ring, Place
<1> QED  BY <1>3, <1>4

\* A writer that goes on lengthens the ring by what it has written.
LEMMA RingGrows ==
  ASSUME NEW buf \in [Slots -> Serials], NEW i \in Slots, NEW j \in Slots,
         NEW k \in Nat, j + k <= BufLen, Used(i, j) + k < BufLen,
         NEW piece \in Seq(Serials), Len(piece) = k, \A m \in 1 .. k : piece[m] = buf[j + m - 1]
  PROVE  Ring(buf, i, (j + k) % BufLen) = Ring(buf, i, j) \o piece
<1> DEFINE to == (j + k) % BufLen
<1>1. to \in Slots
  BY Further
<1>2. Used(i, to) = Used(i, j) + k
  BY UsedMore
<1> HIDE DEF to
<1>3. /\ Used(i, j) = IF j >= i THEN j - i ELSE j - i + BufLen
      /\ Used(i, j) \in 0 .. BufLen - 1
  BY InUse
<1>4. i \in 0 .. BufLen - 1 /\ j \in 0 .. BufLen - 1 /\ BufLen \in Nat
  BY JtagAssumption DEF Slots
<1> DEFINE old == Ring(buf, i, j)  new == Ring(buf, i, to)
<1>5. /\ old \in Seq(Serials) /\ Len(old) = Used(i, j)
         /\ \A m \in 1 .. Used(i, j) : old[m] = buf[Place(i, m)]
      /\ new \in Seq(Serials) /\ Len(new) = Used(i, to)
         /\ \A m \in 1 .. Used(i, to) : new[m] = buf[Place(i, m)]
  BY <1>1, RingIs
<1> HIDE DEF old, new
<1>6. /\ old \o piece \in Seq(Serials) /\ Len(old \o piece) = Len(old) + Len(piece)
      /\ \A m \in 1 .. Len(old) + Len(piece) :
           (old \o piece)[m] = IF m <= Len(old) THEN old[m] ELSE piece[m - Len(old)]
  BY <1>5, ConcatProperties
<1>7. ASSUME NEW m \in 1 .. Len(new)  PROVE  new[m] = (old \o piece)[m]
  <2>1. m \in 1 .. Used(i, j) + k /\ m \in 1 .. BufLen
    BY <1>2, <1>3, <1>4, <1>5
  <2>2. CASE m <= Used(i, j)
    BY <1>2, <1>3, <1>5, <1>6, <2>1, <2>2
  <2>3. CASE m > Used(i, j)
    <3>1. Place(i, m) = IF i + m - 1 < BufLen THEN i + m - 1 ELSE i + m - 1 - BufLen
      BY <2>1, PlaceIs
    <3>2. Place(i, m) = j + (m - Used(i, j)) - 1
      BY <1>3, <1>4, <2>1, <2>3, <3>1
    <3>3. m - Used(i, j) \in 1 .. k
      BY <1>3, <2>1, <2>3
    <3>4. (old \o piece)[m] = piece[m - Used(i, j)]
      <4>1. m \in 1 .. Len(old) + Len(piece) /\ ~(m <= Len(old))
        BY <1>3, <1>5, <2>1, <2>3
      <4> QED  BY <1>5, <1>6, <4>1
    <3>5. new[m] = buf[Place(i, m)]
      BY <1>2, <1>5, <2>1
    <3>6. piece[m - Used(i, j)] = buf[j + (m - Used(i, j)) - 1]
      BY <3>3
    <3> QED  BY <3>2, <3>4, <3>5, <3>6
  <2>4. m \in Nat /\ Used(i, j) \in Nat
    BY <1>3, <2>1
  <2>5. m <= Used(i, j) \/ m > Used(i, j)
    BY <2>4
  <2> QED  BY <2>2, <2>3, <2>5
<1>8. Len(new) = Len(old \o piece)
  BY <1>2, <1>5, <1>6
<1>9. new = old \o piece
  BY <1>5, <1>6, <1>7, <1>8, SeqEqual
<1> QED  BY <1>9 DEF new, old, to

\* A reader that goes on shortens it at the other end.
LEMMA RingShrinks ==
  ASSUME NEW buf \in [Slots -> Serials], NEW i \in Slots, NEW j \in Slots,
         NEW k \in Nat, i + k <= BufLen, k <= Used(i, j)
  PROVE  /\ Ring(buf, (i + k) % BufLen, j) \in Seq(Serials)
         /\ Len(Ring(buf, (i + k) % BufLen, j)) = Used(i, j) - k
         /\ \A m \in 1 .. Used(i, j) - k : Ring(buf, (i + k) % BufLen, j)[m] = Ring(buf, i, j)[k + m]
<1> DEFINE from == (i + k) % BufLen
<1>1. from \in Slots /\ from = IF i + k = BufLen THEN 0 ELSE i + k
  BY Further
<1>2. Used(from, j) = Used(i, j) - k
  BY UsedLess
<1> HIDE DEF from
<1>3. Used(i, j) \in 0 .. BufLen - 1
  BY InUse
<1>4. i \in 0 .. BufLen - 1 /\ j \in 0 .. BufLen - 1 /\ BufLen \in Nat
  BY JtagAssumption DEF Slots
<1> DEFINE old == Ring(buf, i, j)  new == Ring(buf, from, j)
<1>5. /\ \A m \in 1 .. Used(i, j) : old[m] = buf[Place(i, m)]
      /\ new \in Seq(Serials) /\ Len(new) = Used(from, j)
         /\ \A m \in 1 .. Used(from, j) : new[m] = buf[Place(from, m)]
  BY <1>1, RingIs
<1> HIDE DEF old, new
<1>6. ASSUME NEW m \in 1 .. Used(i, j) - k  PROVE  new[m] = old[k + m]
  <2>1. m \in 1 .. BufLen /\ k + m \in 1 .. BufLen /\ k + m \in 1 .. Used(i, j)
    BY <1>3, <1>4
  <2>2. Place(from, m) = IF from + m - 1 < BufLen THEN from + m - 1 ELSE from + m - 1 - BufLen
    BY <1>1, <2>1, PlaceIs
  <2>3. Place(i, k + m) = IF i + (k + m) - 1 < BufLen THEN i + (k + m) - 1 ELSE i + (k + m) - 1 - BufLen
    BY <2>1, PlaceIs
  <2>4. Place(from, m) = Place(i, k + m)
    BY <1>1, <1>3, <1>4, <2>1, <2>2, <2>3
  <2> QED  BY <1>2, <1>5, <2>1, <2>4
<1> QED  BY <1>2, <1>5, <1>6 DEF new, old, from

-----------------------------------------------------------------------------
(* The streams. *)

\* The streams are sequences of characters, no longer than ring and FIFO.
LEMMA StreamTypes ==
  ASSUME NoLostWakeup
  PROVE  /\ Ring(rxBuf, rxOut, rxIn) \in Seq(Serials) /\ Len(Ring(rxBuf, rxOut, rxIn)) = Used(rxOut, rxIn)
         /\ Ring(txBuf, txOut, txIn) \in Seq(Serials) /\ Len(Ring(txBuf, txOut, txIn)) = Used(txOut, txIn)
         /\ rfifo \in Seq(Serials) /\ wfifo \in Seq(Serials)
         /\ Input \in Seq(Serials) /\ Len(Input) = Used(rxOut, rxIn) + Len(rfifo)
         /\ Output \in Seq(Serials) /\ Len(Output) = Len(wfifo) + Used(txOut, txIn)
<1>1. TypeOK
  BY DEF NoLostWakeup
<1>2. /\ Ring(rxBuf, rxOut, rxIn) \in Seq(Serials) /\ Len(Ring(rxBuf, rxOut, rxIn)) = Used(rxOut, rxIn)
      /\ Ring(txBuf, txOut, txIn) \in Seq(Serials) /\ Len(Ring(txBuf, txOut, txIn)) = Used(txOut, txIn)
  BY <1>1, RingIs DEF TypeOK
<1>3. rfifo \in Seq(Serials) /\ wfifo \in Seq(Serials)
  BY <1>1 DEF TypeOK
<1> QED  BY <1>2, <1>3, ConcatProperties DEF Input, Output

\* A part of a sequence.
LEMMA Part ==
  ASSUME NEW S, NEW s \in Seq(S), NEW a \in Nat, NEW b \in Nat, a <= b, b <= Len(s)
  PROVE  /\ SubSeq(s, a + 1, b) \in Seq(S) /\ Len(SubSeq(s, a + 1, b)) = b - a
         /\ \A i \in 1 .. b - a : SubSeq(s, a + 1, b)[i] = s[a + i]
<1>1. Len(s) \in Nat /\ \A i \in 1 .. Len(s) : s[i] \in S
  BY LenProperties, ElementOfSeq
<1>2. \A i \in a + 1 .. b : s[i] \in S
  BY <1>1
<1>3. /\ SubSeq(s, a + 1, b) \in Seq(S)
      /\ Len(SubSeq(s, a + 1, b)) = IF a + 1 <= b THEN b - (a + 1) + 1 ELSE 0
      /\ \A i \in 1 .. b - (a + 1) + 1 : SubSeq(s, a + 1, b)[i] = s[(a + 1) + i - 1]
  BY <1>2, SubSeqProperties
<1>4. ASSUME NEW i \in 1 .. b - a  PROVE  SubSeq(s, a + 1, b)[i] = s[a + i]
  <2>1. i \in 1 .. b - (a + 1) + 1 /\ (a + 1) + i - 1 = a + i  OBVIOUS
  <2> QED  BY <1>3, <2>1
<1> QED  BY <1>3, <1>4

\* What a call has taken and what it has still to give.
LEMMA CallTypes ==
  ASSUME NoLostWakeup
  PROVE  /\ Got \in Seq(Serials) /\ Todo \in Seq(Serials)
         /\ Reading => Len(Got) = cnt /\ \A i \in 1 .. cnt : Got[i] = mem[i]
         /\ Writing => Len(Todo) = req - cnt /\ \A i \in 1 .. req - cnt : Todo[i] = mem[cnt + i]
         /\ ~Reading => Got = <<>>
         /\ ~Writing => Todo = <<>>
         /\ Reading => ~Writing
<1>1. TypeOK /\ ReadInv /\ WriteInv
  BY DEF NoLostWakeup
<1>2. mem \in Seq(Serials) /\ cnt \in Nat /\ req \in Nat /\ cnt <= req /\ n \in Nat
  BY <1>1, Bounds DEF TypeOK
<1>3. <<>> \in Seq(Serials)
  BY EmptySeq
<1>4. ASSUME Reading
      PROVE  Got \in Seq(Serials) /\ Len(Got) = cnt /\ \A i \in 1 .. cnt : Got[i] = mem[i]
  <2>1. cnt <= Len(mem)
    BY <1>1, <1>2, <1>4 DEF ReadInv
  <2>2. Got = SubSeq(mem, 0 + 1, cnt)
    <3>1. 0 + 1 = 1  OBVIOUS
    <3> QED  BY <1>4, <3>1 DEF Got
  <2>3. /\ Got \in Seq(Serials) /\ Len(Got) = cnt - 0
        /\ \A i \in 1 .. cnt - 0 : Got[i] = mem[0 + i]
    BY <1>2, <2>1, <2>2, Part
  <2>4. cnt - 0 = cnt /\ \A i \in 1 .. cnt : 0 + i = i
    BY <1>2
  <2> QED  BY <2>3, <2>4
<1>5. ASSUME Writing
      PROVE  Todo \in Seq(Serials) /\ Len(Todo) = req - cnt
             /\ \A i \in 1 .. req - cnt : Todo[i] = mem[cnt + i]
  <2>1. req <= Len(mem)
    BY <1>1, <1>2, <1>5 DEF WriteInv
  <2> QED  BY <1>2, <1>5, <2>1, Part DEF Todo
<1>6. (~Reading => Got = <<>>) /\ (~Writing => Todo = <<>>)
  BY DEF Got, Todo
<1>7. Reading => ~Writing
  BY DEF Reading, Writing
<1> QED  BY <1>3, <1>4, <1>5, <1>6, <1>7

\* One more character at the end of the input is Console's Type.
LEMMA Types ==
  ASSUME NoLostWakeup, typed < MaxTyped, Len(rfifo) < FifoLen, rfifo' = Append(rfifo, typed),
         UNCHANGED <<rx, tx, wfifo, call>>
  PROVE  Streams!Type
<1>1. TypeOK
  BY DEF NoLostWakeup
<1>2. typed \in Serials
  BY <1>1, Numbers DEF TypeOK
<1>3. UNCHANGED <<Got, Todo, Output>>
  BY DEF Got, Todo, Output, Reading, Writing, call, tx
<1> DEFINE r == Ring(rxBuf, rxOut, rxIn)
<1>4. Input' = Append(Input, typed)
  <2>1. Input = r \o rfifo /\ Input' = r \o Append(rfifo, typed)
    BY DEF Input, rx
  <2>2. r \in Seq(Serials) /\ rfifo \in Seq(Serials)
    BY StreamTypes
  <2> HIDE DEF r
  <2>3. r \o Append(rfifo, typed) = Append(r \o rfifo, typed)
    BY <1>2, <2>2
  <2> QED  BY <2>1, <2>3
<1>5. Len(Input) < BufLen - 1 + FifoLen + MaxCall
  <2>1. Len(rfifo) \in Nat /\ Used(rxOut, rxIn) \in 0 .. BufLen - 1 /\ BufLen \in Nat
        /\ MaxCall \in Nat /\ FifoLen \in Nat
    BY <1>1, Bounds, LenProperties, StreamTypes
  <2>2. Len(Input) = Used(rxOut, rxIn) + Len(rfifo)
    BY StreamTypes
  <2> QED  BY <2>1, <2>2
<1> QED  BY <1>2, <1>3, <1>4, <1>5 DEF Streams!Type

\* The routine moves a character from the FIFO into the ring.
LEMMA ReadMoves ==
  ASSUME NoLostWakeup, IsrRxRead
  PROVE  Input' = Input
<1>1. TypeOK
  BY DEF NoLostWakeup
<1>2. /\ Succ(rxIn) # rxOut /\ rfifo # <<>> /\ rxBuf' = [rxBuf EXCEPT ![rxIn] = Head(rfifo)]
      /\ rxIn' = Succ(rxIn) /\ rfifo' = Tail(rfifo) /\ rxOut' = rxOut
  BY DEF IsrRxRead
<1>3. /\ rxBuf \in [Slots -> Serials] /\ rxIn \in Slots /\ rxOut \in Slots /\ rfifo \in Seq(Serials)
  BY <1>1 DEF TypeOK
<1>4. Head(rfifo) \in Serials /\ Tail(rfifo) \in Seq(Serials)
  BY <1>2, <1>3, HeadTailProperties
<1>5. /\ rxBuf' \in [Slots -> Serials] /\ rxBuf'[rxIn] = Head(rfifo)
      /\ \A p \in Slots : p # rxIn => rxBuf'[p] = rxBuf[p]
  BY <1>2, <1>3, <1>4
<1>6. /\ rxIn \in Nat /\ rxIn + 1 <= BufLen /\ Used(rxOut, rxIn) + 1 < BufLen
  <2>1. Used(rxOut, Succ(rxIn)) = Used(rxOut, rxIn) + 1
    BY <1>2, <1>3, UsedNext
  <2>2. Used(rxOut, Succ(rxIn)) \in 0 .. BufLen - 1 /\ Used(rxOut, rxIn) \in 0 .. BufLen - 1
    BY <1>3, InUse, NextPlace
  <2>3. rxIn \in 0 .. BufLen - 1 /\ BufLen \in Nat
    BY <1>1, Bounds
  <2> QED  BY <2>1, <2>2, <2>3
<1> DEFINE r == Ring(rxBuf, rxOut, rxIn)  c == Head(rfifo)  t == Tail(rfifo)
<1>7. Ring(rxBuf', rxOut, rxIn) = r
  <2>1. \A p \in Slots : p \notin rxIn .. rxIn + 1 - 1 => rxBuf'[p] = rxBuf[p]
    <3>1. rxIn \in rxIn .. rxIn + 1 - 1
      BY <1>6
    <3> QED  BY <1>5, <3>1
  <2>2. Used(rxOut, rxIn) + 1 <= BufLen
    <3>1. Used(rxOut, rxIn) \in Nat /\ BufLen \in Nat
      BY <1>1, Bounds
    <3> QED  BY <1>6, <3>1
  <2>3. 1 \in Nat  OBVIOUS
  <2> QED  BY <1>3, <1>5, <1>6, <2>1, <2>2, <2>3, RingSame
<1>8. Ring(rxBuf', rxOut, Succ(rxIn)) = Ring(rxBuf', rxOut, rxIn) \o <<c>>
  <2>1. <<c>> \in Seq(Serials) /\ Len(<<c>>) = 1 /\ \A m \in 1 .. 1 : <<c>>[m] = rxBuf'[rxIn + m - 1]
    <3>1. \A m \in 1 .. 1 : m = 1  OBVIOUS
    <3>2. rxIn + 1 - 1 = rxIn  BY <1>6
    <3> QED  BY <1>4, <1>5, <3>1, <3>2
  <2>2. 1 \in Nat  OBVIOUS
  <2> HIDE DEF c
  <2> QED  BY <1>3, <1>5, <1>6, <2>1, <2>2, RingGrows DEF Succ
<1>9. Input' = (r \o <<c>>) \o t /\ Input = r \o rfifo
  BY <1>2, <1>7, <1>8 DEF Input
<1>10. r \in Seq(Serials) /\ <<c>> \in Seq(Serials) /\ t \in Seq(Serials) /\ <<c>> \o t = rfifo
  <2>1. r \in Seq(Serials)
    BY StreamTypes
  <2>2. <<c>> \o t = rfifo
    BY <1>2, <1>3
  <2> QED  BY <1>4, <2>1, <2>2
<1> HIDE DEF r, c, t
<1>11. (r \o <<c>>) \o t = r \o (<<c>> \o t)
  BY <1>10, ConcatAssociative
<1> QED  BY <1>9, <1>10, <1>11

\* And one from the ring into the FIFO, for which it has counted a free place.
LEMMA WriteMoves ==
  ASSUME NoLostWakeup, IsrTxWrite
  PROVE  Output' = Output
<1>1. TypeOK /\ RoutineInv
  BY DEF NoLostWakeup
<1>2. /\ isr = "tx" /\ space > 0 /\ txOut # txIn /\ txOut' = Succ(txOut) /\ txIn' = txIn /\ txBuf' = txBuf
      /\ wfifo' = IF Len(wfifo) < FifoLen THEN Append(wfifo, txBuf[txOut]) ELSE wfifo
  BY DEF IsrTxWrite
<1>3. /\ txBuf \in [Slots -> Serials] /\ txIn \in Slots /\ txOut \in Slots /\ wfifo \in Seq(Serials)
  BY <1>1 DEF TypeOK
<1>4. Len(wfifo) < FifoLen
  BY <1>1, <1>2, JtagAssumption DEF RoutineInv, TypeOK
<1> DEFINE c == txBuf[txOut]  r == Ring(txBuf, txOut, txIn)  t == Ring(txBuf, Succ(txOut), txIn)
<1>5. r \in Seq(Serials) /\ Len(r) = Used(txOut, txIn) /\ c \in Serials
  BY <1>3, StreamTypes
<1>6. /\ Used(txOut, txIn) \in Nat /\ 1 <= Used(txOut, txIn) /\ txOut \in 0 .. BufLen - 1 /\ BufLen \in Nat
      /\ txOut + 1 <= BufLen
  <2>1. Used(txOut, txIn) \in 0 .. BufLen - 1 /\ Used(txOut, txIn) # 0
    BY <1>2, <1>3, InUse
  <2>2. txOut \in 0 .. BufLen - 1 /\ BufLen \in Nat
    BY <1>1, Bounds
  <2> QED  BY <2>1, <2>2
<1>7. /\ t \in Seq(Serials) /\ Len(t) = Used(txOut, txIn) - 1
      /\ \A m \in 1 .. Used(txOut, txIn) - 1 : t[m] = r[1 + m]
  <2>1. 1 \in Nat  OBVIOUS
  <2> QED  BY <1>3, <1>6, <2>1, RingShrinks DEF Succ
<1>8. r[1] = c
  <2>1. Place(txOut, 1) = txOut
    <3>1. 1 \in 1 .. BufLen
      BY <1>6
    <3>2. Place(txOut, 1) = IF txOut + 1 - 1 < BufLen THEN txOut + 1 - 1 ELSE txOut + 1 - 1 - BufLen
      BY <1>3, <3>1, PlaceIs
    <3> QED  BY <1>6, <3>2
  <2>2. 1 \in 1 .. Used(txOut, txIn)
    BY <1>6
  <2>3. r[1] = txBuf[Place(txOut, 1)]
    BY <1>3, <2>2, RingIs
  <2> QED  BY <2>1, <2>3
<1> HIDE DEF c, r, t
<1>9. <<c>> \o t = r
  <2>1. <<c>> \in Seq(Serials) /\ Len(<<c>>) = 1 /\ <<c>>[1] = c
    BY <1>5
  <2>2. /\ <<c>> \o t \in Seq(Serials) /\ Len(<<c>> \o t) = Len(<<c>>) + Len(t)
        /\ \A i \in 1 .. Len(<<c>>) + Len(t) :
             (<<c>> \o t)[i] = IF i <= Len(<<c>>) THEN <<c>>[i] ELSE t[i - Len(<<c>>)]
    BY <1>7, <2>1, ConcatProperties
  <2>3. Len(<<c>> \o t) = Len(r)
    BY <1>5, <1>6, <1>7, <2>1, <2>2
  <2>4. ASSUME NEW i \in 1 .. Len(<<c>> \o t)  PROVE  (<<c>> \o t)[i] = r[i]
    <3>1. i \in 1 .. Used(txOut, txIn)
      BY <1>5, <2>3
    <3>2. CASE i = 1
      <4>1. (<<c>> \o t)[i] = <<c>>[i]
        BY <2>1, <2>2, <3>2
      <4> QED  BY <1>8, <2>1, <3>2, <4>1
    <3>3. CASE i # 1
      <4>1. i - 1 \in 1 .. Used(txOut, txIn) - 1 /\ 1 + (i - 1) = i /\ ~(i <= 1)
        BY <1>6, <3>1, <3>3
      <4>2. (<<c>> \o t)[i] = t[i - 1]
        BY <2>1, <2>2, <4>1
      <4>3. t[i - 1] = r[1 + (i - 1)]
        BY <1>7, <4>1
      <4> QED  BY <4>1, <4>2, <4>3
    <3> QED  BY <3>2, <3>3
  <2> QED  BY <1>5, <2>2, <2>3, <2>4, SeqEqual
<1>10. wfifo' = wfifo \o <<c>>
  BY <1>2, <1>3, <1>4, <1>5 DEF c
<1>11. Output' = (wfifo \o <<c>>) \o t /\ Output = wfifo \o r
  BY <1>2, <1>10 DEF Output, r, t
<1>12. (wfifo \o <<c>>) \o t = wfifo \o (<<c>> \o t)
  <2>1. <<c>> \in Seq(Serials)
    BY <1>5
  <2> QED  BY <1>3, <1>7, <2>1, ConcatAssociative
<1> QED  BY <1>9, <1>11, <1>12

\* The host shows the first character that has been written.
LEMMA Shows ==
  ASSUME NoLostWakeup, HostReceive
  PROVE  Streams!Show
<1>1. TypeOK
  BY DEF NoLostWakeup
<1>2. wfifo # <<>> /\ wfifo' = Tail(wfifo) /\ UNCHANGED <<rfifo, rx, tx, call>>
  BY DEF HostReceive
<1>3. UNCHANGED <<Input, Got, Todo>>
  BY <1>2 DEF Input, Got, Todo, Reading, Writing, call, rx
<1> DEFINE r == Ring(txBuf, txOut, txIn)
<1>4. wfifo \in Seq(Serials) /\ r \in Seq(Serials)
  BY <1>1, StreamTypes DEF TypeOK
<1>5. Output = wfifo \o r /\ Output' = Tail(wfifo) \o r
  BY <1>2 DEF Output, tx
<1> HIDE DEF r
<1>6. wfifo \o r # <<>> /\ Tail(wfifo \o r) = Tail(wfifo) \o r
  <2>1. /\ wfifo \o r \in Seq(Serials) /\ Len(wfifo \o r) = Len(wfifo) + Len(r)
        /\ \A i \in 1 .. Len(wfifo) + Len(r) :
             (wfifo \o r)[i] = IF i <= Len(wfifo) THEN wfifo[i] ELSE r[i - Len(wfifo)]
    BY <1>4, ConcatProperties
  <2>2. Len(wfifo) \in Nat /\ Len(wfifo) > 0 /\ Len(r) \in Nat
    BY <1>2, <1>4, EmptySeq, LenProperties
  <2>3. wfifo \o r # <<>>
    <3>1. Len(<<>>) = 0  OBVIOUS
    <3> QED  BY <2>1, <2>2, <3>1
  <2>4. /\ Tail(wfifo \o r) \in Seq(Serials) /\ Len(Tail(wfifo \o r)) = Len(wfifo \o r) - 1
        /\ \A i \in 1 .. Len(Tail(wfifo \o r)) : Tail(wfifo \o r)[i] = (wfifo \o r)[i + 1]
    BY <2>1, <2>3, HeadTailProperties
  <2>5. /\ Tail(wfifo) \in Seq(Serials) /\ Len(Tail(wfifo)) = Len(wfifo) - 1
        /\ \A i \in 1 .. Len(Tail(wfifo)) : Tail(wfifo)[i] = wfifo[i + 1]
    BY <1>2, <1>4, HeadTailProperties
  <2>6. /\ Tail(wfifo) \o r \in Seq(Serials) /\ Len(Tail(wfifo) \o r) = Len(Tail(wfifo)) + Len(r)
        /\ \A i \in 1 .. Len(Tail(wfifo)) + Len(r) :
             (Tail(wfifo) \o r)[i] = IF i <= Len(Tail(wfifo)) THEN Tail(wfifo)[i]
                   ELSE r[i - Len(Tail(wfifo))]
    BY <1>4, <2>5, ConcatProperties
  <2>7. Len(Tail(wfifo \o r)) = Len(Tail(wfifo) \o r)
    BY <2>1, <2>2, <2>4, <2>5, <2>6
  <2>8. ASSUME NEW i \in 1 .. Len(Tail(wfifo \o r))  PROVE  Tail(wfifo \o r)[i] = (Tail(wfifo) \o r)[i]
    <3>1. /\ i \in Nat /\ i + 1 \in 1 .. Len(wfifo) + Len(r) /\ i \in 1 .. Len(Tail(wfifo)) + Len(r)
      BY <2>1, <2>2, <2>4, <2>5
    <3>2. Tail(wfifo \o r)[i] = IF i + 1 <= Len(wfifo) THEN wfifo[i + 1] ELSE r[i + 1 - Len(wfifo)]
      BY <2>1, <2>4, <3>1
    <3>3. (Tail(wfifo) \o r)[i] = IF i <= Len(Tail(wfifo)) THEN Tail(wfifo)[i] ELSE r[i - Len(Tail(wfifo))]
      BY <2>6, <3>1
    <3>4. CASE i + 1 <= Len(wfifo)
      <4>1. i <= Len(Tail(wfifo)) /\ i \in 1 .. Len(Tail(wfifo))
        BY <2>2, <2>5, <3>1, <3>4
      <4> QED  BY <2>5, <3>2, <3>3, <3>4, <4>1
    <3>5. CASE ~(i + 1 <= Len(wfifo))
      <4>1. ~(i <= Len(Tail(wfifo))) /\ i + 1 - Len(wfifo) = i - Len(Tail(wfifo))
        BY <2>2, <2>5, <3>1, <3>5
      <4> QED  BY <3>2, <3>3, <3>5, <4>1
    <3> QED  BY <3>4, <3>5
  <2>9. Tail(wfifo \o r) = Tail(wfifo) \o r
    BY <2>4, <2>6, <2>7, <2>8, SeqEqual
  <2> QED  BY <2>3, <2>9
<1> QED  BY <1>3, <1>5, <1>6 DEF Streams!Show

\* What a call of read copies stays in the ring until it gives the places back: then the
\* characters have gone over from the one stream to the other.
LEMMA Takes ==
  ASSUME NoLostWakeup, NoLostWakeup', ReadOut
  PROVE  Streams!Take
<1>1. TypeOK /\ ReadInv
  BY DEF NoLostWakeup
<1>2. /\ pc = "r_out" /\ cnt' = cnt + n /\ rxOut' = (rxOut + n) % BufLen
      /\ pc' = IF cnt + n < req THEN "r_in" ELSE "r_enable"
      /\ UNCHANGED <<mem, req, rxIn, rxBuf, rfifo, wfifo, tx>>
  BY DEF ReadOut, Running, Elsewhere, uart
<1>3. /\ n > 0 /\ cnt + n <= req /\ rxOut + n <= BufLen /\ n <= Used(rxOut, rxIn) /\ Len(mem) = cnt + n
      /\ \A i \in 1 .. n : mem[cnt + i] = rxBuf[rxOut + i - 1]
  BY <1>1, <1>2 DEF ReadInv, Reading
<1>4. Reading /\ Reading' /\ ~Writing /\ ~Writing'
  BY <1>2 DEF Reading, Writing
<1>5. UNCHANGED <<Todo, Output>>
  BY <1>2, <1>4 DEF Todo, Output, tx
<1>6. /\ cnt \in Nat /\ n \in Nat /\ rxOut \in 0 .. BufLen - 1 /\ BufLen \in Nat
         /\ Used(rxOut, rxIn) \in Nat
  BY <1>1, Bounds
<1> DEFINE old == Ring(rxBuf, rxOut, rxIn)  new == Ring(rxBuf, (rxOut + n) % BufLen, rxIn)
<1>7. /\ old \in Seq(Serials) /\ Len(old) = Used(rxOut, rxIn) /\ rfifo \in Seq(Serials)
      /\ Input \in Seq(Serials) /\ Len(Input) = Len(old) + Len(rfifo) /\ Len(rfifo) \in Nat
  BY StreamTypes, LenProperties
<1>8. /\ new \in Seq(Serials) /\ Len(new) = Len(old) - n
      /\ \A m \in 1 .. Len(old) - n : new[m] = old[n + m]
  <2>1. /\ new \in Seq(Serials) /\ Len(new) = Used(rxOut, rxIn) - n
        /\ \A m \in 1 .. Used(rxOut, rxIn) - n : new[m] = old[n + m]
    <3>1. rxOut \in Slots /\ rxIn \in Slots /\ rxBuf \in [Slots -> Serials]
      BY <1>1 DEF TypeOK
    <3>2. n \in Nat /\ rxOut + n <= BufLen /\ n <= Used(rxOut, rxIn)
      BY <1>3, <1>6
    <3> QED  BY <3>1, <3>2, RingShrinks
  <2>2. Used(rxOut, rxIn) = Len(old)
    BY <1>7
  <2> QED  BY <2>1, <2>2
<1>9. \A i \in 1 .. n : old[i] = mem[cnt + i]
  <2>1. TAKE i \in 1 .. n
  <2>2. i \in 1 .. BufLen /\ i \in 1 .. Used(rxOut, rxIn)
    BY <1>3, <1>6
  <2>3. Place(rxOut, i) = IF rxOut + i - 1 < BufLen THEN rxOut + i - 1 ELSE rxOut + i - 1 - BufLen
    BY <1>1, <2>2, PlaceIs DEF TypeOK
  <2>4. Place(rxOut, i) = rxOut + i - 1
    BY <1>3, <1>6, <2>2, <2>3
  <2>5. old[i] = rxBuf[Place(rxOut, i)]
    BY <1>1, <2>2, RingIs DEF TypeOK
  <2> QED  BY <1>3, <2>4, <2>5
<1>10. Input = old \o rfifo /\ Input' = new \o rfifo
  BY <1>2 DEF Input
<1> HIDE DEF old, new
<1>11. \A i \in 1 .. Len(old) + Len(rfifo) : Input[i] = IF i <= Len(old) THEN old[i]
         ELSE rfifo[i - Len(old)]
  BY <1>7, <1>10, ConcatProperties
<1>12. n \in 1 .. Len(Input)
  BY <1>3, <1>6, <1>7
<1>13. Input' = SubSeq(Input, n + 1, Len(Input))
  <2> DEFINE rest == SubSeq(Input, n + 1, Len(Input))
  <2>1. /\ rest \in Seq(Serials) /\ Len(rest) = Len(Input) - n
        /\ \A i \in 1 .. Len(Input) - n : rest[i] = Input[n + i]
    <3>1. n \in Nat /\ Len(Input) \in Nat /\ n <= Len(Input)
      BY <1>7, <1>12, LenProperties
    <3>2. Len(Input) <= Len(Input)
      BY <3>1
    <3> QED  BY <1>7, <3>1, <3>2, Part
  <2> HIDE DEF rest
  <2>2. /\ new \o rfifo \in Seq(Serials) /\ Len(new \o rfifo) = Len(new) + Len(rfifo)
        /\ \A i \in 1 .. Len(new) + Len(rfifo) :
             (new \o rfifo)[i] = IF i <= Len(new) THEN new[i] ELSE rfifo[i - Len(new)]
    BY <1>7, <1>8, ConcatProperties
  <2>3. Len(new \o rfifo) = Len(rest)
    BY <1>3, <1>6, <1>7, <1>8, <2>1, <2>2
  <2>4. ASSUME NEW i \in 1 .. Len(new \o rfifo)  PROVE  (new \o rfifo)[i] = rest[i]
    <3>1. /\ i \in 1 .. Len(new) + Len(rfifo) /\ i \in 1 .. Len(Input) - n
             /\ n + i \in 1 .. Len(old) + Len(rfifo)
          /\ Len(new) \in Nat /\ Len(old) \in Nat /\ i \in Nat
      BY <1>3, <1>6, <1>7, <1>8, <2>2
    <3>2. rest[i] = IF n + i <= Len(old) THEN old[n + i] ELSE rfifo[n + i - Len(old)]
      <4>1. rest[i] = Input[n + i]
        BY <2>1, <3>1
      <4>2. Input[n + i] = IF n + i <= Len(old) THEN old[n + i] ELSE rfifo[n + i - Len(old)]
        BY <1>6, <1>11, <3>1
      <4> QED  BY <4>1, <4>2
    <3>3. (new \o rfifo)[i] = IF i <= Len(new) THEN new[i] ELSE rfifo[i - Len(new)]
      BY <2>2, <3>1
    <3>4. CASE i <= Len(new)
      <4>1. n + i <= Len(old) /\ i \in 1 .. Len(old) - n
        BY <1>6, <1>8, <3>1, <3>4
      <4> QED  BY <1>8, <3>2, <3>3, <3>4, <4>1
    <3>5. CASE ~(i <= Len(new))
      <4>1. ~(n + i <= Len(old)) /\ n + i - Len(old) = i - Len(new)
        BY <1>6, <1>8, <3>1, <3>5
      <4> QED  BY <3>2, <3>3, <3>5, <4>1
    <3> QED  BY <3>4, <3>5
  <2>5. new \o rfifo = rest
    BY <2>1, <2>2, <2>3, <2>4, SeqEqual
  <2> QED  BY <1>10, <2>5 DEF rest
<1>14. Got' = Got \o SubSeq(Input, 1, n)
  <2> DEFINE piece == SubSeq(Input, 1, n)
  <2>1. piece \in Seq(Serials) /\ Len(piece) = n /\ \A i \in 1 .. n : piece[i] = Input[i]
    <3>1. /\ SubSeq(Input, 0 + 1, n) \in Seq(Serials) /\ Len(SubSeq(Input, 0 + 1, n)) = n - 0
          /\ \A i \in 1 .. n - 0 : SubSeq(Input, 0 + 1, n)[i] = Input[0 + i]
      <4>1. 0 \in Nat /\ 0 <= n /\ n <= Len(Input)
        BY <1>6, <1>12
      <4> QED  BY <1>6, <1>7, <4>1, Part
    <3>2. 0 + 1 = 1 /\ n - 0 = n /\ \A i \in 1 .. n : 0 + i = i
      BY <1>6
    <3> QED  BY <3>1, <3>2
  <2> HIDE DEF piece
  <2>2. \A i \in 1 .. n : piece[i] = mem[cnt + i]
    <3>1. TAKE i \in 1 .. n
    <3>2. i \in 1 .. Len(old) + Len(rfifo) /\ i <= Len(old)
      BY <1>3, <1>6, <1>7
    <3> QED  BY <1>9, <1>11, <2>1, <3>2
  <2>3. Got \in Seq(Serials) /\ Len(Got) = cnt /\ \A i \in 1 .. cnt : Got[i] = mem[i]
    BY <1>4, CallTypes
  <2>4. Got' \in Seq(Serials) /\ Len(Got') = cnt + n /\ \A i \in 1 .. cnt + n : Got'[i] = mem[i]
    <3> DEFINE k == cnt + n
    <3>1. 0 \in Nat /\ 0 <= k /\ k <= Len(mem) /\ k \in Nat /\ mem \in Seq(Serials)
      BY <1>1, <1>3, <1>6 DEF TypeOK
    <3>2. Got' = SubSeq(mem, 1, k)
      BY <1>2, <1>4 DEF Got
    <3> HIDE DEF k
    <3>3. /\ SubSeq(mem, 0 + 1, k) \in Seq(Serials) /\ Len(SubSeq(mem, 0 + 1, k)) = k - 0
          /\ \A i \in 1 .. k - 0 : SubSeq(mem, 0 + 1, k)[i] = mem[0 + i]
      BY <3>1, Part
    <3>4. 0 + 1 = 1 /\ k - 0 = k /\ \A i \in 1 .. k : 0 + i = i
      BY <3>1
    <3>5. Got' \in Seq(Serials) /\ Len(Got') = k /\ \A i \in 1 .. k : Got'[i] = mem[i]
      BY <3>2, <3>3, <3>4
    <3> QED  BY <3>5 DEF k
  <2>5. /\ Got \o piece \in Seq(Serials) /\ Len(Got \o piece) = Len(Got) + Len(piece)
        /\ \A i \in 1 .. Len(Got) + Len(piece) :
             (Got \o piece)[i] = IF i <= Len(Got) THEN Got[i] ELSE piece[i - Len(Got)]
    BY <2>1, <2>3, ConcatProperties
  <2>6. ASSUME NEW i \in 1 .. Len(Got')  PROVE  Got'[i] = (Got \o piece)[i]
    <3>1. i \in 1 .. cnt + n /\ i \in Nat
      BY <1>6, <2>4
    <3>2. (Got \o piece)[i] = IF i <= cnt THEN Got[i] ELSE piece[i - cnt]
      BY <2>1, <2>3, <2>5, <3>1
    <3>3. CASE i <= cnt
      <4>1. i \in 1 .. cnt
        BY <1>6, <3>1, <3>3
      <4> QED  BY <2>3, <2>4, <3>1, <3>2, <3>3, <4>1
    <3>4. CASE ~(i <= cnt)
      <4>1. i - cnt \in 1 .. n /\ cnt + (i - cnt) = i
        BY <1>6, <3>1, <3>4
      <4>2. piece[i - cnt] = mem[cnt + (i - cnt)]
        BY <2>2, <4>1
      <4> QED  BY <2>4, <3>1, <3>2, <3>4, <4>1, <4>2
    <3> QED  BY <3>3, <3>4
  <2>7. Len(Got') = Len(Got \o piece)
    BY <2>1, <2>3, <2>4, <2>5
  <2>8. Got' = Got \o piece
    BY <2>4, <2>5, <2>6, <2>7, SeqEqual
  <2> QED  BY <2>8 DEF piece
<1> QED  BY <1>5, <1>12, <1>13, <1>14 DEF Streams!Take, Streams!Suffix

\* A piece that a call of write has copied is given when the index moves over it.
LEMMA Accepts ==
  ASSUME NoLostWakeup, NoLostWakeup', WriteIn
  PROVE  Streams!Accept
<1>1. TypeOK /\ WriteInv
  BY DEF NoLostWakeup
<1>2. /\ pc = "w_in" /\ cnt' = cnt + n /\ txIn' = (txIn + n) % BufLen
      /\ pc' = IF cnt + n < req THEN "w_out" ELSE "w_enable"
      /\ UNCHANGED <<mem, req, txOut, txBuf, rfifo, wfifo, rx>>
  BY DEF WriteIn, Running, uart
<1>3. Writing /\ Writing' /\ ~Reading /\ ~Reading'
  BY <1>2 DEF Reading, Writing
<1>4. /\ n > 0 /\ cnt + n <= req /\ txIn + n <= BufLen /\ Used(txOut, txIn) + n < BufLen /\ Len(mem) = req
      /\ \A i \in 1 .. n : txBuf[txIn + i - 1] = mem[cnt + i]
  BY <1>1, <1>2, <1>3 DEF WriteInv
<1>5. UNCHANGED <<Input, Got>>
  BY <1>2, <1>3 DEF Input, Got, rx
<1>6. /\ cnt \in Nat /\ n \in Nat /\ req \in Nat /\ BufLen \in Nat /\ Used(txOut, txIn) \in 0 .. BufLen - 1
      /\ n <= req /\ req <= MaxCall /\ MaxCall \in Nat /\ FifoLen \in Nat
  BY <1>1, Bounds
<1>7. Todo \in Seq(Serials) /\ Len(Todo) = req - cnt /\ \A i \in 1 .. req - cnt : Todo[i] = mem[cnt + i]
  BY <1>3, CallTypes
<1>8. n \in 1 .. Len(Todo)
  BY <1>4, <1>6, <1>7
<1> DEFINE piece == SubSeq(Todo, 1, n)  old == Ring(txBuf, txOut, txIn)
<1>9. piece \in Seq(Serials) /\ Len(piece) = n /\ \A i \in 1 .. n : piece[i] = Todo[i]
  <2>1. /\ SubSeq(Todo, 0 + 1, n) \in Seq(Serials) /\ Len(SubSeq(Todo, 0 + 1, n)) = n - 0
        /\ \A i \in 1 .. n - 0 : SubSeq(Todo, 0 + 1, n)[i] = Todo[0 + i]
    <3>1. 0 \in Nat /\ 0 <= n /\ n <= Len(Todo)
      BY <1>6, <1>8
    <3> QED  BY <1>6, <1>7, <3>1, Part
  <2>2. 0 + 1 = 1 /\ n - 0 = n /\ \A i \in 1 .. n : 0 + i = i
    BY <1>6
  <2> QED  BY <2>1, <2>2
<1>10. Ring(txBuf, txOut, (txIn + n) % BufLen) = old \o piece
  <2>1. txOut \in Slots /\ txIn \in Slots /\ txBuf \in [Slots -> Serials]
    BY <1>1 DEF TypeOK
  <2>2. \A i \in 1 .. n : piece[i] = txBuf[txIn + i - 1]
    <3>1. TAKE i \in 1 .. n
    <3>2. i \in 1 .. req - cnt
      BY <1>4, <1>6
    <3> QED  BY <1>4, <1>7, <1>9, <3>2
  <2> HIDE DEF piece
  <2> QED  BY <1>4, <1>6, <1>9, <2>1, <2>2, RingGrows
<1>11. old \in Seq(Serials) /\ wfifo \in Seq(Serials)
  BY StreamTypes
<1>12. Output' = wfifo \o (old \o piece) /\ Output = wfifo \o old
  BY <1>2, <1>10 DEF Output
<1> HIDE DEF piece, old
<1>13. Output' = Output \o piece
  <2>1. (wfifo \o old) \o piece = wfifo \o (old \o piece)
    BY <1>9, <1>11, ConcatAssociative
  <2> QED  BY <1>12, <2>1
<1>14. Len(Output) + n <= BufLen - 1 + FifoLen + MaxCall
  <2>1. Len(Output) = Len(wfifo) + Used(txOut, txIn)
    BY StreamTypes
  <2>2. Len(wfifo) <= FifoLen /\ Len(wfifo) \in Nat
    BY <1>1, <1>11, LenProperties DEF TypeOK
  <2> QED  BY <1>6, <2>1, <2>2
<1>15. Todo' = SubSeq(Todo, n + 1, Len(Todo))
  <2> DEFINE rest == SubSeq(Todo, n + 1, Len(Todo))
  <2>1. rest \in Seq(Serials) /\ Len(rest) = Len(Todo) - n
        /\ \A i \in 1 .. Len(Todo) - n : rest[i] = Todo[n + i]
    <3>1. n \in Nat /\ Len(Todo) \in Nat /\ n <= Len(Todo)
      BY <1>6, <1>7, <1>8
    <3>2. Len(Todo) <= Len(Todo)
      BY <3>1
    <3> QED  BY <1>7, <3>1, <3>2, Part
  <2> HIDE DEF rest
  <2>2. Todo' \in Seq(Serials) /\ Len(Todo') = req - (cnt + n)
        /\ \A i \in 1 .. req - (cnt + n) : Todo'[i] = mem[(cnt + n) + i]
    <3> DEFINE k == cnt + n
    <3>1. k \in Nat /\ k <= req /\ req <= Len(mem) /\ mem \in Seq(Serials)
      BY <1>1, <1>4, <1>6 DEF TypeOK
    <3>2. Todo' = SubSeq(mem, k + 1, req)
      BY <1>2, <1>3 DEF Todo
    <3> HIDE DEF k
    <3>3. Todo' \in Seq(Serials) /\ Len(Todo') = req - k /\ \A i \in 1 .. req - k : Todo'[i] = mem[k + i]
      BY <1>6, <3>1, <3>2, Part
    <3> QED  BY <3>3 DEF k
  <2>3. Len(Todo') = Len(rest)
    BY <1>6, <1>7, <2>1, <2>2
  <2>4. ASSUME NEW i \in 1 .. Len(Todo')  PROVE  Todo'[i] = rest[i]
    <3>1. /\ i \in 1 .. req - (cnt + n) /\ i \in 1 .. Len(Todo) - n /\ n + i \in 1 .. req - cnt
          /\ (cnt + n) + i = cnt + (n + i)
      BY <1>6, <1>7, <2>2
    <3>2. Todo'[i] = mem[(cnt + n) + i]
      BY <2>2, <3>1
    <3>3. rest[i] = Todo[n + i]
      BY <2>1, <3>1
    <3>4. Todo[n + i] = mem[cnt + (n + i)]
      BY <1>7, <3>1
    <3> QED  BY <3>1, <3>2, <3>3, <3>4
  <2>5. Todo' = rest
    BY <2>1, <2>2, <2>3, <2>4, SeqEqual
  <2> QED  BY <2>5 DEF rest
<1> QED  BY <1>5, <1>8, <1>13, <1>14, <1>15 DEF Streams!Accept, Streams!Suffix, piece

\* The same of the next state.
LEMMA CallTypesNext ==
  (NoLostWakeup =>
     /\ Todo \in Seq(Serials)
     /\ Reading => Got \in Seq(Serials) /\ Len(Got) = cnt /\ \A i \in 1 .. cnt : Got[i] = mem[i])'
<1>1. NoLostWakeup =>
        /\ Todo \in Seq(Serials)
        /\ Reading => Got \in Seq(Serials) /\ Len(Got) = cnt /\ \A i \in 1 .. cnt : Got[i] = mem[i]
  BY CallTypes
<1> QED  BY <1>1, PTL

\* Copying changes neither stream.
LEMMA CopiesAreQuiet ==
  ASSUME NoLostWakeup, NoLostWakeup', ReadCopy \/ WriteCopy
  PROVE  UNCHANGED <<Input, Got, Todo, Output>>
<1>1. CASE ReadCopy
  <2>1. /\ pc = "r_copy" /\ pc' = "r_out" /\ UNCHANGED <<cnt, req, rx, tx, rfifo, wfifo>>
        /\ mem' = mem \o [i \in 1 .. n |-> rxBuf[rxOut + i - 1]]
    BY <1>1 DEF ReadCopy, Running, Elsewhere, uart
  <2>2. Reading /\ Reading' /\ ~Writing /\ ~Writing'
    BY <2>1 DEF Reading, Writing
  <2>3. UNCHANGED <<Input, Todo, Output>>
    BY <2>1, <2>2 DEF Input, Todo, Output, rx, tx
  <2>4. /\ TypeOK /\ Len(mem) = cnt /\ cnt \in Nat /\ mem \in Seq(Serials)
        /\ n > 0 /\ rxOut + n <= BufLen /\ n \in Nat /\ rxOut \in 0 .. BufLen - 1 /\ BufLen \in Nat
        /\ rxBuf \in [Slots -> Serials]
    <3>1. TypeOK /\ ReadInv
      BY DEF NoLostWakeup
    <3>2. Len(mem) = cnt /\ n > 0 /\ rxOut + n <= BufLen
      BY <2>1, <2>2, <3>1 DEF ReadInv
    <3> QED  BY <3>1, <3>2, Bounds DEF TypeOK
  <2> DEFINE piece == [i \in 1 .. n |-> rxBuf[rxOut + i - 1]]
  <2>5. piece \in Seq(Serials)
    <3>1. \A i \in 1 .. n : rxOut + i - 1 \in Slots
      BY <2>4 DEF Slots
    <3> QED  BY <2>4, <3>1
  <2>6. mem' = mem \o piece
    BY <2>1
  <2> HIDE DEF piece
  <2>7. \A i \in 1 .. cnt : mem'[i] = mem[i]
    <3>1. /\ Len(piece) \in Nat
          /\ \A i \in 1 .. Len(mem) + Len(piece) : mem'[i] = IF i <= Len(mem) THEN mem[i]
               ELSE piece[i - Len(mem)]
      BY <2>4, <2>5, <2>6, ConcatProperties, LenProperties
    <3> QED  BY <2>4, <3>1
  <2>8. /\ Got \in Seq(Serials) /\ Len(Got) = cnt /\ \A i \in 1 .. cnt : Got[i] = mem[i]
        /\ Got' \in Seq(Serials) /\ Len(Got') = cnt' /\ \A i \in 1 .. cnt' : Got'[i] = mem'[i]
    <3>1. Got \in Seq(Serials) /\ Len(Got) = cnt /\ \A i \in 1 .. cnt : Got[i] = mem[i]
      BY <2>2, CallTypes
    <3>2. (Got \in Seq(Serials) /\ Len(Got) = cnt /\ \A i \in 1 .. cnt : Got[i] = mem[i])'
      BY <2>2, CallTypesNext
    <3> QED  BY <3>1, <3>2
  <2>9. Got' = Got
    <3>1. cnt' = cnt
      BY <2>1
    <3> QED  BY <2>7, <2>8, <3>1, SeqEqual
  <2> QED  BY <2>3, <2>9
<1>2. CASE WriteCopy
  <2>1. /\ pc = "w_copy" /\ pc' = "w_in" /\ UNCHANGED <<mem, req, cnt, rx, txIn, txOut, rfifo, wfifo>>
        /\ txBuf' = [i \in Slots |-> IF i \in txIn..(txIn + n - 1) THEN mem[cnt + 1 + i - txIn]
             ELSE txBuf[i]]
    BY <1>2 DEF WriteCopy, Running, Elsewhere, uart
  <2>2. Writing /\ Writing' /\ ~Reading /\ ~Reading'
    BY <2>1 DEF Reading, Writing
  <2>3. UNCHANGED <<Input, Got, Todo>>
    BY <2>1, <2>2 DEF Input, Got, Todo, rx
  <2>4. TypeOK /\ WriteInv /\ TypeOK'
    BY DEF NoLostWakeup
  <2>5. /\ txBuf \in [Slots -> Serials] /\ txBuf' \in [Slots -> Serials] /\ txOut \in Slots
           /\ txIn \in Slots
    BY <2>4 DEF TypeOK
  <2>6. n \in Nat /\ txIn + n <= BufLen /\ Used(txOut, txIn) + n <= BufLen
    <3>1. txIn + n <= BufLen /\ Used(txOut, txIn) + n < BufLen
      BY <2>1, <2>4 DEF WriteInv
    <3>2. n \in Nat /\ BufLen \in Nat /\ Used(txOut, txIn) \in Nat
      BY <2>4, Bounds
    <3> QED  BY <3>1, <3>2
  <2>7. \A p \in Slots : p \notin txIn .. txIn + n - 1 => txBuf'[p] = txBuf[p]
    BY <2>1
  <2>8. Ring(txBuf', txOut, txIn) = Ring(txBuf, txOut, txIn)
    BY <2>5, <2>6, <2>7, RingSame
  <2>9. Output' = Output
    BY <2>1, <2>8 DEF Output
  <2> QED  BY <2>3, <2>9
<1> QED  BY <1>1, <1>2

\* The end of a call.
LEMMA Returns ==
  ASSUME Ended, UNCHANGED <<uart, rx, tx>>
  PROVE  Streams!Return
<1>1. ~Reading' /\ ~Writing'
  BY DEF Ended, Reading, Writing
<1>2. Got' = <<>> /\ Todo' = <<>>
  BY <1>1 DEF Got, Todo
<1>3. UNCHANGED <<Input, Output>>
  BY DEF Input, Output, uart, rx, tx
<1> QED  BY <1>2, <1>3 DEF Streams!Return

\* The steps of a call that neither copy nor move an index.
LEMMA CallIsQuiet ==
  ASSUME NoLostWakeup, ReadIn \/ ReadWait \/ ReadCheck \/ ReadEnable \/ WriteOut \/ WriteEnable \/ WriteWait
                       \/ WriteCheck \/ CloseWait
  PROVE  Streams!Return \/ UNCHANGED <<Input, Got, Todo, Output>>
<1>1. UNCHANGED <<uart, rx, tx>>
  BY DEF ReadIn, ReadWait, ReadCheck, ReadEnable, WriteOut, WriteEnable, WriteWait, WriteCheck, CloseWait,
         Elsewhere
<1>2. UNCHANGED <<Input, Output>>
  BY <1>1 DEF Input, Output, uart, rx, tx
<1>3. CASE Ended
  BY <1>1, <1>3, Returns
<1>4. CASE ~Ended
  <2>1. /\ UNCHANGED <<mem, req, cnt>>
        /\ \/ /\ pc \in {"r_in", "r_wait", "r_check"}
              /\ pc' \in {"r_in", "r_copy", "r_wait", "r_check", "r_enable"}
           \/ /\ pc \in {"w_out", "w_enable", "w_wait", "w_check"}
              /\ pc' \in {"w_out", "w_copy", "w_enable", "w_wait", "w_check"}
    <3>1. CASE ReadIn
      BY <1>4, <3>1 DEF ReadIn, Running
    <3>2. CASE ReadWait \/ ReadCheck \/ ReadEnable
      BY <1>4, <3>2 DEF ReadWait, ReadCheck, ReadEnable, Running
    <3>3. CASE WriteOut \/ WriteEnable
      BY <1>4, <3>3 DEF WriteOut, WriteEnable, Running
    <3>4. CASE WriteWait \/ WriteCheck \/ CloseWait
      BY <1>4, <3>4 DEF WriteWait, WriteCheck, CloseWait, Running
    <3> QED  BY <3>1, <3>2, <3>3, <3>4
  <2>2. Reading' = Reading /\ Writing' = Writing
    BY <2>1 DEF Reading, Writing
  <2> QED  BY <1>2, <2>1, <2>2 DEF Got, Todo
<1> QED  BY <1>3, <1>4

\* The beginning of a call.
LEMMA CallBegins ==
  ASSUME NoLostWakeup, NoLostWakeup',
         \/ \E k \in 1..MaxCall, nb \in BOOLEAN : Read(k, nb) \/ Write(k, nb)
         \/ Close \/ \E t \in 0..IntMax : Ioctl(t)
  PROVE  Streams!Call \/ UNCHANGED <<Input, Got, Todo, Output>>
<1>1. pc = "idle" /\ UNCHANGED <<uart, rx, tx, cnt>>
  BY DEF Read, Write, Close, Ioctl, Running, CountCall, call
<1>2. ~Reading /\ ~Writing /\ Got = <<>> /\ Todo = <<>> /\ cnt = 0
  BY <1>1 DEF Reading, Writing, Got, Todo, NoLostWakeup, WriteInv
<1>3. UNCHANGED <<Input, Output>>
  BY <1>1 DEF Input, Output, uart, rx, tx
<1>4. Got' = <<>>
  <2>1. CASE Reading'
    <3>1. cnt' = 0
      BY <1>1, <1>2
    <3>2. SubSeq(mem', 1, 0) = <<>>
      BY SubSeqEmpty
    <3> QED  BY <2>1, <3>1, <3>2 DEF Got
  <2>2. CASE ~Reading'
    BY <2>2 DEF Got
  <2> QED  BY <2>1, <2>2
<1>5. Todo' \in Seq(Serials)
  BY CallTypesNext
<1> QED  BY <1>2, <1>3, <1>4, <1>5 DEF Streams!Call

\* The other steps of the routine, of the host and of the alarm.
LEMMA OthersAreQuiet ==
  ASSUME \/ HostPause \/ HostComesOrGoes \/ Alarm \/ Interrupt \/ IsrControl \/ IsrRxFull \/ IsrRxEmpty
         \/ IsrRxMask \/ IsrTxDone
  PROVE  UNCHANGED <<Input, Got, Todo, Output>>
<1>1. UNCHANGED <<rfifo, wfifo, rx, tx, call>>
  BY DEF HostPause, HostComesOrGoes, Alarm, Interrupt, IsrControl, IsrRxFull, IsrRxEmpty, IsrRxMask,
        IsrTxDone, uart
<1> QED  BY <1>1 DEF Input, Got, Todo, Output, Reading, Writing, rx, tx, call

\* Every step of driver, UART and host is one of Console's, or none.
LEMMA StreamStep ==
  ASSUME NoLostWakeup, NoLostWakeup', Next
  PROVE  Streams!Next \/ UNCHANGED <<Input, Got, Todo, Output>>
<1>1. CASE HostSend \/ IsrRxLate
  <2>1. CASE HostSend
    <3>1. /\ typed < MaxTyped /\ Len(rfifo) < FifoLen /\ rfifo' = Append(rfifo, typed)
          /\ UNCHANGED <<rx, tx, wfifo, call>>
      BY <2>1 DEF HostSend
    <3> QED  BY <3>1, Types DEF Streams!Next
  <2>2. CASE IsrRxLate
    <3>1. /\ typed < MaxTyped /\ rfifo = <<>> /\ rfifo' = <<typed>> /\ UNCHANGED <<rx, tx, wfifo, call>>
      BY <2>2 DEF IsrRxLate
    <3>2. Len(rfifo) < FifoLen
      BY <3>1, JtagAssumption
    <3>3. rfifo' = Append(rfifo, typed)
      BY <3>1
    <3> QED  BY <3>1, <3>2, <3>3, Types DEF Streams!Next
  <2> QED  BY <1>1, <2>1, <2>2
<1>2. CASE IsrRxRead
  <2>1. UNCHANGED <<Got, Todo, Output>>
    BY <1>2 DEF IsrRxRead, Got, Todo, Output, Reading, Writing, tx, call
  <2> QED  BY <1>2, <2>1, ReadMoves
<1>3. CASE IsrTxWrite
  <2>1. UNCHANGED <<Input, Got, Todo>>
    BY <1>3 DEF IsrTxWrite, Input, Got, Todo, Reading, Writing, rx, call
  <2> QED  BY <1>3, <2>1, WriteMoves
<1>4. CASE HostReceive
  BY <1>4, Shows DEF Streams!Next
<1>5. CASE ReadOut
  BY <1>5, Takes DEF Streams!Next
<1>6. CASE WriteIn
  BY <1>6, Accepts DEF Streams!Next
<1>7. CASE ReadCopy \/ WriteCopy
  BY <1>7, CopiesAreQuiet
<1>8. CASE \/ ReadIn \/ ReadWait \/ ReadCheck \/ ReadEnable \/ WriteOut \/ WriteEnable \/ WriteWait
           \/ WriteCheck \/ CloseWait
  BY <1>8, CallIsQuiet DEF Streams!Next
<1>9. CASE \/ \E k \in 1..MaxCall, nb \in BOOLEAN : Read(k, nb) \/ Write(k, nb)
           \/ Close \/ \E t \in 0..IntMax : Ioctl(t)
  BY <1>9, CallBegins DEF Streams!Next
<1>10. CASE \/ HostPause \/ HostComesOrGoes \/ Alarm \/ Interrupt \/ IsrControl \/ IsrRxFull \/ IsrRxEmpty
            \/ IsrRxMask \/ IsrTxDone
  BY <1>10, OthersAreQuiet
<1> QED  BY <1>1, <1>2, <1>3, <1>4, <1>5, <1>6, <1>7, <1>8, <1>9, <1>10 DEF Next, Isr, Proceed

\* The driver and the UART lose, double and overtake no character in either direction, for
\* buffers and FIFOs of any length (Console; altera_avalon_jtag_uart_read.c:91-188,
\* altera_avalon_jtag_uart_write.c:72-205, altera_avalon_jtag_uart_init.c:107-200).
THEOREM Implements == Spec => ImplementsConsole
<1>1. Init => Streams!Init
  <2> SUFFICES ASSUME Init PROVE Streams!Init
    OBVIOUS
  <2>1. 0 \in Slots
    BY JtagAssumption DEF Slots
  <2>2. Used(0, 0) = 0
    BY <2>1, InUse
  <2>3. Ring(rxBuf, rxOut, rxIn) = <<>> /\ Ring(txBuf, txOut, txIn) = <<>>
    BY <2>2 DEF Init, Ring
  <2>4. Input = <<>> /\ Output = <<>>
    BY <2>3 DEF Init, Input, Output
  <2>5. Got = <<>> /\ Todo = <<>>
    BY DEF Init, Got, Todo, Reading, Writing
  <2> QED  BY <2>4, <2>5 DEF Streams!Init
<1>2. NoLostWakeup /\ NoLostWakeup' /\ [Next]_vars => [Streams!Next]_(Streams!cvars)
  <2> SUFFICES ASSUME NoLostWakeup, NoLostWakeup', [Next]_vars
               PROVE  [Streams!Next]_(Streams!cvars)
    OBVIOUS
  <2>1. CASE UNCHANGED vars
    <3>1. UNCHANGED <<Input, Got, Todo, Output>>
      BY <2>1 DEF Input, Got, Todo, Output, Reading, Writing, vars, uart, rx, tx, call
    <3> QED  BY <3>1 DEF Streams!cvars
  <2>2. CASE Next
    BY <2>2, StreamStep DEF Streams!cvars
  <2> QED  BY <2>1, <2>2
<1> QED  BY <1>1, <1>2, WakeupsKept, PTL DEF Spec, Streams!Spec, ImplementsConsole
=============================================================================
