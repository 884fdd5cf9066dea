------------------------------- MODULE JtagUart -------------------------------
(* The interrupt driven JTAG UART driver behind stdin, stdout and stderr.    *)
(* The processor runs one call of read, write, close or ioctl at a time, a   *)
(* statement a step. Between two statements the interrupt routine may run;   *)
(* it runs to its end before the call goes on, but the UART's hardware FIFOs *)
(* and the host move while it does. The alarm routine watches for the host.  *)
EXTENDS Integers, Sequences

CONSTANTS
  MaxTyped,         \* characters the host types: they are numbered from 0
  MaxCalls,         \* calls the program makes
  BufLen,           \* ALTERA_AVALON_JTAG_UART_BUF_LEN
  FifoLen,          \* depth of each hardware FIFO
  Threshold,        \* a FIFO asks for service at this many places
  MaxCall,          \* longest call
  IntMax,           \* INT_MAX
  DefaultTimeout

ASSUME JtagAssumption ==
  /\ MaxTyped \in Nat /\ MaxCalls \in Nat
  /\ BufLen \in Nat \ {0, 1}
  /\ FifoLen \in Nat \ {0}
  /\ Threshold \in 0..(FifoLen - 1)
  /\ MaxCall \in Nat \ {0}
  /\ IntMax \in Nat /\ IntMax > 3
  /\ DefaultTimeout \in 2..(IntMax - 1)

VARIABLES
  rfifo, wfifo, pause, ac,     \* the UART: FIFOs, pause interrupt, activity
  irqEnable,                   \* sp->irq_enable, written to the UART with it
  rxIn, rxOut, rxBuf,          \* the receive buffer
  txIn, txOut, txBuf,          \* the transmit buffer
  hostInactive, timeout,
  isr, wi, space, avail,       \* the interrupt routine: where it is, its locals
  pc, nonblock, mem, req, cnt, n, seen,   \* the call and its locals
  connected, typed, printed,   \* the host, and the numbers of the next characters
  callsLeft

uart == <<rfifo, wfifo, pause, ac>>
rx   == <<rxIn, rxOut, rxBuf>>
tx   == <<txIn, txOut, txBuf>>
routine == <<isr, wi, space, avail>>
call == <<pc, nonblock, mem, req, cnt, n, seen>>
host == <<connected, typed, printed, callsLeft>>
watch == <<hostInactive, timeout>>
vars == <<uart, irqEnable, rx, tx, watch, routine, call, host>>

Serials == 0..(MaxTyped + MaxCalls * MaxCall)
Least(a, b) == IF a < b THEN a ELSE b
Slots == 0..(BufLen - 1)
Succ(i) == (i + 1) % BufLen

Reading == pc \in {"r_in", "r_copy", "r_out", "r_wait", "r_check", "r_enable"}
Writing == pc \in {"w_out", "w_copy", "w_in", "w_enable", "w_wait", "w_check"}
HasClock == timeout # IntMax

RI == "RE" \in irqEnable /\ (pause \/ FifoLen - Len(rfifo) <= Threshold)
WI == "WE" \in irqEnable /\ Len(wfifo) <= Threshold

(* The driver initialised; without a clock the alarm cannot be started.      *)
Init ==
  /\ rfifo = <<>> /\ wfifo = <<>> /\ pause = FALSE /\ ac = FALSE
  /\ irqEnable = {"RE"}
  /\ rxIn = 0 /\ rxOut = 0 /\ rxBuf = [i \in Slots |-> 0]
  /\ txIn = 0 /\ txOut = 0 /\ txBuf = [i \in Slots |-> 0]
  /\ hostInactive = 0 /\ timeout \in {DefaultTimeout, IntMax}
  /\ isr = "off" /\ wi = FALSE /\ space = 0 /\ avail = FALSE
  /\ pc = "idle" /\ nonblock = FALSE /\ mem = <<>>
  /\ req = 0 /\ cnt = 0 /\ n = 0 /\ seen = 0
  /\ connected = TRUE /\ typed = 0 /\ printed = 0 /\ callsLeft = MaxCalls

------------------------------------------------------------------------------
(* The UART and the host at the other end of the cable.                      *)

HostSend ==
  /\ connected /\ Len(rfifo) < FifoLen /\ typed < MaxTyped
  /\ rfifo' = Append(rfifo, typed)
  /\ typed' = typed + 1
  /\ ac' = TRUE
  /\ UNCHANGED <<wfifo, pause, irqEnable, rx, tx, watch, routine, call, connected, printed, callsLeft>>

(* The host polls without sending: the UART's pause interrupt.               *)
HostPause ==
  /\ connected
  /\ pause' = (pause \/ rfifo # <<>>)
  /\ ac' = TRUE
  /\ UNCHANGED <<rfifo, wfifo, irqEnable, rx, tx, watch, routine, call, host>>

HostReceive ==
  /\ connected /\ wfifo # <<>>
  /\ wfifo' = Tail(wfifo)
  /\ UNCHANGED <<rfifo, pause, ac, irqEnable, rx, tx, watch, routine, call, host>>

HostComesOrGoes ==
  /\ connected' = ~connected
  /\ UNCHANGED <<uart, irqEnable, rx, tx, watch, routine, call, typed, printed, callsLeft>>

------------------------------------------------------------------------------
(* altera_avalon_jtag_uart_irq.                                              *)

Interrupt ==
  /\ isr = "off" /\ (RI \/ WI)
  /\ isr' = "control"
  /\ UNCHANGED <<uart, irqEnable, rx, tx, watch, wi, space, avail, call, host>>

IsrControl ==
  /\ isr = "control"
  /\ isr' = IF RI THEN "rx" ELSE IF WI THEN "tx" ELSE "off"
  /\ wi' = WI /\ avail' = RI
  /\ space' = IF WI THEN FifoLen - Len(wfifo) ELSE 0
  /\ UNCHANGED <<uart, irqEnable, rx, tx, watch, call, host>>

RxDone(a) == isr' = IF a THEN "rxmask" ELSE IF wi THEN "tx" ELSE "control"

IsrRxFull ==
  /\ isr = "rx" /\ Succ(rxIn) = rxOut
  /\ RxDone(avail)
  /\ UNCHANGED <<uart, irqEnable, rx, tx, watch, wi, space, avail, call, host>>

IsrRxRead ==
  /\ isr = "rx" /\ Succ(rxIn) # rxOut /\ rfifo # <<>>
  /\ rxBuf' = [rxBuf EXCEPT ![rxIn] = Head(rfifo)]
  /\ rxIn' = Succ(rxIn)
  /\ rfifo' = Tail(rfifo) /\ pause' = FALSE
  /\ avail' = (Len(rfifo) > 1)
  /\ UNCHANGED <<wfifo, ac, irqEnable, rxOut, tx, watch, isr, wi, space, call, host>>

IsrRxEmpty ==
  /\ isr = "rx" /\ Succ(rxIn) # rxOut /\ rfifo = <<>>
  /\ pause' = FALSE /\ avail' = FALSE
  /\ RxDone(FALSE)
  /\ UNCHANGED <<rfifo, wfifo, ac, irqEnable, rx, tx, watch, wi, space, call, host>>

(* The data register says "not valid" from the cycle of the read, but how    *)
(* many characters are left from the next cycle: one may have come between.  *)
IsrRxLate ==
  /\ isr = "rx" /\ Succ(rxIn) # rxOut /\ rfifo = <<>> /\ connected /\ typed < MaxTyped
  /\ rfifo' = <<typed>> /\ typed' = typed + 1
  /\ pause' = FALSE /\ ac' = TRUE /\ avail' = TRUE
  /\ RxDone(TRUE)
  /\ UNCHANGED <<wfifo, irqEnable, rx, tx, watch, wi, space, call, connected, printed, callsLeft>>

IsrRxMask ==
  /\ isr = "rxmask"
  /\ irqEnable' = irqEnable \ {"RE"}
  /\ isr' = IF wi THEN "tx" ELSE "control"
  /\ UNCHANGED <<uart, rx, tx, watch, wi, space, avail, call, host>>

(* A character written to a full FIFO is lost.                               *)
IsrTxWrite ==
  /\ isr = "tx" /\ space > 0 /\ txOut # txIn
  /\ wfifo' = IF Len(wfifo) < FifoLen THEN Append(wfifo, txBuf[txOut]) ELSE wfifo
  /\ txOut' = Succ(txOut)
  /\ space' = space - 1
  /\ UNCHANGED <<rfifo, pause, ac, irqEnable, rx, txIn, txBuf, watch, isr, wi, avail, call, host>>

IsrTxDone ==
  /\ isr = "tx" /\ (space = 0 \/ txOut = txIn)
  /\ irqEnable' = IF space > 0 THEN irqEnable \ {"WE"} ELSE irqEnable
  /\ isr' = "control"
  /\ UNCHANGED <<uart, rx, tx, watch, wi, space, avail, call, host>>

Isr == \/ Interrupt \/ IsrControl \/ IsrRxFull \/ IsrRxRead \/ IsrRxEmpty \/ IsrRxLate
       \/ IsrRxMask \/ IsrTxWrite \/ IsrTxDone

(* altera_avalon_jtag_uart_timeout, once a second.                           *)
Alarm ==
  /\ HasClock /\ isr = "off"
  /\ ac' = FALSE
  /\ hostInactive' = IF ac THEN 0
                     ELSE IF hostInactive < IntMax - 2 THEN hostInactive + 1 ELSE hostInactive
  /\ UNCHANGED <<rfifo, wfifo, pause, irqEnable, rx, tx, timeout, routine, call, host>>

------------------------------------------------------------------------------
(* The calls. A call starts and ends with its locals cleared.                *)

Running(p) == isr = "off" /\ pc = p
Ended == pc' = "idle" /\ mem' = <<>> /\ req' = 0 /\ cnt' = 0 /\ n' = 0 /\ seen' = 0 /\ nonblock' = FALSE
Elsewhere == UNCHANGED <<uart, watch, routine, host>>
CountCall ==
  /\ callsLeft > 0 /\ callsLeft' = callsLeft - 1
  /\ UNCHANGED <<uart, watch, routine, connected, typed, printed>>

(* altera_avalon_jtag_uart_read                                              *)
Read(k, nb) ==
  /\ Running("idle") /\ pc' = "r_in" /\ req' = k /\ nonblock' = nb
  /\ UNCHANGED <<mem, cnt, n, seen, irqEnable, rx, tx>> /\ CountCall

RxReady == Least(IF rxIn >= rxOut THEN rxIn - rxOut ELSE BufLen - rxOut, req - cnt)

ReadIn ==
  /\ Running("r_in")
  /\ \/ /\ RxReady = 0 /\ cnt = 0 /\ nonblock /\ Ended
     \/ /\ RxReady > 0 \/ cnt > 0 \/ ~nonblock
        /\ seen' = rxIn /\ n' = RxReady
        /\ pc' = IF RxReady > 0 THEN "r_copy" ELSE IF cnt > 0 THEN "r_enable" ELSE "r_wait"
        /\ UNCHANGED <<nonblock, mem, req, cnt>>
  /\ UNCHANGED <<irqEnable, rx, tx>> /\ Elsewhere

ReadCopy ==
  /\ Running("r_copy") /\ pc' = "r_out"
  /\ mem' = mem \o [i \in 1..n |-> rxBuf[rxOut + i - 1]]
  /\ UNCHANGED <<nonblock, req, cnt, n, seen, irqEnable, rx, tx>> /\ Elsewhere

ReadOut ==
  /\ Running("r_out")
  /\ cnt' = cnt + n
  /\ rxOut' = (rxOut + n) % BufLen
  /\ pc' = IF cnt + n < req THEN "r_in" ELSE "r_enable"
  /\ n' = 0
  /\ UNCHANGED <<nonblock, mem, req, seen, irqEnable, rxIn, rxBuf, tx>> /\ Elsewhere

ReadWait ==
  /\ Running("r_wait") /\ (seen # rxIn \/ hostInactive >= timeout)
  /\ pc' = "r_check"
  /\ UNCHANGED <<nonblock, mem, req, cnt, n, seen, irqEnable, rx, tx>> /\ Elsewhere

ReadCheck ==
  /\ Running("r_check")
  /\ IF seen = rxIn THEN Ended
     ELSE pc' = "r_in" /\ UNCHANGED <<nonblock, mem, req, cnt, n, seen>>
  /\ UNCHANGED <<irqEnable, rx, tx>> /\ Elsewhere

(* Faulty: interrupts that were masked stay masked.                          *)
ReadWithoutEnable ==
  /\ Running("r_enable") /\ Ended
  /\ UNCHANGED <<irqEnable, rx, tx>> /\ Elsewhere

ReadEnable ==
  /\ Running("r_enable")
  /\ irqEnable' = irqEnable \cup {"RE"}
  /\ Ended
  /\ UNCHANGED <<rx, tx>> /\ Elsewhere

(* altera_avalon_jtag_uart_write                                             *)
Write(k, nb) ==
  /\ Running("idle") /\ pc' = "w_out" /\ nonblock' = nb
  /\ mem' = [i \in 1..k |-> printed + i - 1] /\ req' = k
  /\ UNCHANGED <<cnt, n, seen, irqEnable, rx, tx>> /\ CountCall

(* Faulty: the buffer may be filled to its last place.                       *)
TxFreeToTheLast == IF txIn < txOut THEN txOut - txIn ELSE BufLen - txIn

TxFree == IF txIn < txOut THEN txOut - 1 - txIn
          ELSE IF txOut > 0 THEN BufLen - txIn ELSE BufLen - 1 - txIn

WriteOut ==
  /\ Running("w_out")
  /\ seen' = txOut
  /\ n' = Least(TxFree, req - cnt)
  /\ pc' = IF TxFree = 0 THEN "w_enable" ELSE "w_copy"
  /\ UNCHANGED <<nonblock, mem, req, cnt, irqEnable, rx, tx>> /\ Elsewhere

WriteCopy ==
  /\ Running("w_copy") /\ pc' = "w_in"
  /\ txBuf' = [i \in Slots |-> IF i \in txIn..(txIn + n - 1) THEN mem[cnt + 1 + i - txIn] ELSE txBuf[i]]
  /\ UNCHANGED <<nonblock, mem, req, cnt, n, seen, irqEnable, rx, txIn, txOut>> /\ Elsewhere

WriteIn ==
  /\ Running("w_in")
  /\ cnt' = cnt + n
  /\ txIn' = (txIn + n) % BufLen
  /\ pc' = IF cnt + n < req THEN "w_out" ELSE "w_enable"
  /\ printed' = printed + n
  /\ n' = 0
  /\ UNCHANGED <<nonblock, mem, req, seen, irqEnable, rx, txOut, txBuf>>
  /\ UNCHANGED <<uart, watch, routine, connected, typed, callsLeft>>

WriteEnable ==
  /\ Running("w_enable")
  /\ irqEnable' = irqEnable \cup {"WE"}
  /\ IF cnt = req \/ nonblock THEN Ended
     ELSE pc' = "w_wait" /\ UNCHANGED <<nonblock, mem, req, cnt, n, seen>>
  /\ UNCHANGED <<rx, tx>> /\ Elsewhere

(* Faulty: the host is not watched.                                          *)
WriteWaitForRoom ==
  /\ Running("w_wait") /\ seen # txOut
  /\ pc' = "w_check"
  /\ UNCHANGED <<nonblock, mem, req, cnt, n, seen, irqEnable, rx, tx>> /\ Elsewhere

WriteWait ==
  /\ Running("w_wait") /\ (seen # txOut \/ hostInactive >= timeout)
  /\ pc' = "w_check"
  /\ UNCHANGED <<nonblock, mem, req, cnt, n, seen, irqEnable, rx, tx>> /\ Elsewhere

WriteCheck ==
  /\ Running("w_check")
  /\ IF hostInactive > 0 THEN Ended
     ELSE pc' = "w_out" /\ UNCHANGED <<nonblock, mem, req, cnt, n, seen>>
  /\ UNCHANGED <<irqEnable, rx, tx>> /\ Elsewhere

(* altera_avalon_jtag_uart_close: wait until the transmit buffer is empty.   *)
Close ==
  /\ Running("idle") /\ pc' = "c_wait" /\ nonblock' \in BOOLEAN
  /\ UNCHANGED <<mem, req, cnt, n, seen, irqEnable, rx, tx>> /\ CountCall

CloseWait ==
  /\ Running("c_wait") /\ (txOut = txIn \/ hostInactive >= timeout \/ nonblock)
  /\ Ended
  /\ UNCHANGED <<irqEnable, rx, tx>> /\ Elsewhere

(* altera_avalon_jtag_uart_ioctl, TIOCSTIMEOUT                               *)
Ioctl(t) ==
  /\ Running("idle") /\ HasClock
  /\ timeout' = IF t >= 2 /\ t < IntMax THEN t ELSE IntMax - 1
  /\ callsLeft > 0 /\ callsLeft' = callsLeft - 1
  /\ UNCHANGED <<call, irqEnable, rx, tx, uart, hostInactive, routine, connected, typed, printed>>

Proceed == \/ ReadIn \/ ReadCopy \/ ReadOut \/ ReadWait \/ ReadCheck \/ ReadEnable
           \/ WriteOut \/ WriteCopy \/ WriteIn \/ WriteEnable \/ WriteWait \/ WriteCheck
           \/ CloseWait

Next ==
  \/ HostSend \/ HostPause \/ HostReceive \/ HostComesOrGoes
  \/ Isr \/ Alarm \/ Proceed \/ Close
  \/ \E k \in 1..MaxCall, nb \in BOOLEAN : Read(k, nb) \/ Write(k, nb)
  \/ \E t \in 0..IntMax : Ioctl(t)

Spec == Init /\ [][Next]_vars

(* The processor goes on, interrupts are taken, the alarm rings if there is  *)
(* a clock, and a host that is there polls and takes what is sent to it.     *)
FairSpec == Spec /\ WF_vars(Isr) /\ WF_vars(Proceed) /\ WF_vars(Alarm)
                 /\ WF_vars(HostPause) /\ WF_vars(HostReceive)
------------------------------------------------------------------------------
(* Properties.                                                               *)

TypeOK ==
  /\ rfifo \in Seq(Serials) /\ Len(rfifo) <= FifoLen
  /\ wfifo \in Seq(Serials) /\ Len(wfifo) <= FifoLen
  /\ pause \in BOOLEAN /\ ac \in BOOLEAN /\ connected \in BOOLEAN
  /\ irqEnable \subseteq {"RE", "WE"}
  /\ rxIn \in Slots /\ rxOut \in Slots /\ txIn \in Slots /\ txOut \in Slots
  /\ rxBuf \in [Slots -> Serials] /\ txBuf \in [Slots -> Serials]
  /\ hostInactive \in 0..(IntMax - 2) /\ timeout \in 2..IntMax
  /\ isr \in {"off", "control", "rx", "rxmask", "tx"}
  /\ wi \in BOOLEAN /\ space \in 0..FifoLen /\ avail \in BOOLEAN
  /\ Reading \/ Writing \/ pc \in {"idle", "c_wait"}
  /\ nonblock \in BOOLEAN /\ req \in 0..MaxCall /\ cnt \in 0..req /\ n \in 0..req
  /\ mem \in Seq(Serials) /\ seen \in Slots
  /\ typed \in 0..MaxTyped /\ printed \in Serials /\ callsLeft \in 0..MaxCalls

(* The routine: what made it look into a FIFO is still there, and the places *)
(* it has counted are free.                                                  *)
RoutineInv ==
  /\ pause => rfifo # <<>>
  /\ isr = "rx" => rfifo # <<>> \/ rxIn # rxOut
  /\ isr = "rxmask" => rxIn # rxOut
  /\ isr = "tx" => wi
  /\ wi => space + Len(wfifo) <= FifoLen

(* The places of a ring that are in use.                                     *)
Used(from, to) == (to - from + BufLen) % BufLen

(* A call of read: it has copied as much as it says, and the piece it is     *)
(* copying is in the ring still.                                             *)
ReadInv ==
  /\ Reading => Len(mem) = IF pc = "r_out" THEN cnt + n ELSE cnt
  /\ pc \in {"r_in", "r_wait", "r_check"} => cnt < req
  /\ pc \in {"r_copy", "r_out"} =>
       n > 0 /\ cnt + n <= req /\ rxOut + n <= BufLen /\ n <= Used(rxOut, rxIn)
  /\ pc = "r_out" => \A i \in 1..n : mem[cnt + i] = rxBuf[rxOut + i - 1]
  /\ pc \in {"r_wait", "r_check"} => cnt = 0
  /\ pc = "r_enable" => cnt > 0

(* A call of write: there is room for the piece it is copying.               *)
WriteInv ==
  /\ Writing => Len(mem) = req
  /\ pc \in {"w_out", "w_wait", "w_check"} => cnt < req
  /\ pc \in {"w_copy", "w_in"} =>
       n > 0 /\ cnt + n <= req /\ txIn + n <= BufLen /\ Used(txOut, txIn) + n < BufLen
  /\ pc = "w_in" => \A i \in 1..n : txBuf[txIn + i - 1] = mem[cnt + i]
  /\ pc \in {"idle", "c_wait"} => mem = <<>> /\ req = 0 /\ cnt = 0

(* There are numbers for the characters of the calls to come.                *)
NumbersInv ==
  printed + callsLeft * MaxCall + (IF Writing THEN req - cnt ELSE 0) <= MaxCalls * MaxCall

Ring(buf, from, to) == [i \in 1..Used(from, to) |-> buf[(from + i - 1) % BufLen]]

(* Ring and FIFO together, and what a call has taken or has still to give.   *)
Input == Ring(rxBuf, rxOut, rxIn) \o rfifo
Got == IF Reading THEN SubSeq(mem, 1, cnt) ELSE <<>>
Todo == IF Writing THEN SubSeq(mem, cnt + 1, req) ELSE <<>>
Output == wfifo \o Ring(txBuf, txOut, txIn)

(* The driver and the UART together are the two streams of Console: however  *)
(* the interrupt routine, the calls and the host interleave, no character is *)
(* lost, doubled or overtaken, at the wrap of a buffer, at a full buffer or  *)
(* at a full FIFO.                                                           *)
Streams == INSTANCE Console WITH
  Chars <- Serials, Capacity <- BufLen - 1 + FifoLen + MaxCall,
  input <- Input, got <- Got, todo <- Todo, output <- Output

ImplementsConsole == Streams!Spec

(* The interrupts that are masked, and why that does no harm.                *)
Wakeups ==
  /\ "RE" \in irqEnable \/ rxIn # rxOut \/ (Reading /\ cnt > 0)
  /\ "WE" \in irqEnable \/ txIn = txOut \/ pc \in {"w_out", "w_copy", "w_in", "w_enable"}

(* Interrupts are never left off with work to do: when receive interrupts    *)
(* are masked there is something in the buffer to read or a call of read     *)
(* that has taken some is about to enable them, and when transmit interrupts *)
(* are masked the buffer is empty or a call of write is about to enable      *)
(* them. The other conjuncts are what that rests on (init.c:120-200,         *)
(* read.c:108-203, write.c:84-215).                                          *)
NoLostWakeup ==
  TypeOK /\ RoutineInv /\ ReadInv /\ WriteInv /\ NumbersInv /\ Wakeups

(* A call of read ends when there is a character for it, even one still in   *)
(* the UART, as long as the host stays.                                      *)
ReadReturns ==
  <>[]connected => (Reading /\ (rfifo # <<>> \/ rxIn # rxOut) ~> ~Reading)

(* A call of write or close ends: while the host stays because it takes what *)
(* is sent, and when it has gone because the alarm finds out, if there is a  *)
(* clock and a timeout.                                                      *)
WriteReturns ==
  (<>[]connected \/ <>[]~connected) =>
    ((Writing \/ pc = "c_wait") /\ (connected \/ timeout < IntMax - 1)
       ~> (pc = "idle" \/ (~connected /\ timeout >= IntMax - 1)))

(* No call of read, write or close waits for ever on a host that answers or  *)
(* that the driver can find gone (read.c:150-188, write.c:160-205,           *)
(* init.c:203-225, 241-254).                                                 *)
CallsReturn == ReadReturns /\ WriteReturns
==============================================================================
