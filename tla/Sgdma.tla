------------------------------- MODULE Sgdma ---------------------------------
(* The SGDMA driver and one engine, down to the accesses to the registers:   *)
(* altera_avalon_sgdma.c on the processor, interrupted by its own handler    *)
(* between any two accesses, and the control, descriptor read and descriptor *)
(* write parts of the engine. A call is the sequence of its accesses; what   *)
(* is left to execute is the variable code.                                  *)
EXTENDS Integers, Sequences

CONSTANTS
  ProgramChains,   \* the descriptor arrays that the program uses
  CallbackChains,  \* those that the callback uses
  ArraySize,       \* the number of descriptors of an array
  Lengths,         \* those of a chain, which leave room for one behind it
  FifoDepth,       \* lpm_numwords of the command and address FIFOs
  Overlap          \* whether the program starts transfers while callbacks do

Chains == ProgramChains \cup CallbackChains

ASSUME SgdmaAssumption ==
  /\ ArraySize \in Nat \ {0} /\ Lengths \subseteq 1..(ArraySize - 1)
  /\ FifoDepth \in Nat \ {0} /\ Overlap \in BOOLEAN

VARIABLES
  own,         \* the bit "owned by hardware" of each descriptor in memory
  control, pointer, completed, irq,   \* the registers of the engine
  engine,      \* the rest of the engine
  device,      \* alt_sgdma_dev: is there a callback, and chain_control
  code,        \* what is left of the call that executes
  loaded,      \* the copy of the control register in a processor register
  program,     \* <<>>, or what is left of the interrupted program
  turns,       \* how many transfers the callback will still start
  length,      \* history: of each chain as last constructed
  transfer     \* history: the chain at hand, what of it is processed, and
               \* whether a callback is to come

registers == <<control, pointer, completed, irq>>
processor == <<device, code, loaded, program, turns>>
vars == <<own, registers, engine, processor, length, transfer>>

(* The last descriptor of an array leads back to the first.                  *)
Descriptors == Chains \X (1..ArraySize)
After(d) == <<d[1], IF d[2] = ArraySize THEN 1 ELSE d[2] + 1>>

Interrupts == {"IE_GLOBAL", "IE_CHAIN"}

(* The status bit BUSY; a chain that has come to its end.                    *)
Busy == engine.owned \/ engine.queue # <<>>
Ending == engine.running /\ ~Busy

Whole == transfer.processed = [i \in 1..length[transfer.chain] |-> <<transfer.chain, i>>]
Outstanding == Busy \/ Ending \/ transfer.owed \/ irq

------------------------------------------------------------------------------
(* The calls.                                                                *)

Load == [op |-> "load"]
Store(set, clear) == [op |-> "store", set |-> set, clear |-> clear]
ClearRun == Store({}, {"RUN"})

(* The construct functions, all of which end in construct_descriptor_burst:  *)
(* the next descriptor is the hardware's no more, this one is.               *)
Construct(d) == [op |-> "construct", desc |-> d]
Prepare(c, n) ==
  [i \in 1..(n + 1) |-> IF i <= n THEN Construct(<<c, i>>)
                        ELSE [op |-> "built", chain |-> c, length |-> n]]

PointAt(c) == [op |-> "point", chain |-> c]

AsyncTransfer(c) ==
  <<[op |-> "reject_busy"], Load, ClearRun, [op |-> "clear_status"], PointAt(c), Load,
    IF device.callback THEN Store(device.chainControl \cup {"RUN", "STOP_ER"}, {})
    ELSE Store({"RUN", "STOP_ER"}, {"IE_GLOBAL"})>>

SyncTransfer(c) ==
  <<[op |-> "await_idle"], Load, ClearRun, [op |-> "clear_status"], PointAt(c), Load,
    Store({"RUN", "STOP_ER"}, {}),
    [op |-> "await_idle"], Load, ClearRun, [op |-> "return_status"]>>

StartEngine == <<Load, Store({"RUN"}, {})>>
StopEngine == <<Load, ClearRun>>

ThenReturn == <<[op |-> "eret"]>>

(* Faulty: the interrupt is cleared after the callback.                      *)
IrqClearedLast ==
  IF device.callback
  THEN <<[op |-> "callback"], Load, Store({"CLEAR_IRQ"}, {}), [op |-> "eret"]>>
  ELSE <<Load, Store({"CLEAR_IRQ"}, {}), [op |-> "eret"]>>

(* alt_avalon_sgdma_irq                                                      *)
Irq ==
  IF device.callback
  THEN <<Load, Store({"CLEAR_IRQ"}, {}), [op |-> "callback"], [op |-> "eret"]>>
  ELSE <<Load, Store({"CLEAR_IRQ"}, {}), [op |-> "eret"]>>

------------------------------------------------------------------------------
(* alt_avalon_sgdma_init; malloc leaves anything in the descriptors.         *)
Init ==
  /\ \E any \in BOOLEAN : own = [d \in Descriptors |-> any]
  /\ control = {} /\ pointer \in ProgramChains /\ completed = FALSE /\ irq = FALSE
  /\ engine = [running |-> FALSE, ended |-> FALSE, owned |-> FALSE, next |-> <<pointer, 1>>,
               queue |-> <<>>, written |-> FALSE]
  /\ device = [callback |-> FALSE, chainControl |-> {}]
  /\ code = <<>> /\ loaded = {} /\ program = <<>> /\ turns = 0
  /\ length = [c \in Chains |-> 0]
  /\ transfer = [chain |-> pointer, processed |-> <<>>, owed |-> FALSE]

(* The processor takes the interrupt before its next access.                 *)
Interrupt ==
  /\ irq /\ program = <<>>
  /\ program' = <<[code |-> code, loaded |-> loaded]>>
  /\ code' = Irq
  /\ UNCHANGED <<own, registers, engine, device, loaded, turns, length, transfer>>

(* The engine sets CHAIN_COMPLETED in the cycle after BUSY falls: at most    *)
(* one access comes between.                                                 *)
Executes(op) ==
  /\ ~(irq /\ program = <<>>) /\ code # <<>> /\ code[1].op = op
  /\ Ending => op \in {"reject_busy", "await_idle"}
This == code[1]
Rest == Tail(code)

(* What the program does next. It constructs no chain that is in use, and    *)
(* leaves the engine to the callback while that starts transfers.            *)
CallTransfer ==
  /\ code = <<>> /\ ~irq /\ (Overlap \/ turns = 0)
  /\ \E c \in ProgramChains \ {transfer.chain}, n \in Lengths :
       /\ code' = Prepare(c, n)
       /\ turns' \in IF device.callback /\ (Overlap \/ ~Outstanding) THEN {0, 1} ELSE {0}
  /\ UNCHANGED <<own, registers, engine, device, loaded, program, length, transfer>>

(* The chain is ready: a transfer of either kind, or of the callback's.      *)
Built ==
  /\ Executes("built")
  /\ length' = [length EXCEPT ![This.chain] = This.length]
  /\ \/ code' = AsyncTransfer(This.chain) \o Rest
     \/ program = <<>> /\ turns = 0 /\ code' = SyncTransfer(This.chain)
  /\ UNCHANGED <<own, registers, engine, device, loaded, program, turns, transfer>>

(* Between transfers: another callback, stop, and start again with a chain   *)
(* that PARK has left ready.                                                 *)
RegisterCallback ==
  /\ code = <<>> /\ ~Outstanding
  /\ device' \in {[callback |-> FALSE, chainControl |-> {}]}
                  \cup {[callback |-> TRUE, chainControl |-> Interrupts \cup park] :
                         park \in SUBSET {"PARK"}}
  /\ UNCHANGED <<own, registers, engine, code, loaded, program, turns, length, transfer>>

StopOrStart ==
  /\ code = <<>> /\ ~Outstanding
  /\ \/ code' = StopEngine
     \/ /\ length[pointer] > 0 /\ \A i \in 1..length[pointer] : own[<<pointer, i>>]
        /\ code' = StartEngine
  /\ UNCHANGED <<own, registers, engine, device, loaded, program, turns, length, transfer>>

(* Faulty: the next descriptor is left as it was.                            *)
ConstructThisOnly ==
  /\ Executes("construct")
  /\ own' = [own EXCEPT ![This.desc] = TRUE]
  /\ code' = Rest
  /\ UNCHANGED <<registers, engine, device, loaded, program, turns, length, transfer>>

ConstructDescriptor ==
  /\ Executes("construct")
  /\ own' = [own EXCEPT ![After(This.desc)] = FALSE, ![This.desc] = TRUE]
  /\ code' = Rest
  /\ UNCHANGED <<registers, engine, device, loaded, program, turns, length, transfer>>

(* Faulty: the status is not looked at.                                      *)
RejectNever ==
  /\ Executes("reject_busy")
  /\ code' = Rest
  /\ UNCHANGED <<own, registers, engine, device, loaded, program, turns, length, transfer>>

(* -EBUSY leaves nothing of the call.                                        *)
RejectBusy ==
  /\ Executes("reject_busy")
  /\ code' = IF ~Busy THEN Rest ELSE IF program = <<>> THEN <<>> ELSE ThenReturn
  /\ UNCHANGED <<own, registers, engine, device, loaded, program, turns, length, transfer>>

AwaitIdle ==
  /\ Executes("await_idle") /\ ~Busy
  /\ code' = Rest
  /\ UNCHANGED <<own, registers, engine, device, loaded, program, turns, length, transfer>>

LoadControl ==
  /\ Executes("load")
  /\ loaded' = control /\ code' = Rest
  /\ UNCHANGED <<own, registers, engine, device, program, turns, length, transfer>>

(* Clearing RUN also forgets the end of the chain, without which RUN does    *)
(* nothing. When the engine begins to run its pointer counts as a descriptor *)
(* that it owns and whose next one is to be fetched.                         *)
StoreControl ==
  /\ Executes("store")
  /\ LET value == (loaded \ This.clear) \cup This.set
         ended == engine.ended /\ "RUN" \in value
         running == "RUN" \in value /\ ~ended
         starts == running /\ ~engine.running
     IN /\ control' = value \ {"CLEAR_IRQ"}
        /\ irq' = (irq /\ "CLEAR_IRQ" \notin value)
        /\ engine' = [engine EXCEPT !.ended = ended, !.running = running, !.owned = starts \/ @,
                                    !.next = IF starts THEN <<pointer, 1>> ELSE @]
        /\ transfer' = IF starts
                       THEN [chain |-> pointer, processed |-> <<>>,
                             owed |-> device.callback /\ Interrupts \subseteq value]
                       ELSE transfer
  /\ code' = Rest /\ loaded' = {}
  /\ UNCHANGED <<own, pointer, completed, device, program, turns, length>>

ClearStatus ==
  /\ \/ Executes("clear_status") \/ Executes("return_status")
  /\ completed' = FALSE /\ code' = Rest
  /\ UNCHANGED <<own, control, pointer, irq, engine, device, loaded, program, turns, length,
                 transfer>>

Point ==
  /\ Executes("point")
  /\ pointer' = This.chain /\ code' = Rest
  /\ UNCHANGED <<own, control, completed, irq, engine, device, loaded, program, turns, length,
                 transfer>>

(* The callback may start another transfer.                                  *)
Callback ==
  /\ Executes("callback")
  /\ transfer' = [transfer EXCEPT !.owed = FALSE]
  /\ IF turns = 0 THEN code' = Rest /\ UNCHANGED turns
     ELSE \E c \in CallbackChains \ {transfer.chain}, n \in Lengths :
            /\ turns' = turns - 1
            /\ code' = Prepare(c, n) \o Rest
  /\ UNCHANGED <<own, registers, engine, device, loaded, program, length>>

Eret ==
  /\ Executes("eret")
  /\ code' = program[1].code /\ loaded' = program[1].loaded /\ program' = <<>>
  /\ UNCHANGED <<own, registers, engine, device, turns, length, transfer>>

------------------------------------------------------------------------------
(* The engine.                                                               *)

(* The descriptor read part runs ahead as far as the FIFOs allow, and stops  *)
(* at a descriptor that is not the hardware's.                               *)
Fetch ==
  /\ engine.running /\ engine.owned /\ Len(engine.queue) < FifoDepth
  /\ engine' = [engine EXCEPT !.owned = own[engine.next], !.next = After(@),
                              !.queue = IF own[engine.next] THEN Append(@, engine.next) ELSE @]
  /\ UNCHANGED <<own, registers, processor, length, transfer>>

(* The transfer of the oldest descriptor is done and it is written back,     *)
(* with PARK for its bit.                                                    *)
WriteBack ==
  /\ engine.queue # <<>>
  /\ own' = [own EXCEPT ![engine.queue[1]] = "PARK" \in control]
  /\ engine' = [engine EXCEPT !.queue = Tail(@), !.written = TRUE]
  /\ transfer' = [transfer EXCEPT !.processed = Append(@, engine.queue[1])]
  /\ UNCHANGED <<registers, processor, length>>

EndChain ==
  /\ Ending
  /\ engine' = [engine EXCEPT !.running = FALSE, !.ended = TRUE, !.written = FALSE]
  /\ completed' = TRUE
  /\ irq' = (irq \/ (engine.written /\ Interrupts \subseteq control))
  /\ UNCHANGED <<own, control, pointer, processor, length, transfer>>

------------------------------------------------------------------------------
Processor ==
  \/ Interrupt \/ Built \/ ConstructDescriptor \/ RejectBusy \/ AwaitIdle \/ LoadControl
  \/ StoreControl \/ ClearStatus \/ Point \/ Callback \/ Eret
Engine == Fetch \/ WriteBack \/ EndChain
Program == CallTransfer \/ RegisterCallback \/ StopOrStart

Next == Processor \/ Engine \/ Program

Spec == Init /\ [][Next]_vars

(* The processor executes its instructions and the engine its transfers. The *)
(* program may stop calling.                                                 *)
FairSpec == Spec /\ WF_vars(Processor) /\ WF_vars(Engine)

------------------------------------------------------------------------------
(* Properties.                                                               *)

Executing(op) == code # <<>> /\ code[1].op = op

(* alt_avalon_sgdma_check_descriptor_status, without the errors that an      *)
(* engine from memory never has.                                             *)
CheckDescriptorStatus(d) == IF own[d] THEN "EINPROGRESS" ELSE "0"

(* Whoever is told that a transfer is over finds every descriptor of its     *)
(* chain processed, once, in order, and nothing else: the callback, the      *)
(* caller of the blocking transfer, whose status says so, and a caller that  *)
(* looks at the last descriptor (altera_avalon_sgdma.c:213-226, 518-538,     *)
(* 750-754).                                                                 *)
ToldWhenWhole ==
  /\ Executing("callback") => Whole
  /\ Executing("return_status") => Whole /\ completed
  /\ engine.running /\ CheckDescriptorStatus(<<transfer.chain, length[transfer.chain]>>) = "0"
       => Whole

(* No transfer is pointed elsewhere while it runs: a transfer that is asked  *)
(* for meanwhile waits for its end or is refused (altera_avalon_sgdma.c:     *)
(* 63-65, 166-168).                                                          *)
StartsOnlyWhenIdle == [][pointer' # pointer => ~engine.running /\ ~Busy]_vars

(* Every transfer that was started with a callback is followed by that       *)
(* callback, also when the callback starts the next transfer and this one    *)
(* ends before the handler returns, and every call returns                   *)
(* (altera_avalon_sgdma.c:112-126, 735-754).                                 *)
Answered == (transfer.owed ~> ~transfer.owed) /\ (code # <<>> ~> code = <<>>)
==============================================================================
