----------------------------- MODULE HwService -----------------------------
(***************************************************************************)
(* What the hardware scaler promises to the program that calls it: a call  *)
(* for an image that is small enough leaves the scaled image in the        *)
(* destination buffer and the status alone, one for a larger image sets    *)
(* the status and nothing else.  The caller's check of the status frees    *)
(* the descriptor pool after an error, and the status is never reset: what *)
(* happens in calls after that is promised no more than the code gives.    *)
(***************************************************************************)
EXTENDS Integers

CONSTANT BufferSize   \* The longest line and the most lines of an image.

VARIABLES
  phase,      \* Where the caller is with respect to the scaler.
  request,    \* The arguments of the last call, with its width and height.
  status, mallocPtr,   \* HWContext.
  result      \* What the last call has left in the destination buffer.

service == <<phase, request, status, mallocPtr, result>>

NoRequest == [x |-> 0, y |-> 0, width |-> 0, height |-> 0, xScale |-> 1, yScale |-> 1]

ServiceInit ==
  /\ phase = "init"
  /\ request = NoRequest
  /\ status = 0
  /\ mallocPtr = "uninitialized"
  /\ result = "none"

\* initHW
Initialize ==
  /\ phase = "init"
  /\ phase' = "initialized"
  /\ status' \in 0 .. 3
  /\ mallocPtr' = CASE status' = 0 -> "pool"
                    [] status' = 3 -> "null"
                    [] OTHER       -> mallocPtr
  /\ UNCHANGED <<request, result>>

\* A call of scaleHW or scaleHSCD, with the arguments of the new request.
Call ==
  /\ phase = "idle"
  /\ phase' = "called"
  /\ result' = "none"
  /\ UNCHANGED <<status, mallocPtr>>

\* The size check fails.
Refuse ==
  /\ phase = "called"
  /\ \/ request.width > BufferSize /\ status' = 6
     \/ request.width <= BufferSize /\ request.height > BufferSize /\ status' = 7
  /\ phase' = "returned"
  /\ UNCHANGED <<request, mallocPtr, result>>

\* The image goes through the accelerator.
Scale ==
  /\ phase = "called"
  /\ request.width \in 1 .. BufferSize /\ request.height \in 1 .. BufferSize
  /\ phase' = "returned"
  /\ result' = "scaled"
  /\ UNCHANGED <<request, status, mallocPtr>>

\* The descriptors overwrite what the heap has given to others.
Overwrite ==
  /\ phase = "called"
  /\ mallocPtr = "freed"
  /\ phase' = "undefined"
  /\ UNCHANGED <<request, status, mallocPtr, result>>

\* A part that goes backwards is written beyond the destination buffer, or waits
\* for ever.
Overrun ==
  /\ phase = "called"
  /\ request.width <= BufferSize /\ request.height <= BufferSize
  /\ request.width < 0 \/ request.height < 0
  /\ phase' = "undefined"
  /\ UNCHANGED <<request, status, mallocPtr, result>>

\* checkHW
Check ==
  /\ phase \in {"initialized", "returned"}
  /\ mallocPtr' = IF status # 0 /\ mallocPtr = "pool" THEN "freed" ELSE mallocPtr
  /\ \/ phase' = IF phase = "initialized" /\ status # 0 THEN "exit" ELSE "idle"
     \/ status # 0 /\ mallocPtr \in {"freed", "uninitialized"} /\ phase' = "undefined"
  /\ UNCHANGED <<request, status, result>>

\* The caller gives the destination buffer back to the heap.
Release ==
  /\ phase = "idle"
  /\ request' = NoRequest
  /\ result' = "none"
  /\ UNCHANGED <<phase, status, mallocPtr>>

Serve == Initialize \/ Refuse \/ Scale \/ Overwrite \/ Overrun \/ Check

ServiceNext == Call \/ Release \/ Serve

ServiceSpec == ServiceInit /\ [][ServiceNext]_service
=============================================================================
