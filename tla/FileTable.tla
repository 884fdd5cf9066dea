------------------------------ MODULE FileTable ------------------------------
(* What the file layer promises a program: a table of descriptors. A new     *)
(* descriptor is the least free one, standard input, output and error are    *)
(* always there, a call that fails changes nothing, and a call through a     *)
(* descriptor reaches the file it was opened on.                             *)
EXTENDS Integers, FiniteSetsExt

CONSTANTS Descriptors, Files, None

VARIABLES
  files,       \* the file each open descriptor stands for
  reached, rc  \* the file the last call reached, and what it returned

Stdio == 0..2

Init == files \in [Stdio -> Files] /\ reached = None /\ rc = "ok"

(* The standard streams are directed to their device before main.            *)
Redirect == \E i \in Stdio, f \in Files :
  /\ DOMAIN files = Stdio
  /\ files' = [files EXCEPT ![i] = f]
  /\ UNCHANGED <<reached, rc>>

Open == \E f \in Files :
  LET free == Descriptors \ DOMAIN files IN
  /\ free # {}
  /\ files' = [i \in DOMAIN files \cup {Min(free)} |-> IF i \in DOMAIN files THEN files[i] ELSE f]
  /\ reached' = None /\ rc' = "ok"

(* Also when the file's own close fails.                                     *)
Close == \E i \in DOMAIN files :
  /\ files' = [j \in DOMAIN files \ ({i} \ Stdio) |-> files[j]]
  /\ reached' = None /\ rc' \in {"ok", "error"}

Use == \E i \in DOMAIN files :
  /\ reached' = files[i] /\ rc' \in {"ok", "error"}
  /\ UNCHANGED files

(* Refused, or answered without the file.                                    *)
Answer == reached' = None /\ rc' \in {"ok", "error"} /\ UNCHANGED files

Next == Redirect \/ Open \/ Close \/ Use \/ Answer

Spec == Init /\ [][Next]_<<files, reached, rc>>
==============================================================================
