---------------------------- MODULE CommandCall ----------------------------
(***************************************************************************)
(* What send_sync promises the program on the ST, with no bus, no ring and *)
(* no token: calls are made one after the other; a call may be executed    *)
(* late or again, but never out of order; success is reported only for a   *)
(* call that has been executed.                                            *)
(***************************************************************************)
EXTENDS Integers

VARIABLES
  call,      \* the calls made so far
  last,      \* the latest call executed
  answer     \* the answer to the current call: "none", "ok" or "failed"

vars == <<call, last, answer>>

Init == call = 0 /\ last = 0 /\ answer = "failed"

Issue ==
  /\ answer # "none"
  /\ call' = call + 1 /\ answer' = "none"
  /\ UNCHANGED last

Execute(k) ==
  /\ k \in 1..call /\ k >= last
  /\ last' = k
  /\ UNCHANGED <<call, answer>>

Succeed ==
  /\ answer = "none" /\ last = call
  /\ answer' = "ok"
  /\ UNCHANGED <<call, last>>

Fail ==
  /\ answer = "none"
  /\ answer' = "failed"
  /\ UNCHANGED <<call, last>>

Next == Issue \/ Succeed \/ Fail \/ \E k \in 1..call : Execute(k)

Spec == Init /\ [][Next]_vars

=============================================================================
