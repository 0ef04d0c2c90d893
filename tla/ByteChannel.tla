---------------------------- MODULE ByteChannel ----------------------------
(***************************************************************************)
(* What the MIDI IN path promises its two users, with no mention of the    *)
(* cartridge bus: bytes arrive from the network in bursts, at most Cap of  *)
(* them wait, the ones that find the buffer full are lost, and the program *)
(* on the Atari ST takes the waiting ones in arrival order, each once.     *)
(* The n-th byte to arrive is represented by the number n.                 *)
(***************************************************************************)
EXTENDS Naturals, Sequences

CONSTANTS Cap,       \* bytes that can wait
          MaxArrive, \* bound: bytes that ever arrive
          MaxBurst   \* bound: bytes that arrive in one step

VARIABLES arrived,   \* how many bytes have arrived
          waiting,   \* the ones not yet taken
          taken      \* the ones taken, in the order they were taken

vars == <<arrived, waiting, taken>>

(* The part of a burst of n bytes for which there is room. *)
Room(q, n) == IF n <= Cap - Len(q) THEN n ELSE Cap - Len(q)

Init == arrived = 0 /\ waiting = <<>> /\ taken = <<>>

Arrive ==
  \E n \in 1..MaxBurst :
    /\ arrived + n <= MaxArrive
    /\ arrived' = arrived + n
    /\ waiting' = waiting \o [i \in 1..Room(waiting, n) |-> arrived + i]
    /\ UNCHANGED taken

Take ==
  /\ waiting # <<>>
  /\ waiting' = Tail(waiting)
  /\ taken' = Append(taken, Head(waiting))
  /\ UNCHANGED arrived

Next == Arrive \/ Take

Spec == Init /\ [][Next]_vars
=============================================================================
