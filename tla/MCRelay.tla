------------------------------- MODULE MCRelay -------------------------------
(* Relay, for TLC: the connections are interchangeable in Init, Next and   *)
(* every safety property, so the runs without liveness may reduce them.    *)
EXTENDS Relay, TLC

ConnSymmetry == Permutations(Conns)
=============================================================================
