---------------------------- MODULE MCRealtime ----------------------------
(* A small instance of Realtime for TLC: two clients follow one plan and a *)
(* third another.                                                          *)
EXTENDS Realtime

CONSTANTS c1, c2, c3, p1, p2

TwoAndOne == [c \in Connections |-> IF c = c3 THEN p2 ELSE p1]
=============================================================================
