----------------------------- MODULE MCEvolution -----------------------------
(* Evolution with two tasks, two promote requests that may overlap, and one  *)
(* reader.                                                                   *)
EXTENDS Evolution

CONSTANTS p1, p2, r1

TwoPromoters == {p1, p2}
OneReader    == {r1}
NoReader     == {}

AllFaults == FaultNames
NoFault   == {}
=============================================================================
