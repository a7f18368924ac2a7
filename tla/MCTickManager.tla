---------------------------- MODULE MCTickManager ----------------------------
(* TickManager on small instances: two candles and the one that is forming,  *)
(* the month turning between the first two decisions or not at all.          *)
EXTENDS TickManager

CONSTANTS i1, i2

OneInstance  == {i1}
TwoInstances == {i1, i2}

\* Bar 1 is decided in month 1, bar 2 in month 2.
MonthTurns == <<1, 1, 2>>
\* Both bars are decided in month 1.
SameMonth  == <<1, 1, 1>>

Holding  == [row |-> TRUE, usdt |-> 1, dead |-> 1, float |-> 0, last |-> 0]
\* A new instance: no row before its first tick.
Unborn == EmptyRow

AllFaults == FaultNames
NoFault   == {}

SmallRows == [row : {TRUE}, usdt : {1}, dead : {1}, float : 0 .. 1, last : 0 .. MaxBar]
=============================================================================
