------------------------------ MODULE MCBacktest ------------------------------
(* Backtest on eleven bars in three months: rises above what was bought and    *)
(* crashes below it, rises that last, zigzags, a fall, steps between flat      *)
(* stretches, a rise that begins in the warmup, and a near-total loss.  The    *)
(* moves are far larger than a market's, and so is the QUIET threshold: 5 to   *)
(* 6 is QUIET still.                                                           *)
EXTENDS Backtest

ElevenDays  == <<1, 2, 4, 5, 7, 8, 9, 10, 11, 12, 14>>
ThreeMonths == <<1, 1, 1, 1, 1, 1, 2, 2, 2, 3, 3>>

FewPaths ==
  {<<2, 1, 10, 6, 6, 5, 20, 2, 3, 4, 2>>,
   <<2, 1, 10, 6, 6, 5, 20, 20, 20, 20, 9>>,
   <<4, 6, 3, 8, 5, 9, 2, 7, 3, 8, 4>>,
   <<9, 6, 5, 9, 6, 4, 8, 5, 2, 6, 9>>,
   <<5, 5, 5, 9, 9, 9, 4, 4, 4, 12, 12>>,
   <<4, 6, 10, 6, 5, 4, 20, 20, 30, 30, 20>>,
   <<30, 20, 10, 5, 4, 3, 2, 2, 1, 1, 1>>,
   <<1, 10, 5, 5, 4, 12, 12, 3, 12, 12, 2>>,
   <<2, 1, 2, 1, 1, 2, 1, 90, 90, 2, 1>>}

\* Windows that begin at bar 7, at bar 3 and, the last two, at the first bar.
FourSpans == <<5, 11, 30, 0>>

Rich     == [capital |-> 10000, reserve |-> 1000, inject |-> 100, trigger |-> 50, ratio |-> 20]
Cautious == [capital |-> 10000, reserve |-> 9000, inject |-> 300, trigger |-> 10, ratio |-> 50]
Alone    == [capital |-> 10000, reserve |-> 0, inject |-> 0, trigger |-> 30, ratio |-> 100]
ThreeSpawns == {Rich, Cautious, Alone}
=============================================================================
