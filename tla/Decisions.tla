------------------------------ MODULE Decisions ------------------------------
(***************************************************************************)
(* The decisions of the strategy as the trading path sees them             *)
(* (internal/strategies/sigmoid_dca/step.go over internal/quant).          *)
(*                                                                         *)
(* Of the arithmetic of Step the module keeps which orders, releases and   *)
(* next runtimes the portfolio and the runtime allow, whatever the market  *)
(* does.  Module Backtest computes a Step of numbers, and checks that each *)
(* of its decisions is one of these.                                       *)
(***************************************************************************)
EXTENDS Naturals

CONSTANT
  MaxRelease  (* bound on a release; 0 is a release ratio of zero          *)

Tiers == {1, 2, 3}

\* The part of Step's own state that decides which orders it may still issue.
RuntimeRow   == [month : Nat, tiers : SUBSET Tiers, stop : BOOLEAN]
NewRuntime   == [month |-> 0, tiers |-> {}, stop |-> FALSE]

\* What Step asks for: a macro BUY of one tier, for the dead stack, or a
\* micro SELL of qty units of the float stack; month and tier are history.
Order   == [action : {"NONE", "BUY", "SELL"}, month : Nat, tier : 0 .. 3, qty : Nat]
NoOrder == [action |-> "NONE", month |-> 0, tier |-> 0, qty |-> 0]

-----------------------------------------------------------------------------
Decision(rt, order, release) == [rt |-> rt, order |-> order, release |-> release]

Buy(month, tier) == [action |-> "BUY", month |-> month, tier |-> tier, qty |-> 1]
Sell(qty)        == [action |-> "SELL", month |-> 0, tier |-> 0, qty |-> qty]

\* The monthly reset of the macro engine.
InMonth(rt, m) == IF rt.month = m THEN rt ELSE [rt EXCEPT !.month = m, !.tiers = {}]

\* BEAR: at most one tier not yet triggered this month, with USDT to spend.
MacroDecisions(pf, rt, m) ==
  {<<InMonth(rt, m), NoOrder>>} \cup
  {<<[InMonth(rt, m) EXCEPT !.tiers = @ \cup {k}], Buy(m, k)>> :
      k \in {k \in Tiers : pf.usdt > 0 /\ k \notin InMonth(rt, m).tiers}}

\* BULL: the stop-loss liquidates the float stack once and silences the
\* engine; short of it the sigmoid sells a part of the stack.
MicroDecisions(pf, rt) ==
  {<<rt, NoOrder>>} \cup
  (IF rt.stop THEN {} ELSE
     {<<[rt EXCEPT !.stop = TRUE], IF pf.float > 0 THEN Sell(pf.float) ELSE NoOrder>>}
       \cup {<<rt, Sell(q)>> : q \in 1 .. pf.float})

Released(pf) == IF pf.dead < MaxRelease THEN pf.dead ELSE MaxRelease

\* QUIET suspends everything; otherwise one engine runs, and a release of part
\* of the dead stack may come with its decision.
Step(pf, rt, m) ==
  {Decision(rt, NoOrder, 0)} \cup
  {Decision(d[1], d[2], r) :
      d \in MacroDecisions(pf, rt, m) \cup MicroDecisions(pf, rt), r \in 0 .. Released(pf)}
=============================================================================
