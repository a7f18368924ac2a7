------------------------------- MODULE Backtest -------------------------------
(***************************************************************************)
(* The backtest of one chromosome over one crucible window, and the score  *)
(* it earns (internal/adapters/backtest/adapter.go, quant/crucible.go,     *)
(* quant/ghost_dca.go and Evaluate in saas/ga/sigmoid_dca_evolvable.go),   *)
(* with the strategy it drives: Step of sigmoid_dca over the market state, *)
(* macro, micro and release rules of internal/quant.                       *)
(*                                                                         *)
(* Numbers are integers: USDT, quantities in units of a fraction of the    *)
(* lot, prices in USDT per unit, percentages and per mille; a division     *)
(* rounds down where the code rounds to cents or not at all.  The closes   *)
(* are given; the average that is compared with them may be any that their *)
(* past allows, which decides between the market states.                   *)
(***************************************************************************)
EXTENDS Integers, Sequences, FiniteSetsExt, SequencesExt

CONSTANTS
  Days, Months,       (* the open time of each bar in days, and its month  *)
  Paths,              (* the sequences of closes                           *)
  Spans, WarmupDays,  (* the windows' lengths in days, 0 for all; warmup   *)
  Spawns,             (* the spawn points                                  *)
  DropPct, StopPct,   (* the chromosome; StopPct is the loss, not negative *)
  SellPermille,       (* what a sigmoid sale may sell of the float stack   *)
  MinOrder,           (* macroMinOrderUSDT                                 *)
  MinBars, SigmaBars, (* bars Step needs; bars of the QUIET range ...      *)
  QuietPermille,      (* ... and the range below which it is QUIET         *)
  LotStep, LotMin, FeePermille

N == Len(Days)

Spawn == [capital : Nat \ {0}, reserve : Nat, inject : Nat, trigger : Nat, ratio : 0 .. 100]

ASSUME BacktestAssumption ==
  /\ Days \in Seq(Nat) /\ N > 0 /\ Months \in [1 .. N -> Nat \ {0}]
  /\ \A i, j \in 1 .. N : i < j => Days[i] < Days[j] /\ Months[i] <= Months[j]
  /\ Spans \in Seq(Nat) /\ WarmupDays \in Nat
  /\ \A p \in Paths : p \in [1 .. N -> Nat \ {0}]
  /\ Spawns \subseteq Spawn
  /\ DropPct \in 5 .. 30 /\ StopPct \in 10 .. 30 /\ SellPermille \subseteq 1 .. 50
  /\ {MinOrder, MinBars, SigmaBars, LotStep} \subseteq Nat \ {0}
  /\ QuietPermille \in Nat /\ LotMin \in Nat /\ FeePermille \in 0 .. 999

VARIABLES
  spawn, closes, window,  (* what this run is given                        *)
  bar,        (* the number of the bar processed last                      *)
  inEval,     (* the evaluation has begun                                  *)
  portfolio,  (* the simulated account                                     *)
  rt,         (* the RuntimeState that Step returned last                  *)
  prevMonth,  (* prevMonthKey, 0 for ""                                    *)
  flows,      (* the injections: their days from the start, and amounts    *)
  nav,        (* navCurve                                                  *)
  metrics     (* what the run returns, {} before its end                   *)

given == <<spawn, closes, window>>
vars  == <<given, bar, inEval, portfolio, rt, prevMonth, flows, nav, metrics>>

Tiers     == {1, 2, 3}
Portfolio == [usdt : Nat, dead : Nat, float : Nat]
Runtime   == [month : Nat, high : Nat, tiers : SUBSET Tiers, stop : BOOLEAN]

\* The first bar opened on the day or after it.
FirstIdx(day) == Min({N + 1} \cup {i \in 1 .. N : Days[i] >= day})

\* Mutant: the start is not clamped to the first bar.
UnclampedStart(span) == IF span = 0 THEN Days[1] ELSE Days[N] - span

EvalStart(span) ==
  IF span = 0 \/ Days[N] - span <= Days[1] THEN Days[1] ELSE Days[N] - span

\* BuildCrucibleWindows.
Windows ==
  {[first |-> FirstIdx(EvalStart(Spans[w]) - WarmupDays), start |-> EvalStart(Spans[w])] :
     w \in DOMAIN Spans}

TypeOK ==
  /\ spawn \in Spawns /\ closes \in Paths
  /\ window.first \in 1 .. N /\ window.start \in Nat
  /\ bar \in window.first - 1 .. N
  /\ inEval \in BOOLEAN
  /\ portfolio \in Portfolio
  /\ rt \in Runtime
  /\ prevMonth \in Nat
  /\ flows \in Seq([day : Nat, amount : Nat])
  /\ nav \in Seq(Nat)

Init ==
  /\ spawn \in Spawns /\ closes \in Paths /\ window \in Windows
  /\ bar = window.first - 1
  /\ inEval = FALSE
  /\ portfolio = [usdt |-> 0, dead |-> 0, float |-> 0]
  /\ rt = [month |-> 0, high |-> 0, tiers |-> {}, stop |-> FALSE]
  /\ prevMonth = 0
  /\ flows = <<>> /\ nav = <<>> /\ metrics = {}

-----------------------------------------------------------------------------
\* The market state.  The average lies between the closes seen so far and moves
\* towards the last one; the closes before a bar only bound it and its slope.

\* The highs and lows of the last bars enclose the closes, how widely the market
\* decides: their range may be below the threshold if that of the closes is.
Quiet(b) ==
  LET last == {closes[i] : i \in Max({window.first, b - SigmaBars + 1}) .. b}
  IN (Max(last) - Min(last)) * 1000 < QuietPermille * Min(last)

Higher(b) == \E i \in window.first .. b - 1 : closes[i] < closes[b]
Rising(b) == closes[window.first] < closes[b]
               /\ \A i \in window.first .. b - 1 : closes[i] <= closes[i + 1]

\* A first average has no slope, and is no ground for BULL; after a rise that
\* was never interrupted the close is above an average that rises.
MarketStates(b) ==
  LET seen == b - window.first + 1
  IN IF seen < MinBars THEN {"SHORT"}
     ELSE (IF Quiet(b) THEN {"QUIET"} ELSE {})
            \cup (IF seen = MinBars \/ ~Rising(b) THEN {"BEAR"} ELSE {})
            \cup (IF seen > MinBars /\ Higher(b) THEN {"BULL"} ELSE {})

-----------------------------------------------------------------------------
\* Step on a portfolio pf and a runtime r at a price.

\* Mutant: the reserve floor may be spent.
WholeBalance(pf) == pf.usdt

Spendable(pf) == IF pf.usdt > spawn.reserve THEN pf.usdt - spawn.reserve ELSE 0

Worth(pf, price) == pf.usdt + (pf.dead + pf.float) * price

\* ROI against the initial capital, injections included, at least pct percent.
ROIReaches(pf, price, pct) ==
  (Worth(pf, price) - spawn.capital) * 100 >= pct * spawn.capital

NoIntent        == [action |-> "NONE", size |-> 0, tier |-> 0]
Buys(amount, k) == [action |-> "BUY", size |-> amount, tier |-> k]
Sells(qty)      == [action |-> "SELL", size |-> qty, tier |-> 0]

InMonth(r, m, price) ==
  IF r.month # m THEN [r EXCEPT !.month = m, !.high = price, !.tiers = {}]
                 ELSE [r EXCEPT !.high = Max({@, price})]

DropTenths == <<10, 15, 20>>
SpendPct   == <<5, 10, 15>>
Amount(pf, k) == (Spendable(pf) * SpendPct[k]) \div 100

Due(pf, r, price) ==
  {k \in Tiers : /\ price * 1000 < r.high * (1000 - DropPct * DropTenths[k])
                 /\ Amount(pf, k) >= MinOrder}

\* Mutant: a tier is not held back once it has fired.
MacroAgain(pf, r0, m, price) ==
  LET r == InMonth(r0, m, price)
      k == Min(Due(pf, r, price))
  IN IF Due(pf, r, price) = {} THEN [rt |-> r, order |-> NoIntent]
     ELSE [rt |-> [r EXCEPT !.tiers = @ \cup {k}], order |-> Buys(Amount(pf, k), k)]

\* The macro engine: at most one tier, marked when it is large enough to buy.
Macro(pf, r0, m, price) ==
  LET r    == InMonth(r0, m, price)
      left == Due(pf, r, price) \ r.tiers
      k    == Min(left)
  IN IF left = {} THEN [rt |-> r, order |-> NoIntent]
     ELSE [rt |-> [r EXCEPT !.tiers = @ \cup {k}], order |-> Buys(Amount(pf, k), k)]

\* Mutant: the sigmoid goes on after the stop-loss.
MicroUnsilenced(pf, r, price, permille) ==
  IF ~r.stop /\ ~ROIReaches(pf, price, -StopPct)
    THEN [rt |-> [r EXCEPT !.stop = TRUE],
          order |-> IF pf.float > 0 THEN Sells(pf.float) ELSE NoIntent]
    ELSE [rt |-> r, order |-> IF pf.float = 0 THEN NoIntent
                              ELSE Sells((pf.float * permille) \div 1000)]

\* The micro engine: the stop-loss once, the sigmoid's share until then.
Micro(pf, r, price, permille) ==
  IF ~r.stop /\ ~ROIReaches(pf, price, -StopPct)
    THEN [rt |-> [r EXCEPT !.stop = TRUE],
          order |-> IF pf.float > 0 THEN Sells(pf.float) ELSE NoIntent]
    ELSE [rt |-> r, order |-> IF r.stop \/ pf.float = 0 THEN NoIntent
                              ELSE Sells((pf.float * permille) \div 1000)]

\* The release: whenever the ROI is high enough, not only when it gets there.
Release(pf, price) ==
  IF ROIReaches(pf, price, spawn.trigger) THEN (pf.dead * spawn.ratio) \div 100 ELSE 0

Engine(state, pf, r, m, price, permille) ==
  CASE state = "BEAR" -> Macro(pf, r, m, price)
    [] state = "BULL" -> Micro(pf, r, price, permille)
    [] OTHER          -> [rt |-> r, order |-> NoIntent]

\* The intents: at most one order, and the release, 0 for none, after it.
Step(state, pf, r, m, price, permille) ==
  LET engine == Engine(state, pf, r, m, price, permille)
  IN [rt |-> engine.rt, order |-> engine.order,
      release |-> IF state \in {"SHORT", "QUIET"} THEN 0 ELSE Release(pf, price)]

-----------------------------------------------------------------------------
\* applyIntent: market orders at the close, in whole lots.

Snapped(qty) == (qty \div LotStep) * LotStep

Bought(pf, spend, price) ==
  LET qty == Snapped((spend * (1000 - FeePermille)) \div (price * 1000))
  IN IF spend <= Spendable(pf) /\ qty >= LotMin
       THEN [pf EXCEPT !.usdt = @ - qty * price, !.dead = @ + qty] ELSE pf

Sold(pf, size, price) ==
  LET qty == Snapped(size)
  IN IF qty >= LotMin /\ qty <= pf.float
       THEN [pf EXCEPT !.float = @ - qty,
                       !.usdt = @ + (qty * price * (1000 - FeePermille)) \div 1000] ELSE pf

\* Mutant: what is released stays in the dead stack as well.
ReleasedTwice(pf, qty) == IF qty <= pf.dead THEN [pf EXCEPT !.float = @ + qty] ELSE pf

Released(pf, qty) ==
  IF qty <= pf.dead THEN [pf EXCEPT !.dead = @ - qty, !.float = @ + qty] ELSE pf

Ordered(pf, order, price) ==
  CASE order.action = "BUY"  -> Bought(pf, order.size, price)
    [] order.action = "SELL" -> Sold(pf, order.size, price)
    [] OTHER                 -> pf

Applied(pf, out, price) == Released(Ordered(pf, out.order, price), out.release)

-----------------------------------------------------------------------------
\* The loop of RunBacktest.

\* Mutant: the first evaluated bar counts as the turn of a month.
MonthUnset(begins, b) == prevMonth

Begins(b) == ~inEval /\ Days[b] >= window.start

\* The month the turn is measured from: that of the first evaluated bar.
MonthBefore(begins, b) == IF begins THEN Months[b] ELSE prevMonth

Turns(b) ==
  /\ inEval \/ Begins(b)
  /\ Months[b] # MonthBefore(Begins(b), b)
  /\ spawn.inject > 0

\* The portfolio Step sees: the account, seeded with the capital when the
\* evaluation begins, and topped up when a month turns in it.
Funded(begins, turns) ==
  [portfolio EXCEPT !.usdt = (IF begins THEN spawn.capital ELSE @)
                               + (IF turns THEN spawn.inject ELSE 0)]

\* The market state, and the sigmoid's share, are the market's choice.
Tick ==
  LET b      == bar + 1
      begins == Begins(b)
      eval   == inEval \/ begins
      turns  == Turns(b)
      pf     == Funded(begins, turns)
  IN /\ b <= N
     /\ \E state \in MarketStates(b), permille \in SellPermille :
          LET out  == Step(state, pf, rt, Months[b], closes[b], permille)
              done == IF eval THEN Applied(pf, out, closes[b]) ELSE pf
          IN /\ rt' = out.rt
             /\ portfolio' = done
             /\ nav' = IF eval THEN Append(nav, Worth(done, closes[b])) ELSE nav
     /\ bar' = b
     /\ inEval' = eval
     /\ prevMonth' = IF turns THEN Months[b] ELSE MonthBefore(begins, b)
     /\ flows' = IF turns
                   THEN Append(flows, [day |-> Days[b] - Days[FirstIdx(window.start)],
                                       amount |-> spawn.inject])
                   ELSE flows
     /\ UNCHANGED <<given, metrics>>

-----------------------------------------------------------------------------
\* The metrics, and the passive baseline over the bars of the evaluation.

\* Mutant: the peak is the previous value.
DrawdownFromLast(curve) ==
  FoldLeft(LAMBDA a, v : [peak |-> v, worst |-> Max({a.worst, ((a.peak - v) * 1000) \div a.peak})],
           [peak |-> Head(curve), worst |-> 0], curve).worst

\* MaxDrawdown, in per mille, in one pass: the fall from the peak so far.
Deeper(a, v) ==
  LET peak == Max({a.peak, v})
  IN [peak  |-> peak,
      worst |-> IF peak > 0 THEN Max({a.worst, ((peak - v) * 1000) \div peak}) ELSE a.worst]

MaxDrawdown(curve) == FoldLeft(Deeper, [peak |-> Head(curve), worst |-> 0], curve).worst

\* Modified Dietz: an injection weighs as much as it has days left.
Sum(seq) == FoldLeft(+, 0, seq)

Base(fs, days) ==
  Sum([i \in DOMAIN fs |-> fs[i].amount * (IF days > 0 THEN days - fs[i].day ELSE 1)])
    + spawn.capital * Max({days, 1})

Gain(equity, fs) == equity - spawn.capital - Sum([i \in DOMAIN fs |-> fs[i].amount])

ROI(equity, fs, days) == (Gain(equity, fs) * Max({days, 1}) * 1000) \div Base(fs, days)

\* SimulateGhostDCA: everything is spent on the first bar, and at each turn of
\* the month; fractions of a unit are not kept.
GhostBar(g, b) ==
  LET turns == Months[b] # g.month /\ spawn.inject > 0
      units == g.units + (IF turns THEN spawn.inject \div closes[b] ELSE 0)
      day   == Days[b] - Days[FirstIdx(window.start)]
  IN [units |-> units,
      month |-> IF turns THEN Months[b] ELSE g.month,
      flows |-> IF turns THEN Append(g.flows, [day |-> day, amount |-> spawn.inject]) ELSE g.flows,
      nav   |-> Append(g.nav, units * closes[b])]

Ghost ==
  LET first == FirstIdx(window.start)
      start == [units |-> spawn.capital \div closes[first], month |-> Months[first], flows |-> <<>>,
                nav   |-> <<(spawn.capital \div closes[first]) * closes[first]>>]
  IN FoldLeft(GhostBar, start, [i \in 1 .. N - first |-> first + i])

\* Evaluate's score of one window: the gain over the ghost's, less half as much
\* again as the drawdown in excess of the ghost's; fatal from 88 percent on.
MaxDDFatal == 880
FatalScore == -99999000

Score(roi, drawdown, ghostRoi, ghostDrawdown) ==
  IF drawdown >= MaxDDFatal THEN FatalScore
  ELSE roi - ghostRoi - (3 * Max({0, drawdown - ghostDrawdown})) \div 2

Measure ==
  LET g        == Ghost
      days     == Days[N] - Days[FirstIdx(window.start)]
      equity   == Last(nav)
      drawdown == MaxDrawdown(nav)
  IN /\ bar = N /\ metrics = {}
     /\ metrics' =
          {[equity |-> equity, ghost |-> Last(g.nav), drawdown |-> drawdown,
            score  |-> Score(ROI(equity, flows, days), drawdown,
                             ROI(Last(g.nav), g.flows, days), MaxDrawdown(g.nav))]}
     /\ UNCHANGED <<given, bar, inEval, portfolio, rt, prevMonth, flows, nav>>

Next == Tick \/ Measure

Spec == Init /\ [][Next]_vars

-----------------------------------------------------------------------------
\* The reserve floor is never spent, whatever the tiers, fees, rounding and
\* injections amount to over the months (macro_engine.go:57-88, adapter.go:158-167).
ReserveKept == inEval => portfolio.usdt >= Min({spawn.capital, spawn.reserve})

\* Trading at the close makes nobody richer: the account is worth no more after
\* a bar's orders and releases than what it held and was given is worth at that
\* close (adapter.go:153-194).
NothingFromNothing ==
  [][ bar' # bar =>
        LET given0 == (IF inEval' /\ ~inEval THEN spawn.capital ELSE 0)
                        + Sum([i \in DOMAIN flows' |-> flows'[i].amount])
                        - Sum([i \in DOMAIN flows  |-> flows[i].amount])
        IN Worth(portfolio', closes[bar']) <= Worth(portfolio, closes[bar']) + given0 ]_vars

\* The stop-loss is final: the bar it strikes leaves nothing of the float stack
\* that an order could sell, and later ones sell nothing, though releases and
\* rises of the month's ROI go on (micro_engine.go:35-63, lot.go:21).
Sellable(qty) == Snapped(qty) > 0 /\ Snapped(qty) >= LotMin

StopLossIsFinal ==
  [][ /\ rt.stop => rt'.stop /\ portfolio'.float >= portfolio.float
      /\ inEval /\ ~rt.stop /\ rt'.stop => ~Sellable(portfolio'.float) ]_vars

\* Every decision computed here is one of module Decisions, which the models of
\* the trading path and the proofs about the tiers build on (step.go:32-92),
\* with what is paid in on the bar to decide on.  Quantities are
\* mapped to none, some and all.
D == INSTANCE Decisions WITH MaxRelease <- 1

Part(qty, all) == IF qty = all THEN 2 ELSE 1

AbstractRow(pf) == [usdt  |-> Min({1, Spendable(pf)}), dead |-> Min({1, pf.dead}),
                    float |-> IF pf.float = 0 THEN 0 ELSE 2]
AbstractRuntime(r) == [month |-> r.month, tiers |-> r.tiers, stop |-> r.stop]

AbstractOrder(order, pf, m) ==
  CASE order.action = "BUY"  -> D!Buy(m, order.tier)
    [] order.action = "SELL" -> D!Sell(Part(order.size, pf.float))
    [] OTHER                 -> D!NoOrder

AbstractDecision(out, pf, m) ==
  D!Decision(AbstractRuntime(out.rt), AbstractOrder(out.order, pf, m),
             IF out.release = 0 THEN 0 ELSE 1)

ImplementsDecisions ==
  bar < N =>
    LET b  == bar + 1
        m  == Months[b]
        pf == Funded(Begins(b), Turns(b))
    IN \A state \in MarketStates(b), permille \in SellPermille :
         AbstractDecision(Step(state, pf, rt, m, closes[b], permille), pf, m)
           \in D!Step(AbstractRow(pf), AbstractRuntime(rt), m)

\* The drawdown of the curve is that of its worst pair of bars, although it is
\* computed in one pass with the highest peak so far (ghost_dca.go:104-124).
Fall(from, to) == ((from - to) * 1000) \div from

WorstPair(curve) ==
  Max({0} \cup {Fall(curve[p[1]], curve[p[2]]) :
                  p \in {q \in (1 .. Len(curve)) \X (1 .. Len(curve)) :
                           q[1] <= q[2] /\ curve[q[1]] > 0}})

DrawdownIsWorstPair == \A x \in metrics : x.drawdown = WorstPair(nav)

\* The chromosome and the baseline it is compared with are paid the same money on
\* the same days, though one counts months in the loop over warmup and evaluation
\* and the other over a slice: so a positive score means that the strategy ended
\* richer (adapter.go:79-99, ghost_dca.go:53-72, sigmoid_dca_evolvable.go:148-151).
SameMoney ==
  \A x \in metrics : flows = Ghost.flows /\ (x.score > 0 => x.equity > x.ghost)

\* The warmup is for the indicators, its decisions are discarded: it cannot have
\* struck the stop-loss of an account that does not exist yet (adapter.go:35-36).
WarmupOnlyWarms == rt.stop => inEval
=============================================================================
