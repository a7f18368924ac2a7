-------------------------- MODULE MCTradingPipeline --------------------------
(* TradingPipeline with one instance, one or two candles and one connection. *)
EXTENDS TradingPipeline

CONSTANTS i1

OneInstance == {i1}

\* All the bars are decided in one month.
SameMonth  == <<1, 1, 1>>
FirstMonth == <<1, 1>>

\* An instance with a float stack to sell and no USDT, and one with a dead stack.
Floating == [row |-> TRUE, usdt |-> 0, dead |-> 0, float |-> 1, last |-> 0]
Floor    == [row |-> TRUE, usdt |-> 1, dead |-> 1, float |-> 0, last |-> 0]

\* The account behind it; the first holds BTC of the user's own as well.
OnlyBtc == [usdt |-> 0, btc |-> 5]
OneBtc  == [usdt |-> 1, btc |-> 1]

OneSession == 1 .. 1

NoFault     == {}
CrashOnly   == {"crash"}
BalanceOnly == {"balance"}
AllButBalance == {"cut", "reject", "place", "poll"}
Rollback    == {"rollback"}

\* Bounds on what is explored.  Users start an instance and leave it running:
\* module MCTickManager explores the rest of its life.  And the tiers are alike
\* but for their order, in which they are taken here.
OnlyStarts ==
  \A i \in Instances : status[i] # status'[i] => status'[i] = "RUNNING"

TiersInOrder ==
  \A i \in Instances : \A k \in runtime[i].tiers : \A j \in 1 .. k : j \in runtime[i].tiers
=============================================================================
