------------------------------ MODULE SaasStore ------------------------------
(***************************************************************************)
(* The tables of the SaaS database that the trading path reads and writes  *)
(* (internal/saas/store/models.go): the status of each strategy instance,  *)
(* its portfolio and runtime rows, the spot executions and the trades.     *)
(*                                                                         *)
(* The amounts are small naturals: usdt counts orders' worth of spendable  *)
(* USDT above the reserve floor, dead and float count units of BTC.  A     *)
(* portfolio row keeps the bar it was last processed at; 0 is the zero     *)
(* time of a row that was never processed.  Every table is indexed by the  *)
(* instance, and all the instances belong to one user.                     *)
(***************************************************************************)
EXTENDS Decisions, Sequences, FiniteSets

CONSTANTS
  Instances,  (* the strategy instances of the user                        *)
  MaxBar,     (* the number of candles the exchange completes              *)
  MonthOf,    (* the month of each candle, the forming one included        *)
  InitRow     (* the portfolio row of every instance at the start          *)

Bar    == 0 .. MaxBar
Status == {"STOPPED", "RUNNING", "ERROR", "DELETED"}

PortfolioRow == [row : BOOLEAN, usdt : Nat, dead : Nat, float : Nat, last : Bar]
EmptyRow     == [row |-> FALSE, usdt |-> 0, dead |-> 0, float |-> 0, last |-> 0]

\* A TradeCommand: client_order_id is the instance and the time of its tick.
Command == [inst : Instances, at : Nat, order : Order]
Trade   == [cmd : Command, qty : Nat]

\* Months do not run backwards.
ASSUME MonthAssumption ==
  /\ MaxBar \in Nat
  /\ MonthOf \in [1 .. MaxBar + 1 -> Nat]
  /\ \A a, b \in 1 .. MaxBar + 1 : a <= b => MonthOf[a] <= MonthOf[b]
  /\ InitRow \in PortfolioRow

VARIABLES
  status,     (* StrategyInstance.Status                                   *)
  portfolio,  (* the PortfolioState row of each instance                   *)
  runtime,    (* the RuntimeState row of each instance                     *)
  pending,    (* the commands of the SpotExecution rows "pending"          *)
  filled,     (* the commands of the SpotExecution rows "filled"           *)
  trades      (* the TradeRecord rows                                      *)

storeVars == <<status, portfolio, runtime, pending, filled, trades>>

StoreTypeOK ==
  /\ status \in [Instances -> Status]
  /\ portfolio \in [Instances -> PortfolioRow]
  /\ runtime \in [Instances -> RuntimeRow]
  /\ pending \subseteq Command
  /\ filled \subseteq Command
  /\ trades \subseteq Trade

StoreInit ==
  /\ status = [i \in Instances |-> "STOPPED"]
  /\ portfolio = [i \in Instances |-> InitRow]
  /\ runtime = [i \in Instances |-> NewRuntime]
  /\ pending = {}
  /\ filled = {}
  /\ trades = {}

\* Every SpotExecution ever created.
Executions == pending \cup filled

-----------------------------------------------------------------------------
\* updateBalances: bal is the set of USDT balances the report carries, empty
\* or a singleton; the row of every instance not deleted takes it.
WithBalances(rows, bal) ==
  [i \in Instances |->
    IF rows[i].row /\ status[i] # "DELETED" /\ bal # {}
      THEN [rows[i] EXCEPT !.usdt = CHOOSE u \in bal : TRUE]
      ELSE rows[i]]

\* Mutant: without maxZero.
MinusBelowZero(have, qty) == have - qty

\* maxZero(have - qty).
MinusDownToZero(have, qty) == IF qty > have THEN 0 ELSE have - qty

\* Mutant: a BUY settles into the float stack.
SettledInFloat(row, order, qty) ==
  IF order.action = "BUY"
    THEN [row EXCEPT !.float = @ + qty]
    ELSE [row EXCEPT !.float = MinusDownToZero(@, qty)]

\* The LotType switch of processDeltaReport, on the two lots Step trades in.
Settled(row, order, qty) ==
  IF order.action = "BUY"
    THEN [row EXCEPT !.dead = @ + qty]
    ELSE [row EXCEPT !.float = MinusDownToZero(@, qty)]

-----------------------------------------------------------------------------
\* An execution is filled exactly when it has its trade, and has one only: the
\* status and the trade are written together (portfolio.go:67, :118).  The
\* pipeline's agent reports a command once; the environment of DeltaReport
\* repeats reports, over any connection, with a fill of zero.
FilledIffTraded ==
  /\ filled = {x.cmd : x \in trades}
  /\ \A x, y \in trades : x.cmd = y.cmd => x = y
  /\ pending \cap filled = {}
=============================================================================
