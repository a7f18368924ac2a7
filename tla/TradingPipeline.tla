--------------------------- MODULE TradingPipeline ---------------------------
(***************************************************************************)
(* The trading path end to end: the ticks of the instances (TickManager),  *)
(* the hub's registry of connections (internal/saas/ws/hub.go), the agent  *)
(* with the exchange account (LocalAgent) and the delta reports that come  *)
(* back (DeltaReport), over the one database (SaasStore).                  *)
(*                                                                         *)
(* Each component acts on its own; they meet in the database, in           *)
(* SendToAgent, on the connections, and when a connection begins or ends.  *)
(* A connection begins accepted by the hub and believed by the agent: the  *)
(* handshake that comes before is in module Hub.                           *)
(***************************************************************************)
EXTENDS SaasStore, FiniteSetsExt

CONSTANTS
  Faults, MaxSteps,                               (* of TickManager        *)
  ReportFaults,                                   (* of DeltaReport        *)
  Sessions, BuySize, InitWallet, AgentFaults,     (* of LocalAgent         *)
  Units       (* bound on an amount, for the refinement of TickManager     *)

\* At the start no row has processed a candle that is not complete.
ASSUME PipelineAssumption ==
  /\ IsFiniteSet(Instances) /\ MaxBar > 0 /\ MaxSteps \in Nat /\ MaxRelease \in Nat
  /\ InitRow.last <= 1
  /\ Sessions \subseteq Nat \ {0} /\ BuySize \in Nat
  /\ InitWallet \in [usdt : Nat, btc : Nat]

VARIABLES
  clock, ticks, stepped,                              (* of TickManager    *)
  txs,                                                (* of DeltaReport    *)
  session, link, down, up, jobs, orders, wallet,      (* of LocalAgent     *)
  registered, (* the connection in Hub.conns, 0 when there is none         *)
  sent        (* history: the commands SendToAgent returned true for       *)

M == INSTANCE TickManager WITH
       ReportRows <- [row : {TRUE}, usdt : Units, dead : Units, float : Units, last : Bar],
       ReportUsdt <- Units, ReportQty <- Units
D == INSTANCE DeltaReport WITH Handlers <- Sessions, Commands <- {}, Usdt <- {}
A == INSTANCE LocalAgent

tickVars     == <<clock, ticks, stepped>>
exchangeVars == <<orders, wallet>>
agentVars    == <<session, link, down, up, jobs, exchangeVars>>
hubVars      == <<registered, sent>>

vars == <<storeVars, tickVars, txs, agentVars, hubVars>>

TypeOK ==
  /\ M!TypeOK
  /\ D!ReportTypeOK
  /\ registered \in {0} \cup Sessions
  /\ link \in [Sessions -> A!Links]

Init ==
  /\ M!Init
  /\ D!ReportInit
  /\ A!AgentInit
  /\ registered = 0
  /\ sent = {}

-----------------------------------------------------------------------------
\* SendToAgent on the connection the registry holds.  A write may fail, at the
\* latest after the deadline of 10 s, and evicts it; one to a connection that is
\* broken may also go nowhere without an error.
SendToAgent(cmd) ==
  \/ /\ registered = 0
     /\ UNCHANGED <<down, hubVars>>
  \/ /\ registered # 0
     /\ sent' = sent \cup {cmd}
     /\ down' = IF link[registered] # "open" THEN down
                ELSE [down EXCEPT ![registered] = Append(@, cmd)]
     /\ UNCHANGED registered
  \/ /\ registered # 0
     /\ registered' = 0
     /\ UNCHANGED <<down, sent>>

TickSends(t) ==
  /\ M!Send(t)
  /\ SendToAgent(M!CommandOf(t))
  /\ UNCHANGED <<txs, session, link, up, jobs, exchangeVars>>

\* Every other step of a tick, of the users and of the scheduler.
ManagerStep(Action) ==
  /\ Action
  /\ UNCHANGED <<txs, agentVars, hubVars>>

TickProceeds(t) ==
  \/ t.pc # "send" /\ ManagerStep(M!TickStep(t))
  \/ TickSends(t)

\* A new connection: the hub's handler swaps it in and closes the one before.
Connect(s) ==
  /\ A!Connect(s)
  /\ registered' = s
  /\ UNCHANGED <<sent, storeVars, tickVars, txs>>

AgentStep(Action) ==
  /\ Action
  /\ UNCHANGED <<storeVars, tickVars, txs, hubVars>>

\* The read loop takes the next report, also from a connection that is broken
\* but whose buffer is not empty.
HandlerReads(s) ==
  /\ link[s] \in {"open", "cut"} /\ up[s] # <<>>
  /\ D!Begin(s, Head(up[s]))
  /\ up' = [up EXCEPT ![s] = Tail(@)]
  /\ UNCHANGED <<tickVars, session, link, down, jobs, exchangeVars, hubVars>>

HandlerFinishes(x) ==
  /\ D!Finish(x)
  /\ UNCHANGED <<tickVars, agentVars, hubVars>>

\* The handler of a broken connection returns; its deferred Delete removes
\* whichever connection the user has by then, and unread reports are lost.
HandlerExits(s) ==
  /\ link[s] = "cut" /\ D!Idle(s)
  /\ link' = [link EXCEPT ![s] = "closed"]
  /\ up' = [up EXCEPT ![s] = <<>>]
  /\ registered' = 0
  /\ UNCHANGED <<sent, storeVars, tickVars, txs, session, down, jobs, exchangeVars>>

\* The SaaS process dies, or is shut down: ticks, transactions in flight and
\* connections are gone.
ServerCrash ==
  /\ M!Crash
  /\ txs' = {}
  /\ link' = [s \in Sessions |-> IF link[s] = "unused" THEN "unused" ELSE "closed"]
  /\ up' = [s \in Sessions |-> <<>>]
  /\ registered' = 0
  /\ UNCHANGED <<sent, session, down, jobs, exchangeVars>>

Next ==
  \/ \E i \in Instances : ManagerStep(M!User(i))
  \/ ManagerStep(M!Scan)
  \/ ManagerStep(M!NewBar)
  \/ \E t \in ticks : TickProceeds(t) \/ ManagerStep(M!TickFault(t))
  \/ \E s \in Sessions : Connect(s) \/ HandlerReads(s) \/ HandlerExits(s)
  \/ AgentStep(A!Receive)
  \/ AgentStep(A!EndSession)
  \/ \E j \in jobs : AgentStep(A!JobStep(j))
  \/ \E o \in orders : AgentStep(A!Fill(o))
  \/ \E x \in txs : HandlerFinishes(x)
  \/ ServerCrash

Spec == Init /\ [][Next]_vars

\* The scheduler and the goroutines are not starved, the agent reconnects, the
\* network delivers and the market fills what it can.
Fairness ==
  /\ WF_vars(ManagerStep(M!Scan))
  /\ \A i \in Instances : WF_vars(\E t \in ticks : t.inst = i /\ TickProceeds(t))
  /\ \A s \in Sessions : /\ WF_vars(Connect(s))
                         /\ WF_vars(HandlerReads(s))
                         /\ WF_vars(HandlerExits(s))
                         /\ WF_vars(\E x \in txs : x.h = s /\ HandlerFinishes(x))
  /\ WF_vars(AgentStep(A!Receive))
  /\ WF_vars(AgentStep(A!EndSession) /\ link[session] # "open")
  /\ WF_vars(\E j \in jobs : AgentStep(A!JobStep(j)))
  /\ WF_vars(\E o \in orders : AgentStep(A!Fill(o)))

LiveSpec == Spec /\ Fairness

-----------------------------------------------------------------------------
\* The BTC the ledger has for all the instances, and what the account holds.
LedgerBtc == MapThenSumSet(LAMBDA i : portfolio[i].dead + portfolio[i].float, Instances)

Opening   == Cardinality(Instances) * (InitRow.dead + InitRow.float)
BtcBought == MapThenSumSet(LAMBDA o : o.filled, {o \in orders : o.cmd.order.action = "BUY"})

\* Every order at the exchange has its execution row, crashes included: the
\* row is written before the command is sent (manager.go:430 before :435).
OrderRecorded == \A o \in orders : o.cmd \in Executions

\* A trade settles what the exchange filled of its order or less, however
\* reports are lost, repeated or cut short (portfolio.go:108-120).
TradeWithinFill ==
  \A x \in trades : \E o \in orders : o.cmd = x.cmd /\ x.qty <= o.filled

\* The ledger never has BTC that was not bought: stale saves of whole rows lose
\* fills but do not double them (portfolio.go:103, manager.go:393).
LedgerWithinPurchases == LedgerBtc <= Opening + BtcBought

\* Each component still behaves as its own specification says: the ticks see
\* the rest of the system only as reports that commit.
ImplementsManager == M!Spec

\* With one connection and no release the lots are the sum of the trades: no
\* fill is counted twice or lost between the tick's and the reports' updates of
\* the row, and no sale takes the float stack below zero (portfolio.go:81-105).
LedgerFollowsTrades == D!LedgerFollowsTrades

\* A bar already processed is skipped, so that live trading does not decide
\* more often than the backtest (系統架構設計.md:178).
BarDecidedOnce == M!BarOnce

\* A bar comes back for a fill report only, and once for each.
BarRepeatedByReport == M!RepeatedByReports

\* A command the agent was sent is settled, as long as connections hold and
\* orders go through: none is dropped between the goroutines of the agent, the
\* exchange and the report handler (client.go:169-232, portfolio.go:35-146).
SentSettles == sent \cap pending # {} ~> sent \cap pending = {}
=============================================================================
