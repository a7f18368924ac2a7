------------------------ MODULE TradingPipelineProofs ------------------------
(***************************************************************************)
(* Theorems about TradingPipeline, for any instances, connections, faults  *)
(* and sizes.  Every step of the whole system is a step of TickManager or  *)
(* leaves its variables alone; so what is proved of TickManager holds of   *)
(* the whole.  Then facts about the exchange and the ledger: each order    *)
(* has an execution row, each trade is covered by the fill of its order,   *)
(* and the BTC in the ledger was bought and, but for stale saves, is kept. *)
(***************************************************************************)
EXTENDS TradingPipeline, FoldsAndExtrema, TLAPS

\* TickManager with its theorems, and no bound on the amounts of a report.
P == INSTANCE TickManagerProofs WITH
       ReportRows <- [row : {TRUE}, usdt : Nat, dead : Nat, float : Nat, last : Bar],
       ReportUsdt <- Nat, ReportQty <- Nat

LEMMA MonthsHold == P!MonthAssumption
  BY MonthAssumption DEF P!MonthAssumption, PortfolioRow, P!PortfolioRow, Bar, P!Bar

LEMMA TicksHold == P!TickAssumption
  BY MonthAssumption, PipelineAssumption DEF P!TickAssumption, P!PortfolioRow, Bar, P!Bar

-----------------------------------------------------------------------------
(* The theorems and lemmas of TickManagerProofs used here. *)

LEMMA ManagerFacts ==
  /\ P!Init => P!TypeOK
  /\ P!SettleInv /\ [P!Next]_(P!vars) => P!SettleInv'
  /\ P!TypeOK /\ P!LastNotAhead /\ [P!Next]_(P!vars) => P!LastNotAhead'
  /\ [P!Next]_(P!vars) => P!Executions \subseteq P!Executions'
  /\ P!Init => P!RealInv
  /\ P!TypeOK /\ P!RealInv /\ [P!Next]_(P!vars) => P!RealInv'
  /\ P!TypeOK /\ [P!Next]_(P!vars) => P!OrdersRead /\ P!ExecutionsRead
  <1>1. P!Init => P!TypeOK
    BY MonthsHold, TicksHold, P!TypeInit
  <1>2. P!SettleInv /\ [P!Next]_(P!vars) => P!SettleInv'
    BY MonthsHold, TicksHold, P!SettleStep
  <1>3. P!TypeOK /\ P!LastNotAhead /\ [P!Next]_(P!vars) => P!LastNotAhead'
    BY MonthsHold, TicksHold, P!LastStep
  <1>4. [P!Next]_(P!vars) => P!Executions \subseteq P!Executions'
    BY MonthsHold, TicksHold, P!ExecutionsGrow
  <1>5. P!Init => P!RealInv
    BY MonthsHold, TicksHold, P!RealInit
  <1>6. P!TypeOK /\ P!RealInv /\ [P!Next]_(P!vars) => P!RealInv'
    BY MonthsHold, TicksHold, P!RealStep
  <1>7. P!TypeOK /\ [P!Next]_(P!vars) => P!OrdersRead /\ P!ExecutionsRead
    BY MonthsHold, TicksHold, P!OrdersMove
  <1>8. QED
    BY <1>1, <1>2, <1>3, <1>4, <1>5, <1>6, <1>7

LEMMA ManagerRepeats ==
  ASSUME Faults \cap {"db", "crash"} = {}
  PROVE  P!Spec => []P!RepeatedByReports
  <1>1. P!NoLostWrites
    BY DEF P!NoLostWrites
  <1>2. P!MonthAssumption /\ P!TickAssumption /\ P!NoLostWrites
          => (P!Spec => []P!RepeatedByReports)
    BY P!RepeatsAreReported
  <1>3. QED
    BY <1>1, <1>2, MonthsHold, TicksHold

LEMMA ManagerTierOnce == P!Spec => []P!TierOncePerMonth
  <1>1. P!MonthAssumption /\ P!TickAssumption => (P!Spec => []P!TierOncePerMonth)
    BY P!OncePerMonth
  <1>2. QED
    BY <1>1, MonthsHold, TicksHold

-----------------------------------------------------------------------------
(* M and P are two instances of one module, and agree. *)

LEMMA SameRows ==
  /\ M!NoOrder = P!NoOrder /\ M!EmptyRow = P!EmptyRow /\ M!NewRuntime = P!NewRuntime
  BY DEF M!NoOrder, P!NoOrder, M!EmptyRow, P!EmptyRow, M!NewRuntime, P!NewRuntime

LEMMA SameStep == \A pf, rt, m : M!Step(pf, rt, m) = P!Step(pf, rt, m)
  BY SameRows DEF M!Step, P!Step, M!MicroDecisions, P!MicroDecisions, M!MacroDecisions,
       P!MacroDecisions, M!Released, P!Released, M!Decision, P!Decision, M!InMonth, P!InMonth,
       M!Tiers, P!Tiers, M!Buy, P!Buy, M!Sell, P!Sell

LEMMA SameGoing ==
  /\ \A t : M!WithOrder(t) = P!WithOrder(t) /\ M!CommandOf(t) = P!CommandOf(t)
  /\ \A t, d : M!Decided(t, d) = P!Decided(t, d)
  /\ \A t : M!WithReleased(t) = P!WithReleased(t)
  <1>1. \A t : M!WithOrder(t) = P!WithOrder(t) /\ M!CommandOf(t) = P!CommandOf(t)
    BY SameRows DEF M!WithOrder, P!WithOrder, M!CommandOf, P!CommandOf
  <1>2. \A t, d : M!Decided(t, d) = P!Decided(t, d)
    BY <1>1, SameRows DEF M!Decided, P!Decided
  <1>3. \A t : M!WithReleased(t) = P!WithReleased(t)
    BY DEF M!WithReleased, P!WithReleased
  <1>4. QED
    BY <1>1, <1>2, <1>3

LEMMA SameTickStep ==
  ASSUME NEW t
  PROVE  M!TickStep(t) <=> P!TickStep(t)
  <1>1. M!Fetch(t) <=> P!Fetch(t)
    BY DEF M!Fetch, P!Fetch, M!Goto, P!Goto, M!Return, P!Return, M!storeVars, P!storeVars
  <1>2. M!Load(t) <=> P!Load(t)
    BY DEF M!Load, P!Load, M!Goto, P!Goto, M!Return, P!Return
  <1>3. M!Decide(t) <=> P!Decide(t)
    BY SameStep, SameGoing DEF M!Decide, P!Decide, M!Goto, P!Goto, M!Calls, P!Calls
  <1>4. M!ReadRelease(t) <=> P!ReadRelease(t)
    BY DEF M!ReadRelease, P!ReadRelease, M!Goto, P!Goto, M!storeVars, P!storeVars
  <1>5. M!SaveRelease(t) <=> P!SaveRelease(t)
    BY SameGoing DEF M!SaveRelease, P!SaveRelease, M!Goto, P!Goto
  <1>6. M!Dispatch(t) <=> P!Dispatch(t)
    BY SameGoing DEF M!Dispatch, P!Dispatch, M!Goto, P!Goto
  <1>7. M!Send(t) <=> P!Send(t)
    BY SameRows DEF M!Send, P!Send, M!Goto, P!Goto, M!storeVars, P!storeVars
  <1>8. M!Advance(t) <=> P!Advance(t)
    BY DEF M!Advance, P!Advance, M!Return, P!Return
  <1>9. QED
    BY <1>1, <1>2, <1>3, <1>4, <1>5, <1>6, <1>7, <1>8 DEF M!TickStep, P!TickStep

LEMMA SameTickFault ==
  ASSUME NEW t
  PROVE  M!TickFault(t) <=> P!TickFault(t)
  <1>1. M!Fail(t) <=> P!Fail(t)
    BY DEF M!Fail, P!Fail, M!Return, P!Return, M!Marked, P!Marked
  <1>2. M!LoadFails(t) <=> P!LoadFails(t)
    BY <1>1 DEF M!LoadFails, P!LoadFails
  <1>3. M!DecideFails(t) <=> P!DecideFails(t)
    BY <1>1, SameStep DEF M!DecideFails, P!DecideFails, M!Calls, P!Calls
  <1>4. M!ReleaseFails(t) <=> P!ReleaseFails(t)
    BY SameGoing DEF M!ReleaseFails, P!ReleaseFails, M!Goto, P!Goto, M!storeVars, P!storeVars
  <1>5. M!DispatchFails(t) <=> P!DispatchFails(t)
    BY SameGoing, SameRows DEF M!DispatchFails, P!DispatchFails, M!Goto, P!Goto
  <1>6. M!AdvanceFails(t) <=> P!AdvanceFails(t)
    BY <1>1 DEF M!AdvanceFails, P!AdvanceFails
  <1>7. QED
    BY <1>2, <1>3, <1>4, <1>5, <1>6 DEF M!TickFault, P!TickFault

LEMMA SameManager ==
  /\ M!Init <=> P!Init
  /\ \A i \in Instances : M!User(i) <=> P!User(i)
  /\ M!Scan <=> P!Scan
  /\ M!NewBar <=> P!NewBar
  /\ M!Crash <=> P!Crash
  <1>1. M!Init <=> P!Init
    BY SameRows DEF M!Init, P!Init, M!StoreInit, P!StoreInit
  <1>2. \A i \in Instances : M!User(i) <=> P!User(i)
    BY DEF M!User, P!User, M!Start, P!Start, M!Stop, P!Stop, M!Delete, P!Delete,
           M!tickVars, P!tickVars
  <1>3. M!Scan <=> P!Scan
    BY SameRows DEF M!Scan, P!Scan, M!NewTick, P!NewTick, M!storeVars, P!storeVars
  <1>4. (M!NewBar <=> P!NewBar) /\ (M!Crash <=> P!Crash)
    BY DEF M!NewBar, P!NewBar, M!Crash, P!Crash, M!storeVars, P!storeVars
  <1>5. QED
    BY <1>1, <1>2, <1>3, <1>4

-----------------------------------------------------------------------------
(* The inductive invariant of the connections, the agent, the exchange and the *)
(* report transactions: a command is only ever that of an execution row, and a *)
(* report never says more than the exchange has filled of its order.           *)

AtMostOne(S) == \A a, b \in S : a = b

\* The exchange has filled qty or more of the order of each command of exec.
Backed(exec, qty) == \A c \in exec : \E o \in orders : o.cmd = c /\ qty <= o.filled

SoundReport(r) ==
  /\ r \in D!Report
  /\ AtMostOne(r.exec) /\ AtMostOne(r.bal)
  /\ Backed(r.exec, r.qty)

SoundReports == {r \in D!Report : SoundReport(r)}

SoundJob(j) ==
  /\ j \in [pc : {"place", "poll", "balance", "send"}, cmds : SUBSET Command,
            exec : SUBSET Command, qty : Nat, bal : SUBSET Nat]
  /\ j.cmds \subseteq Executions
  /\ AtMostOne(j.cmds) /\ AtMostOne(j.exec) /\ AtMostOne(j.bal)
  /\ j.pc \in {"place", "poll"} => j.qty = 0
  /\ j.pc = "poll" => Backed(j.cmds, 0)
  /\ Backed(j.exec, j.qty)

SoundTx(x) ==
  /\ x \in D!Tx
  /\ SoundReport(x.report)
  /\ x.found \subseteq x.report.exec
  /\ x.pf.last <= clock

ConnInv ==
  /\ session \in {0} \cup Sessions
  /\ registered \in {0} \cup Sessions
  /\ link \in [Sessions -> {"unused", "open", "cut", "closed"}]
  /\ sent \subseteq Executions
  /\ down \in [Sessions -> Seq(Command)]
  /\ \A s \in Sessions : \A n \in 1 .. Len(down[s]) : down[s][n] \in Executions

UpInv ==
  /\ up \in [Sessions -> Seq(D!Report)]
  /\ \A s \in Sessions : \A n \in 1 .. Len(up[s]) : up[s][n] \in SoundReports

ExchangeInv ==
  /\ orders \subseteq [cmd : Command, filled : Nat]
  /\ OrderRecorded
  /\ wallet \in [usdt : Nat, btc : Nat]

PipelineInv ==
  /\ P!SettleInv /\ P!LastNotAhead
  /\ ConnInv /\ UpInv /\ ExchangeInv
  /\ \A j \in jobs : SoundJob(j)
  /\ \A x \in txs : SoundTx(x)
  /\ TradeWithinFill

LEMMA StoreFacts ==
  ASSUME PipelineInv
  PROVE  /\ P!TypeOK /\ P!Executions = Executions
         /\ portfolio \in [Instances -> PortfolioRow]
         /\ Executions \subseteq Command /\ pending \subseteq Command
         /\ trades \subseteq Trade /\ clock \in Nat /\ 0 <= clock
         /\ \A i \in Instances : portfolio[i].last <= clock
         /\ \A t \in ticks : t.pc = "send" => P!CommandOf(t) \in Executions
  <1>1. /\ P!TypeOK /\ P!CommandInv
        /\ \A i \in Instances : portfolio[i].last <= clock
    BY DEF PipelineInv, P!SettleInv, P!LastNotAhead, P!NoneAhead
  <1>2. P!Executions = Executions
    BY DEF P!Executions, Executions
  <1>3. P!PortfolioRow = PortfolioRow /\ P!Order = Order
    BY DEF P!PortfolioRow, PortfolioRow, P!Bar, Bar, P!Order, Order
  <1>4. P!Command = Command
    BY <1>3 DEF P!Command, Command
  <1>5. P!Trade = Trade
    BY <1>4 DEF P!Trade, Trade
  <1>6. /\ portfolio \in [Instances -> PortfolioRow]
        /\ pending \subseteq Command /\ filled \subseteq Command
        /\ trades \subseteq Trade /\ clock \in 1 .. MaxBar
    BY <1>1, <1>3, <1>4, <1>5 DEF P!TypeOK, P!StoreTypeOK
  <1>7. clock \in Nat /\ 0 <= clock
    BY <1>6, MonthAssumption
  <1>8. Executions \subseteq Command
    BY <1>6 DEF Executions
  <1>9. \A t \in ticks : t.pc = "send" => P!CommandOf(t) \in Executions
    BY <1>1, <1>2 DEF P!CommandInv, P!SoundCommand
  <1>10. QED
    BY <1>1, <1>2, <1>6, <1>7, <1>8, <1>9

-----------------------------------------------------------------------------
(* Every step of the system is one of TickManager, or none. *)

LEMMA SettledRow ==
  ASSUME NEW row \in PortfolioRow, row.row, NEW order, NEW qty \in Nat
  PROVE  /\ D!Settled(row, order, qty) \in [row : {TRUE}, usdt : Nat, dead : Nat, float : Nat, last : Bar]
         /\ D!Settled(row, order, qty).last = row.last
  <1>1. row.float - qty \in Nat \/ qty > row.float
    BY DEF PortfolioRow
  <1>2. D!MinusDownToZero(row.float, qty) \in Nat
    BY <1>1 DEF D!MinusDownToZero, PortfolioRow
  <1>3. row \in [row : {TRUE}, usdt : Nat, dead : Nat, float : Nat, last : Bar]
    <2>1. row.row = TRUE
      BY DEF PortfolioRow
    <2>2. QED
      BY <2>1 DEF PortfolioRow
  <1>4. D!Settled(row, order, qty) = [row EXCEPT !.dead = @ + qty]
          \/ D!Settled(row, order, qty) = [row EXCEPT !.float = D!MinusDownToZero(@, qty)]
    BY DEF D!Settled
  <1>5. row.dead + qty \in Nat
    BY <1>3
  <1>6. QED
    BY <1>2, <1>3, <1>4, <1>5

\* A commit of the report handler is a ReportCommits: the row it saves was read
\* before, and adds a fill that is not negative.
LEMMA FinishCommits ==
  ASSUME PipelineInv, NEW x \in txs, HandlerFinishes(x)
  PROVE  P!ReportCommits \/ UNCHANGED P!vars
  <1>1. /\ SoundTx(x) /\ x.report \in D!Report /\ x.report.qty \in Nat /\ x.pf \in PortfolioRow
        /\ x.pf.last <= clock
    BY DEF PipelineInv, SoundTx, SoundReport, D!Report, D!Tx, D!PortfolioRow, PortfolioRow,
           D!Bar, Bar
  <1>2. x.report.bal \in {{}} \cup {{u} : u \in Nat}
    BY <1>1 DEF SoundTx, SoundReport, AtMostOne, D!Report
  <1>3. \A rows : D!WithBalances(rows, x.report.bal) = P!WithBalances(rows, x.report.bal)
    BY DEF D!WithBalances, P!WithBalances
  <1>4. UNCHANGED tickVars
    BY DEF HandlerFinishes
  <1>5. CASE D!CommitBalances(x)
    BY <1>2, <1>3, <1>4, <1>5 DEF D!CommitBalances, D!Ends, P!ReportCommits, tickVars, P!tickVars
  <1>6. CASE D!CommitFill(x)
    <2>1. PICK c \in x.found :
            /\ c \in pending /\ x.pf.row
            /\ portfolio' = D!WithBalances(
                 [portfolio EXCEPT ![c.inst] = D!Settled(x.pf, c.order, x.report.qty)], x.report.bal)
            /\ pending' = pending \ {c}
            /\ filled' = filled \cup {c}
            /\ trades' = trades \cup {[cmd |-> c, qty |-> x.report.qty]}
      BY <1>6 DEF D!CommitFill
    <2> DEFINE row == D!Settled(x.pf, c.order, x.report.qty)
    <2>2. /\ row \in [row : {TRUE}, usdt : Nat, dead : Nat, float : Nat, last : P!Bar]
          /\ row.row /\ row.last <= clock
      <3>1. x.pf \in PortfolioRow /\ x.pf.row /\ x.report.qty \in Nat /\ x.pf.last <= clock
        BY <1>1, <2>1
      <3>2. P!Bar = Bar
        BY DEF P!Bar, Bar
      <3>3. /\ row \in [row : {TRUE}, usdt : Nat, dead : Nat, float : Nat, last : Bar]
            /\ row.last = x.pf.last
        BY <3>1, SettledRow
      <3> HIDE DEF row
      <3>4. QED
        BY <3>1, <3>2, <3>3
    <2>3. UNCHANGED <<status, runtime, P!tickVars>>
      BY <1>4, <1>6 DEF D!CommitFill, D!Ends, tickVars, P!tickVars
    <2>4. portfolio' = P!WithBalances([portfolio EXCEPT ![c.inst] = row], x.report.bal)
      BY <1>3, <2>1
    <2> HIDE DEF row
    <2>5. QED
      BY <1>1, <1>2, <2>1, <2>2, <2>3, <2>4 DEF P!ReportCommits, P!Bar, Bar
  <1>7. CASE D!Abort(x)
    BY <1>4, <1>7 DEF D!Abort, D!Ends, P!vars, P!storeVars, P!tickVars, tickVars
  <1>8. QED
    BY <1>5, <1>6, <1>7 DEF HandlerFinishes, D!Finish

LEMMA Simulates ==
  ASSUME PipelineInv, [Next]_vars
  PROVE  [P!Next]_(P!vars)
  <1>1. ASSUME NEW i \in Instances, ManagerStep(M!User(i))
        PROVE  P!Next
    BY <1>1, SameManager DEF ManagerStep, P!Next
  <1>2. CASE ManagerStep(M!Scan) \/ ManagerStep(M!NewBar) \/ ServerCrash
    BY <1>2, SameManager DEF ManagerStep, ServerCrash, P!Next
  <1>3. ASSUME NEW t \in ticks, TickProceeds(t) \/ ManagerStep(M!TickFault(t))
        PROVE  P!Next
    <2>1. M!TickStep(t) \/ M!TickFault(t)
      BY <1>3 DEF TickProceeds, ManagerStep, TickSends, M!TickStep
    <2>2. QED
      BY <2>1, SameTickStep, SameTickFault DEF P!Next
  <1>4. ASSUME NEW x \in txs, HandlerFinishes(x)
        PROVE  [P!Next]_(P!vars)
    BY <1>4, FinishCommits DEF P!Next
  <1>5. ASSUME UNCHANGED <<storeVars, tickVars>>
        PROVE  UNCHANGED P!vars
    BY <1>5 DEF storeVars, tickVars, P!vars, P!storeVars, P!tickVars
  <1>6. ASSUME NEW s \in Sessions, Connect(s) \/ HandlerReads(s) \/ HandlerExits(s)
        PROVE  UNCHANGED P!vars
    BY <1>5, <1>6 DEF Connect, HandlerReads, HandlerExits, D!Begin, D!storeVars, storeVars
  <1>8. CASE \/ AgentStep(A!Receive) \/ AgentStep(A!EndSession)
             \/ \E j \in jobs : AgentStep(A!JobStep(j))
             \/ \E o \in orders : AgentStep(A!Fill(o))
    BY <1>5, <1>8 DEF AgentStep
  <1>9. CASE UNCHANGED vars
    BY <1>5, <1>9 DEF vars
  <1>10. QED
    BY <1>1, <1>2, <1>3, <1>4, <1>6, <1>8, <1>9 DEF Next

\* The steps, by what they change of the connections, the agent, the exchange
\* and the transactions.
Outside == <<storeVars, tickVars, txs, hubVars>>

LEMMA Actors ==
  ASSUME [Next]_vars
  PROVE  \/ UNCHANGED <<txs, agentVars, hubVars>>
         \/ \E t \in ticks : TickSends(t)
         \/ \E s \in Sessions : Connect(s) \/ HandlerReads(s) \/ HandlerExits(s)
         \/ A!Receive /\ UNCHANGED Outside
         \/ A!EndSession /\ UNCHANGED Outside
         \/ \E j \in jobs : A!JobStep(j) /\ UNCHANGED Outside
         \/ \E o \in orders : A!Fill(o) /\ UNCHANGED Outside
         \/ \E x \in txs : HandlerFinishes(x)
         \/ ServerCrash
  <1>1. ASSUME NEW t \in ticks, TickProceeds(t) \/ ManagerStep(M!TickFault(t))
        PROVE  TickSends(t) \/ UNCHANGED <<txs, agentVars, hubVars>>
    BY <1>1 DEF TickProceeds, ManagerStep
  <1>2. CASE \/ \E i \in Instances : ManagerStep(M!User(i))
             \/ ManagerStep(M!Scan) \/ ManagerStep(M!NewBar)
    BY <1>2 DEF ManagerStep
  <1>3. CASE AgentStep(A!Receive) \/ AgentStep(A!EndSession)
    BY <1>3 DEF AgentStep, Outside
  <1>4. CASE \E j \in jobs : AgentStep(A!JobStep(j))
    BY <1>4 DEF AgentStep, Outside
  <1>5. CASE \E o \in orders : AgentStep(A!Fill(o))
    BY <1>5 DEF AgentStep, Outside
  <1>6. CASE UNCHANGED vars
    BY <1>6 DEF vars
  <1>7. QED
    BY <1>1, <1>2, <1>3, <1>4, <1>5, <1>6 DEF Next

-----------------------------------------------------------------------------
(* What a step leaves sound: executions are never deleted and no order at the  *)
(* exchange loses a fill.                                                      *)

OrdersGrow == \A o \in orders : \E p \in orders' : p.cmd = o.cmd /\ o.filled <= p.filled

LEMMA OrdersStep ==
  ASSUME PipelineInv, [Next]_vars
  PROVE  /\ ExchangeInv' /\ OrdersGrow
         /\ Executions \subseteq Executions'
         /\ clock <= clock' /\ clock' \in Nat
  <1>1. /\ orders \subseteq [cmd : Command, filled : Nat]
        /\ \A o \in orders : o.cmd \in Executions /\ o.filled \in Nat /\ o.filled <= o.filled
        /\ wallet \in [usdt : Nat, btc : Nat]
        /\ Executions \subseteq Command
    BY StoreFacts DEF PipelineInv, ExchangeInv, OrderRecorded
  <1>2. Executions \subseteq Executions'
    <2>1. P!Executions \subseteq P!Executions'
      BY Simulates, ManagerFacts
    <2>2. QED
      BY <2>1 DEF P!Executions, Executions
  <1>3. clock <= clock' /\ clock' \in Nat
    <2>1. clock \in Nat /\ P!TypeOK'
      BY StoreFacts, Simulates, ManagerFacts DEF PipelineInv, P!SettleInv
    <2>2. clock' = clock \/ clock' = clock + 1
      BY Simulates DEF P!Next, P!User, P!Start, P!Stop, P!Delete, P!Scan, P!Crash, P!NewBar,
           P!ReportCommits, P!TickStep, P!TickFault, P!Fetch, P!Load, P!Decide, P!ReadRelease,
           P!SaveRelease, P!Dispatch, P!Send, P!Advance, P!LoadFails, P!DecideFails, P!ReleaseFails,
           P!DispatchFails, P!AdvanceFails, P!Fail, P!tickVars, P!vars
    <2>3. QED
      BY <2>1, <2>2
  <1>4. ASSUME UNCHANGED exchangeVars
        PROVE  ExchangeInv' /\ OrdersGrow
    BY <1>1, <1>2, <1>4 DEF exchangeVars, ExchangeInv, OrderRecorded, OrdersGrow
  <1>5. ASSUME NEW j \in jobs, A!Place(j), Executions' = Executions
        PROVE  ExchangeInv' /\ OrdersGrow
    <2>1. PICK c \in j.cmds : A!Accepts(c)
      BY <1>5 DEF A!Place
    <2>2. c \in Executions /\ c \in Command
      BY <1>1 DEF PipelineInv, SoundJob
    <2>3. orders' = orders \cup {[cmd |-> c, filled |-> 0]}
      BY <2>1 DEF A!Accepts
    <2>4. wallet' \in [usdt : Nat, btc : Nat]
      <3>1. CASE c.order.action = "BUY"
        <4>1. wallet.usdt - 1 \in Nat /\ wallet' = [wallet EXCEPT !.usdt = @ - 1]
          BY <1>1, <2>1, <3>1 DEF A!Accepts, A!Affords
        <4>2. QED
          BY <1>1, <4>1
      <3>2. CASE c.order.action # "BUY"
        <4>1. c.order.qty \in Nat
          BY <2>2 DEF Command, Order
        <4>2. /\ wallet.btc - c.order.qty \in Nat
              /\ wallet' = [wallet EXCEPT !.btc = @ - c.order.qty]
          BY <1>1, <2>1, <3>2, <4>1 DEF A!Accepts, A!Affords
        <4>3. QED
          BY <1>1, <4>2
      <3>3. QED
        BY <3>1, <3>2
    <2>5. QED
      BY <1>1, <1>5, <2>2, <2>3, <2>4 DEF ExchangeInv, OrderRecorded, OrdersGrow
  <1>6. ASSUME NEW o \in orders, A!Fill(o), Executions' = Executions
        PROVE  ExchangeInv' /\ OrdersGrow
    <2> DEFINE p == [o EXCEPT !.filled = @ + 1]
    <2>1. /\ p \in [cmd : Command, filled : Nat] /\ p.cmd = o.cmd /\ o.filled <= p.filled
          /\ p.cmd \in Executions
      BY <1>1
    <2>2. orders' = (orders \ {o}) \cup {p}
      BY <1>6 DEF A!Fill
    <2>3. wallet' \in [usdt : Nat, btc : Nat]
      BY <1>1, <1>6 DEF A!Fill
    <2> HIDE DEF p
    <2>4. QED
      BY <1>1, <1>6, <2>1, <2>2, <2>3 DEF ExchangeInv, OrderRecorded, OrdersGrow
  <1>7. ASSUME UNCHANGED Outside PROVE Executions' = Executions
    BY <1>7 DEF Outside, storeVars, Executions
  <1>8. ASSUME NEW j \in jobs, A!JobStep(j), UNCHANGED Outside
        PROVE  ExchangeInv' /\ OrdersGrow
    <2>1. A!Place(j) \/ UNCHANGED exchangeVars
      BY <1>8 DEF A!JobStep, A!PlaceFails, A!PollFilled, A!PollTimeout,
           A!ReadBalances, A!SendReport, A!exchangeVars, exchangeVars
    <2>2. QED
      BY <1>4, <1>5, <1>7, <1>8, <2>1
  <1>9. ASSUME NEW s \in Sessions, Connect(s) \/ HandlerReads(s) \/ HandlerExits(s)
        PROVE  UNCHANGED exchangeVars
    BY <1>9 DEF Connect, HandlerReads, HandlerExits, A!Connect, A!exchangeVars, exchangeVars
  <1>10. A!Receive \/ A!EndSession => UNCHANGED exchangeVars
    BY DEF A!Receive, A!EndSession, A!exchangeVars, exchangeVars
  <1>11. ASSUME \/ UNCHANGED <<txs, agentVars, hubVars>>
                \/ \E t \in ticks : TickSends(t)
                \/ \E x \in txs : HandlerFinishes(x)
                \/ ServerCrash
         PROVE  UNCHANGED exchangeVars
    BY <1>11 DEF agentVars, TickSends, HandlerFinishes, ServerCrash
  <1>12. ExchangeInv' /\ OrdersGrow
    BY <1>4, <1>6, <1>7, <1>8, <1>9, <1>10, <1>11, Actors
  <1>13. QED
    BY <1>2, <1>3, <1>12

\* The step grows the tables, and keeps the orders well typed.
Grows ==
  /\ OrdersGrow /\ Executions \subseteq Executions'
  /\ clock <= clock' /\ clock \in Nat /\ clock' \in Nat
  /\ \A o \in orders : o.filled \in Nat
  /\ \A o \in orders' : o.filled \in Nat

LEMMA BackedGrows ==
  ASSUME Grows, NEW exec, NEW qty \in Nat, Backed(exec, qty)
  PROVE  Backed(exec, qty)'
  <1> SUFFICES ASSUME NEW c \in exec
               PROVE  \E p \in orders' : p.cmd = c /\ qty <= p.filled
    BY DEF Backed
  <1>1. PICK o \in orders : o.cmd = c /\ qty <= o.filled
    BY DEF Backed
  <1>2. PICK p \in orders' : p.cmd = o.cmd /\ o.filled <= p.filled
    BY DEF Grows, OrdersGrow
  <1>3. qty <= p.filled
    BY <1>1, <1>2 DEF Grows
  <1>4. QED
    BY <1>1, <1>2, <1>3

LEMMA StandsSound ==
  ASSUME Grows
  PROVE  /\ \A r : SoundReport(r) => SoundReport(r)'
         /\ \A j : SoundJob(j) => SoundJob(j)'
         /\ \A x : SoundTx(x) => SoundTx(x)'
  <1>1. ASSUME NEW r, SoundReport(r) PROVE SoundReport(r)'
    BY <1>1, BackedGrows DEF SoundReport, D!Report, D!Command, AtMostOne
  <1>2. ASSUME NEW j, SoundJob(j) PROVE SoundJob(j)'
    <2>1. j.qty \in Nat /\ 0 \in Nat
      BY <1>2 DEF SoundJob
    <2>2. Backed(j.exec, j.qty)' /\ (j.pc = "poll" => Backed(j.cmds, 0)')
      BY <1>2, <2>1, BackedGrows DEF SoundJob
    <2>3. j.cmds \subseteq Executions'
      BY <1>2 DEF SoundJob, Grows
    <2>4. QED
      BY <1>2, <2>2, <2>3 DEF SoundJob, AtMostOne
  <1>3. ASSUME NEW x, SoundTx(x) PROVE SoundTx(x)'
    <2>1. x.pf.last \in Nat
      BY <1>3, MonthAssumption DEF SoundTx, D!Tx, D!PortfolioRow, D!Bar
    <2>2. x.pf.last <= clock'
      BY <1>3, <2>1 DEF SoundTx, Grows
    <2>3. QED
      BY <1>1, <1>3, <2>2 DEF SoundTx
  <1>4. QED
    BY <1>1, <1>2, <1>3

-----------------------------------------------------------------------------
(* The queues of a connection. *)

LEMMA TailElements ==
  ASSUME NEW S, NEW q \in Seq(S), q # <<>>
  PROVE  /\ Head(q) \in S /\ 1 \in 1 .. Len(q) /\ Head(q) = q[1]
         /\ Tail(q) \in Seq(S)
         /\ \A n \in 1 .. Len(Tail(q)) : n + 1 \in 1 .. Len(q) /\ Tail(q)[n] = q[n + 1]
  OBVIOUS

LEMMA AppendElements ==
  ASSUME NEW S, NEW q \in Seq(S), NEW e \in S
  PROVE  /\ Append(q, e) \in Seq(S)
         /\ \A n \in 1 .. Len(Append(q, e)) :
              Append(q, e)[n] = e \/ (n \in 1 .. Len(q) /\ Append(q, e)[n] = q[n])
  OBVIOUS

-----------------------------------------------------------------------------
(* The connections and the registry. *)

LEMMA ConnStep ==
  ASSUME PipelineInv, [Next]_vars
  PROVE  ConnInv'
  <1>1. /\ ConnInv /\ Executions \subseteq Executions'
        /\ \A t \in ticks : t.pc = "send" => M!CommandOf(t) \in Executions
        /\ Executions \subseteq Command
    BY StoreFacts, OrdersStep, SameGoing DEF PipelineInv
  <1> DEFINE Good(q) == q \in Seq(Command) /\ \A n \in 1 .. Len(q) : q[n] \in Executions'
  <1>2. \A s \in Sessions : Good(down[s])
    BY <1>1 DEF ConnInv
  <1>3. Good(<<>>)
    OBVIOUS
  <1>4. ASSUME session' \in {0} \cup Sessions, registered' \in {0} \cup Sessions,
               link' \in [Sessions -> {"unused", "open", "cut", "closed"}],
               sent' \subseteq Executions',
               down' = down \/ \E q : \E s \in Sessions : Good(q) /\ down' = [down EXCEPT ![s] = q]
        PROVE  ConnInv'
    <2>1. down' \in [Sessions -> Seq(Command)] /\ \A s \in Sessions : Good(down'[s])
      BY <1>1, <1>2, <1>4 DEF ConnInv
    <2>2. QED
      BY <1>4, <2>1 DEF ConnInv
  <1>5. /\ session \in {0} \cup Sessions /\ registered \in {0} \cup Sessions
        /\ link \in [Sessions -> {"unused", "open", "cut", "closed"}]
        /\ sent \subseteq Executions'
    BY <1>1 DEF ConnInv
  <1> HIDE DEF Good
  <1>6. CASE UNCHANGED <<txs, agentVars, hubVars>>
    BY <1>4, <1>5, <1>6 DEF agentVars, hubVars
  <1>7. ASSUME NEW t \in ticks, TickSends(t) PROVE ConnInv'
    <2> DEFINE cmd == M!CommandOf(t)
    <2>1. t.pc = "send" /\ SendToAgent(cmd) /\ UNCHANGED <<session, link>>
      BY <1>7 DEF TickSends, M!Send
    <2>2. cmd \in Executions' /\ cmd \in Command
      BY <1>1, <2>1
    <2> HIDE DEF cmd
    <2>3. registered' \in {registered, 0} /\ sent' \subseteq sent \cup {cmd}
      BY <2>1 DEF SendToAgent, hubVars
    <2>4. CASE down' = down
      BY <1>4, <1>5, <2>1, <2>2, <2>3, <2>4
    <2>5. CASE registered # 0 /\ down' = [down EXCEPT ![registered] = Append(@, cmd)]
      <3>1. registered \in Sessions
        BY <1>5, <2>5
      <3>2. Good(Append(down[registered], cmd))
        BY <1>2, <2>2, <3>1, AppendElements DEF Good
      <3>3. down' = [down EXCEPT ![registered] = Append(down[registered], cmd)]
        BY <2>5
      <3>4. QED
        BY <1>4, <1>5, <2>1, <2>2, <2>3, <3>1, <3>2, <3>3
    <2>6. QED
      BY <2>1, <2>4, <2>5 DEF SendToAgent
  <1>8. ASSUME NEW s \in Sessions, Connect(s) PROVE ConnInv'
    <2>1. link' = [link EXCEPT ![s] = "open"] /\ session' = s /\ registered' = s
          /\ UNCHANGED <<down, sent>>
      BY <1>8 DEF Connect, A!Connect
    <2>2. link' \in [Sessions -> {"unused", "open", "cut", "closed"}]
      BY <1>5, <2>1
    <2>3. QED
      BY <1>4, <1>5, <2>1, <2>2
  <1>9. ASSUME NEW s \in Sessions, HandlerExits(s) PROVE ConnInv'
    <2>1. link' = [link EXCEPT ![s] = "closed"] /\ registered' = 0
          /\ UNCHANGED <<down, sent, session>>
      BY <1>9 DEF HandlerExits
    <2>2. link' \in [Sessions -> {"unused", "open", "cut", "closed"}]
      BY <1>5, <2>1
    <2>3. QED
      BY <1>4, <1>5, <2>1, <2>2
  <1>10. CASE A!Receive /\ UNCHANGED Outside
    <2>1. /\ session \in Sessions /\ down[session] # <<>>
          /\ down' = [down EXCEPT ![session] = Tail(down[session])]
          /\ UNCHANGED <<session, link, registered, sent>>
      BY <1>5, <1>10 DEF A!Receive, Outside, hubVars
    <2>2. Good(Tail(down[session]))
      BY <1>2, <2>1, TailElements DEF Good
    <2>3. QED
      BY <1>4, <1>5, <2>1, <2>2
  <1>11. CASE A!EndSession /\ UNCHANGED Outside
    <2>1. /\ session \in Sessions /\ session' = 0
          /\ link' = [link EXCEPT ![session] = IF @ = "open" THEN "cut" ELSE @]
          /\ down' = [down EXCEPT ![session] = <<>>]
          /\ UNCHANGED <<registered, sent>>
      BY <1>5, <1>11 DEF A!EndSession, Outside, hubVars
    <2>2. link' \in [Sessions -> {"unused", "open", "cut", "closed"}]
      BY <1>5, <2>1
    <2>3. QED
      BY <1>3, <1>4, <1>5, <2>1, <2>2
  <1>12. CASE ServerCrash
    <2>1. /\ link' = [s \in Sessions |-> IF link[s] = "unused" THEN "unused" ELSE "closed"]
          /\ registered' = 0 /\ UNCHANGED <<sent, session, down>>
      BY <1>12 DEF ServerCrash
    <2>2. link' \in [Sessions -> {"unused", "open", "cut", "closed"}]
      BY <2>1
    <2>3. QED
      BY <1>4, <1>5, <2>1, <2>2
  <1>13. ASSUME \/ \E s \in Sessions : HandlerReads(s)
                \/ \E j \in jobs : A!JobStep(j) /\ UNCHANGED Outside
                \/ \E o \in orders : A!Fill(o) /\ UNCHANGED Outside
                \/ \E x \in txs : HandlerFinishes(x)
         PROVE  ConnInv'
    <2>1. UNCHANGED <<session, link, down, registered, sent>>
      BY <1>13 DEF HandlerReads, A!JobStep, A!Place, A!PlaceFails, A!PollFilled, A!PollTimeout,
           A!ReadBalances, A!SendReport, A!Fill, A!netVars, HandlerFinishes, agentVars,
           Outside, hubVars
    <2>2. QED
      BY <1>4, <1>5, <2>1
  <1>14. QED
    BY <1>6, <1>7, <1>8, <1>9, <1>10, <1>11, <1>12, <1>13, Actors

-----------------------------------------------------------------------------
(* The reports on their way, the goroutines and the transactions. *)

LEMMA GrowsStep ==
  ASSUME PipelineInv, [Next]_vars
  PROVE  Grows
  BY StoreFacts, OrdersStep DEF Grows, PipelineInv, ExchangeInv

LEMMA UpStep ==
  ASSUME PipelineInv, [Next]_vars
  PROVE  UpInv'
  <1> DEFINE Sound == SoundReports'
  <1> DEFINE Good(q) == q \in Seq(D!Report) /\ \A n \in 1 .. Len(q) : q[n] \in Sound
  <1>0. Sound = {r \in D!Report : SoundReport(r)'} /\ SoundReports \subseteq Sound
    BY GrowsStep, StandsSound DEF SoundReports, D!Report, D!Command
  <1> HIDE DEF Sound
  <1>1. up \in [Sessions -> Seq(D!Report)] /\ \A s \in Sessions : Good(up[s])
    BY <1>0 DEF PipelineInv, UpInv
  <1>2. Good(<<>>)
    OBVIOUS
  <1>3. ASSUME up' = up \/ \E q : \E s \in Sessions : Good(q) /\ up' = [up EXCEPT ![s] = q]
        PROVE  UpInv'
    <2>1. up' \in [Sessions -> Seq(D!Report)] /\ \A s \in Sessions : Good(up'[s])
      BY <1>1, <1>3
    <2>2. QED
      BY <2>1 DEF UpInv, Sound, D!Report, D!Command
  <1> HIDE DEF Good
  <1>4. ASSUME NEW s \in Sessions, HandlerReads(s) PROVE UpInv'
    <2>1. up[s] # <<>> /\ up' = [up EXCEPT ![s] = Tail(up[s])]
      BY <1>4 DEF HandlerReads
    <2>2. Good(Tail(up[s]))
      BY <1>1, <2>1, TailElements DEF Good
    <2>3. QED
      BY <1>3, <2>1, <2>2
  <1>5. ASSUME NEW s \in Sessions, HandlerExits(s) PROVE UpInv'
    BY <1>2, <1>3, <1>5 DEF HandlerExits
  <1>6. CASE ServerCrash
    <2>1. up' = [s \in Sessions |-> <<>>]
      BY <1>6 DEF ServerCrash
    <2>2. QED
      BY <2>1 DEF UpInv, D!Report, D!Command
  <1>7. ASSUME NEW j \in jobs, A!SendReport(j) PROVE UpInv'
    <2> DEFINE r == [exec |-> j.exec, qty |-> j.qty, bal |-> j.bal]
    <2>1. SoundJob(j)
      BY DEF PipelineInv
    <2>2. j.exec \subseteq Command /\ j.qty \in Nat /\ j.bal \subseteq Nat
      BY <2>1 DEF SoundJob
    <2>3. SoundReport(r)
      BY <2>1, <2>2 DEF SoundJob, SoundReport, D!Report, D!Command, Command, D!Order, Order
    <2>4. r \in Sound /\ r \in D!Report
      BY <1>0, <2>3 DEF SoundReports, SoundReport
    <2> HIDE DEF r
    <2>5. CASE session \in Sessions /\ up' = [up EXCEPT ![session] = Append(up[session], r)]
      <3>1. Good(Append(up[session], r))
        BY <1>1, <2>4, <2>5, AppendElements DEF Good
      <3>2. QED
        BY <1>3, <2>5, <3>1
    <2>6. up' = up \/ up' = [up EXCEPT ![session] = Append(up[session], r)]
      BY <1>7 DEF A!SendReport, r
    <2>7. CASE session \notin Sessions
      <3>1. up' = up
        BY <1>1, <2>6, <2>7
      <3>2. QED
        BY <1>3, <3>1
    <2>8. QED
      BY <1>3, <2>5, <2>6, <2>7
  <1>8. ASSUME \/ UNCHANGED <<txs, agentVars, hubVars>>
               \/ \E t \in ticks : TickSends(t)
               \/ \E s \in Sessions : Connect(s)
               \/ A!Receive \/ A!EndSession
               \/ \E o \in orders : A!Fill(o)
               \/ \E x \in txs : HandlerFinishes(x)
        PROVE  up' = up
    BY <1>8 DEF agentVars, TickSends, Connect, A!Connect, A!Receive, A!EndSession, A!Fill,
         A!netVars, HandlerFinishes
  <1>9. ASSUME NEW j \in jobs, A!JobStep(j) PROVE A!SendReport(j) \/ up' = up
    BY <1>9 DEF A!JobStep, A!Place, A!PlaceFails, A!PollFilled, A!PollTimeout, A!ReadBalances,
         A!netVars
  <1>10. QED
    BY <1>3, <1>4, <1>5, <1>6, <1>7, <1>8, <1>9, Actors

LEMMA NewJob ==
  ASSUME NEW pc \in {"place", "balance"}, NEW cmds \in SUBSET Command,
         AtMostOne(cmds), cmds \subseteq Executions'
  PROVE  SoundJob(A!Job(pc, cmds))'
  BY DEF A!Job, SoundJob, Backed, AtMostOne

\* A command has one goroutine, which reports no more than it saw filled.
LEMMA JobStepSound ==
  ASSUME PipelineInv, NEW j \in jobs, A!JobStep(j), Grows
  PROVE  \A k \in jobs' : k \in jobs \/ SoundJob(k)'
  <1>1. /\ SoundJob(j)
        /\ j \in [pc : {"place", "poll", "balance", "send"}, cmds : SUBSET Command,
                  exec : SUBSET Command, qty : Nat, bal : SUBSET Nat]
        /\ AtMostOne(j.cmds)
    BY DEF PipelineInv, SoundJob
  <1>2. SoundJob(j)' /\ j.cmds \subseteq Executions'
    BY <1>1, StandsSound DEF SoundJob, Grows
  <1>3. ASSUME NEW k, SoundJob(k)', A!Goto(j, k)
        PROVE  \A l \in jobs' : l \in jobs \/ SoundJob(l)'
    BY <1>3 DEF A!Goto
  <1>4. SoundJob([j EXCEPT !.pc = "balance"])'
    BY <1>1, <1>2 DEF SoundJob
  <1>5. CASE A!Place(j)
    <2>1. PICK c \in j.cmds : A!Accepts(c)
      BY <1>5 DEF A!Place
    <2>2. j.cmds = {c}
      BY <1>1 DEF AtMostOne
    <2>3. [cmd |-> c, filled |-> 0] \in orders'
      BY <2>1 DEF A!Accepts
    <2>4. Backed(j.cmds, 0)'
      BY <2>2, <2>3 DEF Backed
    <2>5. SoundJob([j EXCEPT !.pc = "poll"])'
      BY <1>1, <1>2, <1>5, <2>4 DEF SoundJob, A!Place
    <2>6. QED
      BY <1>3, <1>4, <1>5, <2>5 DEF A!Place
  <1>6. CASE A!PlaceFails(j)
    BY <1>3, <1>4, <1>6 DEF A!PlaceFails
  <1>7. CASE A!PollFilled(j)
    <2>1. PICK o \in orders :
            /\ o.cmd \in j.cmds
            /\ A!Goto(j, [j EXCEPT !.pc = "balance", !.exec = j.cmds, !.qty = o.filled])
      BY <1>7 DEF A!PollFilled
    <2>2. o.filled \in Nat /\ j.cmds = {o.cmd}
      BY <1>1, <2>1 DEF Grows, AtMostOne
    <2>3. Backed(j.cmds, o.filled)
      BY <2>2 DEF Backed
    <2>4. Backed(j.cmds, o.filled)'
      BY <2>2, <2>3, BackedGrows
    <2> DEFINE k == [j EXCEPT !.pc = "balance", !.exec = j.cmds, !.qty = o.filled]
    <2>5. k \in [pc : {"place", "poll", "balance", "send"}, cmds : SUBSET Command,
                  exec : SUBSET Command, qty : Nat, bal : SUBSET Nat]
          /\ k.pc = "balance" /\ k.cmds = j.cmds /\ k.exec = j.cmds /\ k.qty = o.filled
          /\ k.bal = j.bal
      BY <1>1, <2>2
    <2> HIDE DEF k
    <2>6. SoundJob(k)'
      BY <1>2, <2>4, <2>5 DEF SoundJob
    <2>7. QED
      BY <1>3, <2>1, <2>6 DEF k
  <1>8. CASE A!PollTimeout(j)
    <2> DEFINE k == [j EXCEPT !.pc = "balance", !.exec = j.cmds]
    <2>1. k \in [pc : {"place", "poll", "balance", "send"}, cmds : SUBSET Command,
                  exec : SUBSET Command, qty : Nat, bal : SUBSET Nat]
          /\ k.pc = "balance" /\ k.cmds = j.cmds /\ k.exec = j.cmds /\ k.qty = j.qty
          /\ k.bal = j.bal
      BY <1>1
    <2>2. j.pc = "poll" /\ j.qty = 0 /\ A!Goto(j, k)
      BY <1>1, <1>8 DEF A!PollTimeout, SoundJob
    <2> HIDE DEF k
    <2>3. SoundJob(k)'
      BY <1>2, <2>1, <2>2 DEF SoundJob
    <2>4. QED
      BY <1>3, <2>2, <2>3
  <1>9. CASE A!ReadBalances(j)
    <2>1. wallet.usdt \in Nat
      BY DEF PipelineInv, ExchangeInv
    <2>2. A!Balances \in SUBSET Nat /\ AtMostOne(A!Balances)
      BY <2>1 DEF A!Balances, AtMostOne
    <2>3. ASSUME NEW bal \in {A!Balances, j.bal}
          PROVE  SoundJob([j EXCEPT !.pc = "send", !.bal = bal])'
      <3> DEFINE k == [j EXCEPT !.pc = "send", !.bal = bal]
      <3>1. k \in [pc : {"place", "poll", "balance", "send"}, cmds : SUBSET Command,
                  exec : SUBSET Command, qty : Nat, bal : SUBSET Nat]
            /\ k.pc = "send" /\ k.cmds = j.cmds /\ k.exec = j.exec /\ k.qty = j.qty
            /\ k.bal = bal
        BY <1>1, <2>2, <2>3
      <3>2. AtMostOne(bal)
        BY <1>1, <2>2, <2>3 DEF SoundJob
      <3> HIDE DEF k
      <3>3. SoundJob(k)'
        BY <1>2, <3>1, <3>2 DEF SoundJob
      <3>4. QED
        BY <3>3 DEF k
    <2>4. [j EXCEPT !.pc = "send"] = [j EXCEPT !.pc = "send", !.bal = j.bal]
      BY <1>1
    <2>5. QED
      BY <1>3, <1>9, <2>3, <2>4 DEF A!ReadBalances
  <1>10. CASE A!SendReport(j)
    BY <1>10 DEF A!SendReport
  <1>11. QED
    BY <1>5, <1>6, <1>7, <1>8, <1>9, <1>10 DEF A!JobStep

LEMMA JobsStep ==
  ASSUME PipelineInv, [Next]_vars
  PROVE  \A j \in jobs' : SoundJob(j)'
  <1>1. \A j \in jobs : SoundJob(j)'
    BY GrowsStep, StandsSound DEF PipelineInv
  <1>2. ASSUME NEW s \in Sessions, Connect(s)
        PROVE  \A j \in jobs' : SoundJob(j)'
    <2>1. SoundJob(A!Job("balance", {}))'
      BY NewJob DEF AtMostOne
    <2>2. QED
      BY <1>2, <2>1 DEF Connect, A!Connect
  <1>3. CASE A!Receive
    <2>1. session \in Sessions /\ down[session] # <<>> /\ down[session] \in Seq(Command)
          /\ jobs' = jobs \cup {A!Job("place", {Head(down[session])})}
      BY <1>3 DEF A!Receive, PipelineInv, ConnInv
    <2>2. PICK cmd : cmd = Head(down[session])
      OBVIOUS
    <2>3. cmd \in Command /\ cmd \in Executions
      BY <2>1, <2>2, TailElements DEF PipelineInv, ConnInv
    <2>4. cmd \in Executions'
      BY <2>3, GrowsStep DEF Grows
    <2>5. SoundJob(A!Job("place", {cmd}))'
      BY <2>3, <2>4, NewJob DEF AtMostOne
    <2>6. QED
      BY <1>1, <2>1, <2>2, <2>5
  <1>4. CASE A!EndSession
    BY <1>4 DEF A!EndSession
  <1>5. ASSUME NEW j \in jobs, A!JobStep(j)
        PROVE  \A k \in jobs' : SoundJob(k)'
    BY <1>1, <1>5, JobStepSound, GrowsStep
  <1>6. ASSUME \/ UNCHANGED <<txs, agentVars, hubVars>>
               \/ \E t \in ticks : TickSends(t)
               \/ \E s \in Sessions : HandlerReads(s) \/ HandlerExits(s)
               \/ \E o \in orders : A!Fill(o)
               \/ \E x \in txs : HandlerFinishes(x)
               \/ ServerCrash
        PROVE  jobs' = jobs
    BY <1>6 DEF agentVars, TickSends, HandlerReads, HandlerExits, A!Fill, HandlerFinishes,
         ServerCrash
  <1>7. QED
    BY <1>1, <1>2, <1>3, <1>4, <1>5, <1>6, Actors

LEMMA TxsStep ==
  ASSUME PipelineInv, [Next]_vars
  PROVE  \A x \in txs' : SoundTx(x)'
  <1>1. \A x \in txs : SoundTx(x)'
    BY GrowsStep, StandsSound DEF PipelineInv
  <1>2. ASSUME NEW s \in Sessions, HandlerReads(s)
        PROVE  \A x \in txs' : SoundTx(x)'
    <2>1. PICK r : r = Head(up[s])
      OBVIOUS
    <2> DEFINE found == r.exec \cap pending
               rows == {portfolio[c.inst] : c \in found}
               pf == IF found = {} THEN D!EmptyRow ELSE CHOOSE row \in rows : TRUE
    <2>2. /\ up[s] # <<>> /\ clock' = clock
          /\ txs' = txs \cup {[h |-> s, report |-> r, found |-> found, pf |-> pf]}
      BY <1>2, <2>1 DEF HandlerReads, D!Begin, tickVars
    <2>3. r \in D!Report /\ SoundReport(r)
      <3>1. r \in SoundReports
        BY <2>1, <2>2, TailElements DEF PipelineInv, UpInv
      <3>2. QED
        BY <3>1 DEF SoundReports
    <2>4. D!PortfolioRow = PortfolioRow /\ D!EmptyRow \in PortfolioRow /\ D!EmptyRow.last = 0
      BY MonthAssumption DEF D!PortfolioRow, PortfolioRow, D!Bar, Bar, D!EmptyRow
    <2>5. \A c \in pending : portfolio[c.inst] \in PortfolioRow /\ portfolio[c.inst].last <= clock
      BY StoreFacts DEF Command
    <2>6. \A row \in rows : row \in PortfolioRow /\ row.last <= clock
      BY <2>5
    <2>7. pf \in PortfolioRow /\ pf.last <= clock
      <3>1. CASE found = {}
        BY <2>4, <3>1, StoreFacts
      <3>2. CASE found # {}
        <4>1. rows # {}
          BY <3>2
        <4>2. pf \in rows
          BY <3>2, <4>1
        <4>3. QED
          BY <2>6, <4>2
      <3>3. QED
        BY <3>1, <3>2
    <2>8. found \in SUBSET D!Command /\ found \subseteq r.exec
      BY <2>3 DEF D!Report
    <2> HIDE DEF found, pf
    <2>9. ASSUME NEW x, x = [h |-> s, report |-> r, found |-> found, pf |-> pf]
          PROVE  SoundTx(x)'
      <3>1. x \in D!Tx
        BY <2>3, <2>4, <2>7, <2>8, <2>9 DEF D!Tx
      <3>2. SoundTx(x)
        BY <2>3, <2>7, <2>8, <2>9, <3>1 DEF SoundTx
      <3>3. QED
        BY <3>2, GrowsStep, StandsSound
    <2>10. QED
      BY <1>1, <2>2, <2>9
  <1>3. ASSUME NEW x \in txs, HandlerFinishes(x)
        PROVE  txs' \subseteq txs
    BY <1>3 DEF HandlerFinishes, D!Finish, D!CommitBalances, D!CommitFill, D!Abort, D!Ends
  <1>4. ServerCrash => txs' = {}
    BY DEF ServerCrash
  <1>5. ASSUME \/ UNCHANGED <<txs, agentVars, hubVars>>
               \/ \E t \in ticks : TickSends(t)
               \/ \E s \in Sessions : Connect(s) \/ HandlerExits(s)
               \/ UNCHANGED Outside
        PROVE  txs' = txs
    BY <1>5 DEF TickSends, Connect, HandlerExits, Outside
  <1>6. QED
    BY <1>1, <1>2, <1>3, <1>4, <1>5, Actors

\* Only a commit of a report records a trade.
LEMMA TradesMove ==
  ASSUME [Next]_vars
  PROVE  trades' = trades \/ \E x \in txs : HandlerFinishes(x)
  <1>1. ASSUME NEW t \in ticks, TickProceeds(t) \/ ManagerStep(M!TickFault(t))
        PROVE  trades' = trades
    <2>1. M!TickStep(t) \/ M!TickFault(t)
      BY <1>1 DEF TickProceeds, ManagerStep, TickSends, M!TickStep
    <2>2. P!TickStep(t) \/ P!TickFault(t)
      BY <2>1, SameTickStep, SameTickFault
    <2>3. QED
      BY <2>2 DEF P!TickStep, P!TickFault, P!Fetch, P!Load, P!Decide, P!ReadRelease,
           P!SaveRelease, P!Dispatch, P!Send, P!Advance, P!LoadFails, P!DecideFails, P!ReleaseFails,
           P!DispatchFails, P!AdvanceFails, P!Fail, P!storeVars
  <1>2. ASSUME (\E i \in Instances : M!User(i)) \/ M!Scan \/ M!NewBar \/ M!Crash
        PROVE  trades' = trades
    BY <1>2 DEF M!User, M!Start, M!Stop, M!Delete, M!Scan, M!NewBar, M!Crash, M!storeVars
  <1>3. ASSUME UNCHANGED storeVars
        PROVE  trades' = trades
    BY <1>3 DEF storeVars
  <1>4. CASE \/ \E i \in Instances : ManagerStep(M!User(i))
             \/ ManagerStep(M!Scan) \/ ManagerStep(M!NewBar) \/ ServerCrash
    BY <1>2, <1>4 DEF ManagerStep, ServerCrash
  <1>5. CASE \E s \in Sessions : Connect(s) \/ HandlerReads(s) \/ HandlerExits(s)
    BY <1>3, <1>5 DEF Connect, HandlerReads, HandlerExits, D!Begin, D!storeVars, storeVars
  <1>6. CASE \/ AgentStep(A!Receive) \/ AgentStep(A!EndSession)
             \/ \E j \in jobs : AgentStep(A!JobStep(j))
             \/ \E o \in orders : AgentStep(A!Fill(o))
    BY <1>3, <1>6 DEF AgentStep
  <1>7. CASE UNCHANGED vars
    BY <1>3, <1>7 DEF vars
  <1>8. QED
    BY <1>1, <1>4, <1>5, <1>6, <1>7 DEF Next

LEMMA TradesStep ==
  ASSUME PipelineInv, [Next]_vars
  PROVE  TradeWithinFill'
  <1>1. ASSUME NEW y \in trades
        PROVE  \E o \in orders' : o.cmd = y.cmd /\ y.qty <= o.filled
    <2>1. y.qty \in Nat
      BY StoreFacts DEF Trade
    <2>2. PICK o \in orders : o.cmd = y.cmd /\ y.qty <= o.filled
      BY DEF PipelineInv, TradeWithinFill
    <2>3. PICK p \in orders' : p.cmd = o.cmd /\ o.filled <= p.filled
      BY GrowsStep DEF Grows, OrdersGrow
    <2>4. y.qty <= p.filled
      BY <2>1, <2>2, <2>3, GrowsStep DEF Grows
    <2>5. QED
      BY <2>2, <2>3, <2>4
  <1>2. ASSUME NEW x \in txs, HandlerFinishes(x)
        PROVE  TradeWithinFill'
    <2>1. SoundTx(x)' /\ x.report.qty \in Nat
      BY GrowsStep, StandsSound DEF PipelineInv, SoundTx, SoundReport, D!Report
    <2>2. \A c \in x.found : \E o \in orders' : o.cmd = c /\ x.report.qty <= o.filled
      BY <2>1 DEF SoundTx, SoundReport, Backed
    <2>3. \A y \in trades' : y \in trades \/ \E c \in x.found : y = [cmd |-> c, qty |-> x.report.qty]
      <3>1. CASE D!CommitBalances(x) \/ D!Abort(x)
        BY <3>1 DEF D!CommitBalances, D!Abort
      <3>2. CASE D!CommitFill(x)
        <4>1. PICK c \in x.found : trades' = trades \cup {[cmd |-> c, qty |-> x.report.qty]}
          BY <3>2 DEF D!CommitFill
        <4>2. QED
          BY <4>1
      <3>3. QED
        BY <1>2, <3>1, <3>2 DEF HandlerFinishes, D!Finish
    <2>4. QED
      BY <1>1, <2>2, <2>3 DEF TradeWithinFill
  <1>3. QED
    BY <1>1, <1>2, TradesMove DEF TradeWithinFill

-----------------------------------------------------------------------------
(* The ledger.  Which lots a step may write into a row, a tick or a            *)
(* transaction, whatever else it does.                                         *)

SameLots(a, b) == a.dead = b.dead /\ a.float = b.float

Owns(row) == row.dead + row.float

\* The step is the tick's save of its release (manager.go:393), whether or not
\* the commit returns an error.
SavesRelease(t) ==
  /\ t.pc = "saverelease" /\ t \notin ticks'
  /\ portfolio' = M!WithReleased(t)

\* Only a release saves lots that a tick read before, moving some of them.
RowsKeep ==
  \A i \in Instances :
    \/ SameLots(portfolio'[i], portfolio[i])
    \/ \E t \in ticks : t.inst = i /\ SavesRelease(t) /\ Owns(portfolio'[i]) = Owns(t.pf)

RowsSettle(x, c) ==
  /\ D!CommitFill(x)
  /\ c \in x.found /\ c \in pending /\ c.inst \in Instances
  /\ trades' = trades \cup {[cmd |-> c, qty |-> x.report.qty]}
  /\ ticks' = ticks /\ txs' = txs \ {x}
  /\ \A i \in Instances :
       SameLots(portfolio'[i], IF i = c.inst THEN Settled(x.pf, c.order, x.report.qty)
                                             ELSE portfolio[i])

TicksRead ==
  \A u \in ticks' :
    \/ u.inst \in Instances /\ u.pf = EmptyRow
    \/ \E t \in ticks : u.inst = t.inst /\ u.pf = t.pf
    \/ u.inst \in Instances /\ SameLots(u.pf, portfolio[u.inst])

TxsRead ==
  \A y \in txs' : y \in txs \/ \A c \in y.found : c \in pending /\ y.pf = portfolio[c.inst]

LEMMA TickLots ==
  ASSUME PipelineInv, NEW t \in ticks, P!TickStep(t) \/ P!TickFault(t)
  PROVE  RowsKeep /\ TicksRead
  <1> DEFINE i == t.inst
  <1>1. /\ t \in P!Tick /\ i \in Instances /\ t.pf \in PortfolioRow
        /\ portfolio \in [Instances -> PortfolioRow] /\ portfolio[i] \in PortfolioRow
        /\ P!EmptyRow = EmptyRow
    <2>1. P!PortfolioRow = PortfolioRow
      BY DEF P!PortfolioRow, PortfolioRow, P!Bar, Bar
    <2>2. P!EmptyRow = EmptyRow
      BY DEF P!EmptyRow, EmptyRow
    <2>3. QED
      BY <2>1, <2>2, StoreFacts DEF P!TypeOK, P!Tick
  <1>2. ASSUME portfolio' = portfolio PROVE RowsKeep
    BY <1>2 DEF RowsKeep, SameLots
  <1>3. ASSUME P!Return(t) PROVE TicksRead
    BY <1>3 DEF P!Return, TicksRead
  <1>4. ASSUME NEW t2, P!Goto(t, t2), t2.inst = i,
               t2.pf = EmptyRow \/ t2.pf = t.pf \/ SameLots(t2.pf, portfolio[i])
        PROVE  TicksRead
    BY <1>1, <1>4 DEF P!Goto, TicksRead
  <1>5. ASSUME NEW row \in PortfolioRow, SameLots(row, portfolio[i]),
               portfolio' = portfolio \/ portfolio' = [portfolio EXCEPT ![i] = row]
        PROVE  RowsKeep
    BY <1>1, <1>5 DEF RowsKeep, SameLots
  <1>6. \A row \in {[portfolio[i] EXCEPT !.row = TRUE], [portfolio[i] EXCEPT !.last = t.bar]} :
          row \in PortfolioRow /\ SameLots(row, portfolio[i])
    BY <1>1 DEF SameLots, PortfolioRow, P!Tick, P!Bar, Bar
  <1>7. P!WithOrder(t).inst = i /\ P!WithOrder(t).pf = EmptyRow
    BY <1>1 DEF P!WithOrder, P!Tick
  <1>8. CASE P!Fetch(t)
    <2>1. PICK t2 : t2 = [t EXCEPT !.pc = "load", !.bar = clock]
      OBVIOUS
    <2>2. t2.inst = i /\ t2.pf = t.pf
      BY <1>1, <2>1 DEF P!Tick
    <2>3. QED
      BY <1>2, <1>3, <1>4, <1>8, <2>1, <2>2 DEF P!Fetch, P!storeVars
  <1>9. CASE P!Load(t)
    <2>1. PICK row : row = [portfolio[i] EXCEPT !.row = TRUE]
      OBVIOUS
    <2>2. PICK t2 : t2 = [t EXCEPT !.pc = "step", !.pf = row, !.rt = runtime[i]]
      OBVIOUS
    <2>3. portfolio' = [portfolio EXCEPT ![i] = row] /\ (P!Goto(t, t2) \/ P!Return(t))
      BY <1>9, <2>1, <2>2 DEF P!Load
    <2>4. t2.inst = i /\ t2.pf = row
      BY <1>1, <2>2 DEF P!Tick
    <2>5. row \in PortfolioRow /\ SameLots(row, portfolio[i])
      BY <1>6, <2>1
    <2>6. QED
      BY <1>3, <1>4, <1>5, <2>3, <2>4, <2>5
  <1>10. CASE P!Decide(t)
    <2>1. PICK d : P!Goto(t, P!Decided(t, d))
      BY <1>10 DEF P!Decide
    <2>2. P!Decided(t, d).inst = i /\ P!Decided(t, d).pf = EmptyRow
      BY <1>1 DEF P!Decided, P!WithOrder, P!Tick
    <2>3. QED
      BY <1>2, <1>4, <1>10, <2>1, <2>2 DEF P!Decide
  <1>11. CASE P!ReadRelease(t)
    <2>1. PICK t2 : t2 = [t EXCEPT !.pc = "saverelease", !.pf = portfolio[i]]
      OBVIOUS
    <2>2. t2.inst = i /\ SameLots(t2.pf, portfolio[i])
      BY <1>1, <2>1 DEF P!Tick, SameLots
    <2>3. QED
      BY <1>2, <1>4, <1>11, <2>1, <2>2 DEF P!ReadRelease, P!storeVars
  <1>12. ASSUME t.pc = "saverelease", portfolio' = P!WithReleased(t), P!Goto(t, P!WithOrder(t))
         PROVE  RowsKeep /\ TicksRead
    <2>1. PICK qty : qty = IF t.release > t.pf.dead THEN t.pf.dead ELSE t.release
      OBVIOUS
    <2>2. PICK row : row = [t.pf EXCEPT !.dead = @ - qty, !.float = @ + qty]
      OBVIOUS
    <2>3. portfolio' = [portfolio EXCEPT ![i] = row]
      BY <1>12, <2>1, <2>2 DEF P!WithReleased
    <2>4. qty \in Nat /\ t.pf.dead \in Nat /\ t.pf.float \in Nat
      BY <1>1, <2>1 DEF P!Tick, PortfolioRow
    <2>5. Owns(row) = Owns(t.pf)
      BY <1>1, <2>2, <2>4 DEF Owns, PortfolioRow
    <2>6. SavesRelease(t)
      <3>1. P!WithOrder(t).pc # "saverelease"
        BY <1>1 DEF P!WithOrder, P!Tick
      <3>2. QED
        BY <1>12, <3>1, SameGoing DEF SavesRelease, P!Goto
    <2>7. RowsKeep
      BY <1>1, <2>3, <2>5, <2>6 DEF RowsKeep, SameLots
    <2>8. QED
      BY <1>4, <1>7, <1>12, <2>7
  <1>13. CASE P!Dispatch(t)
    <2>1. PICK t2 : t2 = [t EXCEPT !.pc = "send"]
      OBVIOUS
    <2>2. t2.inst = i /\ t2.pf = t.pf
      BY <1>1, <2>1 DEF P!Tick
    <2>3. QED
      BY <1>2, <1>4, <1>13, <2>1, <2>2 DEF P!Dispatch
  <1>14. CASE P!Send(t) \/ P!DispatchFails(t)
    <2>1. PICK t2 : t2 = [t EXCEPT !.pc = "advance", !.order = P!NoOrder]
      OBVIOUS
    <2>2. t2.inst = i /\ t2.pf = t.pf
      BY <1>1, <2>1 DEF P!Tick
    <2>3. QED
      BY <1>2, <1>4, <1>14, <2>1, <2>2 DEF P!Send, P!DispatchFails, P!storeVars
  <1>15. CASE P!Advance(t)
    <2>1. PICK row : row = [portfolio[i] EXCEPT !.last = t.bar]
      OBVIOUS
    <2>2. portfolio' = [portfolio EXCEPT ![i] = row] /\ P!Return(t)
      BY <1>1, <1>15, <2>1 DEF P!Advance
    <2>3. QED
      BY <1>3, <1>5, <1>6, <2>1, <2>2
  <1>16. CASE P!LoadFails(t) \/ P!AdvanceFails(t)
    <2>1. PICK row1, row2 : /\ row1 = [portfolio[i] EXCEPT !.row = TRUE]
                            /\ row2 = [portfolio[i] EXCEPT !.last = t.bar]
      OBVIOUS
    <2>2. /\ \/ portfolio' = portfolio
             \/ portfolio' = [portfolio EXCEPT ![i] = row1]
             \/ portfolio' = [portfolio EXCEPT ![i] = row2]
          /\ P!Return(t)
      BY <1>1, <1>16, <2>1 DEF P!LoadFails, P!AdvanceFails, P!Fail
    <2>3. row1 \in PortfolioRow /\ SameLots(row1, portfolio[i])
          /\ row2 \in PortfolioRow /\ SameLots(row2, portfolio[i])
      BY <1>6, <2>1
    <2>4. QED
      BY <1>3, <1>5, <2>2, <2>3
  <1>17. CASE P!DecideFails(t)
    BY <1>2, <1>3, <1>17 DEF P!DecideFails, P!Fail
  <1>18. CASE P!SaveRelease(t) \/ P!ReleaseFails(t)
    <2>1. /\ P!Goto(t, P!WithOrder(t))
          /\ \/ portfolio' = portfolio
             \/ t.pc = "saverelease" /\ portfolio' = P!WithReleased(t)
      BY <1>18 DEF P!SaveRelease, P!ReleaseFails
    <2>2. CASE portfolio' = portfolio
      BY <1>2, <1>4, <1>7, <2>1, <2>2
    <2>3. QED
      BY <1>12, <2>1, <2>2
  <1>19. QED
    BY <1>8, <1>9, <1>10, <1>11, <1>13, <1>14, <1>15, <1>16, <1>17, <1>18
       DEF P!TickStep, P!TickFault

LEMMA FinishLots ==
  ASSUME PipelineInv, NEW x \in txs, HandlerFinishes(x)
  PROVE  \/ /\ RowsKeep /\ trades' = trades
            /\ ticks' = ticks /\ txs' \subseteq txs
         \/ \E c \in x.found : RowsSettle(x, c)
  <1>1. /\ ticks' = ticks /\ portfolio \in [Instances -> PortfolioRow]
        /\ \A c \in pending : c.inst \in Instances
    BY StoreFacts DEF HandlerFinishes, tickVars, Command
  <1>2. ASSUME NEW rows, NEW bal
        PROVE  \A i \in Instances : rows[i] \in PortfolioRow =>
                  SameLots(D!WithBalances(rows, bal)[i], rows[i])
    BY DEF D!WithBalances, SameLots, PortfolioRow
  <1>3. CASE D!CommitBalances(x)
    <2>1. portfolio' = D!WithBalances(portfolio, x.report.bal)
          /\ txs' = txs \ {x} /\ trades' = trades
      BY <1>3 DEF D!CommitBalances, D!Ends
    <2>2. RowsKeep
      BY <1>1, <1>2, <2>1 DEF RowsKeep
    <2>3. QED
      BY <1>1, <2>1, <2>2
  <1>4. CASE D!CommitFill(x)
    <2>1. PICK c \in x.found :
            /\ c \in pending /\ x.pf.row
            /\ portfolio' = D!WithBalances(
                 [portfolio EXCEPT ![c.inst] = D!Settled(x.pf, c.order, x.report.qty)], x.report.bal)
            /\ trades' = trades \cup {[cmd |-> c, qty |-> x.report.qty]}
            /\ txs' = txs \ {x}
      BY <1>4 DEF D!CommitFill, D!Ends
    <2>2. PICK rows : rows = [portfolio EXCEPT ![c.inst] = D!Settled(x.pf, c.order, x.report.qty)]
      OBVIOUS
    <2>3. D!Settled(x.pf, c.order, x.report.qty) \in PortfolioRow
      <3>1. x.pf \in PortfolioRow /\ x.report.qty \in Nat
        BY DEF PipelineInv, SoundTx, SoundReport, D!Report, D!Tx, D!PortfolioRow, PortfolioRow,
               D!Bar, Bar
      <3>2. D!Settled(x.pf, c.order, x.report.qty)
              \in [row : {TRUE}, usdt : Nat, dead : Nat, float : Nat, last : Bar]
        BY <2>1, <3>1, SettledRow
      <3>3. QED
        BY <3>2 DEF PortfolioRow
    <2>4. D!Settled(x.pf, c.order, x.report.qty) = Settled(x.pf, c.order, x.report.qty)
      BY DEF D!Settled, Settled, D!MinusDownToZero, MinusDownToZero
    <2>5. \A i \in Instances : rows[i] \in PortfolioRow
      BY <1>1, <2>2, <2>3
    <2>6. \A i \in Instances : SameLots(portfolio'[i], rows[i])
      BY <1>2, <2>1, <2>2, <2>5
    <2>7. \A i \in Instances :
            rows[i] = IF i = c.inst THEN Settled(x.pf, c.order, x.report.qty) ELSE portfolio[i]
      BY <1>1, <2>1, <2>2, <2>4
    <2>8. RowsSettle(x, c)
      BY <1>1, <1>4, <2>1, <2>6, <2>7 DEF RowsSettle
    <2>9. QED
      BY <2>8
  <1>5. CASE D!Abort(x)
    BY <1>1, <1>5 DEF D!Abort, D!Ends, RowsKeep, SameLots
  <1>6. QED
    BY <1>3, <1>4, <1>5 DEF HandlerFinishes, D!Finish

\* Of a step on the ledger there are two kinds.
LEMMA LedgerMoves ==
  ASSUME PipelineInv, [Next]_vars
  PROVE  \/ RowsKeep /\ TicksRead /\ TxsRead /\ trades' = trades
         \/ \E x \in txs : \E c \in x.found : RowsSettle(x, c)
  <1>1. ASSUME portfolio' = portfolio PROVE RowsKeep
    BY <1>1 DEF RowsKeep, SameLots
  <1>2. ASSUME ticks' \subseteq ticks PROVE TicksRead
    BY <1>2 DEF TicksRead
  <1>3. ASSUME txs' \subseteq txs PROVE TxsRead
    BY <1>3 DEF TxsRead
  <1>4. ASSUME NEW t \in ticks, TickProceeds(t) \/ ManagerStep(M!TickFault(t))
        PROVE  RowsKeep /\ TicksRead /\ TxsRead
    <2>1. (M!TickStep(t) \/ M!TickFault(t)) /\ txs' = txs
      BY <1>4 DEF TickProceeds, ManagerStep, TickSends, M!TickStep
    <2>2. QED
      BY <1>3, <2>1, SameTickStep, SameTickFault, TickLots
  <1>5. ASSUME (\E i \in Instances : ManagerStep(M!User(i))) \/ ManagerStep(M!NewBar)
        PROVE  RowsKeep /\ TicksRead /\ TxsRead
    <2>1. portfolio' = portfolio /\ ticks' = ticks /\ txs' = txs /\ trades' = trades
      BY <1>5 DEF ManagerStep, M!User, M!Start, M!Stop, M!Delete, M!NewBar, M!tickVars, M!storeVars
    <2>2. QED
      BY <1>1, <1>2, <1>3, <2>1
  <1>6. ASSUME ManagerStep(M!Scan)
        PROVE  RowsKeep /\ TicksRead /\ TxsRead
    <2>1. \A i : M!NewTick(i).inst = i /\ M!NewTick(i).pf = EmptyRow
      BY DEF M!NewTick, M!EmptyRow, EmptyRow
    <2>2. portfolio' = portfolio /\ txs' = txs /\ trades' = trades
          /\ \A u \in ticks' : u.inst \in Instances /\ u.pf = EmptyRow
      BY <1>6, <2>1 DEF ManagerStep, M!Scan, M!storeVars
    <2>3. TicksRead
      BY <2>2 DEF TicksRead
    <2>4. QED
      BY <1>1, <1>3, <2>2, <2>3
  <1>7. ASSUME ServerCrash
        PROVE  RowsKeep /\ TicksRead /\ TxsRead
    BY <1>1, <1>2, <1>3, <1>7 DEF ServerCrash, M!Crash, M!storeVars
  <1>8. ASSUME UNCHANGED <<storeVars, tickVars, txs>>
        PROVE  RowsKeep /\ TicksRead /\ TxsRead
    BY <1>1, <1>2, <1>3, <1>8 DEF storeVars, tickVars
  <1>9. ASSUME \/ \E s \in Sessions : Connect(s) \/ HandlerExits(s)
               \/ AgentStep(A!Receive) \/ AgentStep(A!EndSession)
               \/ \E j \in jobs : AgentStep(A!JobStep(j))
               \/ \E o \in orders : AgentStep(A!Fill(o))
               \/ UNCHANGED vars
        PROVE  RowsKeep /\ TicksRead /\ TxsRead
    <2>1. UNCHANGED <<storeVars, tickVars, txs>>
      BY <1>9 DEF Connect, HandlerExits, AgentStep, vars
    <2>2. QED
      BY <1>8, <2>1
  <1>10. ASSUME NEW s \in Sessions, HandlerReads(s)
         PROVE  RowsKeep /\ TicksRead /\ TxsRead
    <2>1. PICK r : D!Begin(s, r) /\ UNCHANGED tickVars /\ r = Head(up[s]) /\ up[s] # <<>>
      BY <1>10 DEF HandlerReads
    <2>2. portfolio' = portfolio /\ ticks' = ticks /\ trades' = trades
      BY <2>1 DEF D!Begin, D!storeVars, tickVars
    <2>3. AtMostOne(r.exec)
      <3>1. r \in SoundReports
        BY <2>1, TailElements DEF PipelineInv, UpInv
      <3>2. QED
        BY <3>1 DEF SoundReports, SoundReport
    <2> DEFINE found == r.exec \cap pending
               rows  == {portfolio[c.inst] : c \in found}
               pf    == IF found = {} THEN D!EmptyRow ELSE CHOOSE row \in rows : TRUE
    <2>4. \A c \in found : c \in pending /\ pf = portfolio[c.inst]
      <3>1. ASSUME NEW c \in found
            PROVE  pf = portfolio[c.inst]
        <4>1. rows = {portfolio[c.inst]}
          BY <2>3, <3>1 DEF AtMostOne
        <4>2. QED
          BY <3>1, <4>1
      <3>2. QED
        BY <3>1
    <2>5. txs' = txs \cup {[h |-> s, report |-> r, found |-> found, pf |-> pf]}
      BY <2>1 DEF D!Begin
    <2> HIDE DEF found, pf
    <2>6. TxsRead
      BY <2>4, <2>5 DEF TxsRead
    <2>7. QED
      BY <1>1, <1>2, <2>2, <2>6
  <1>11. ASSUME NEW x \in txs, HandlerFinishes(x)
         PROVE  \/ RowsKeep /\ TicksRead /\ TxsRead /\ trades' = trades
                \/ \E c \in x.found : RowsSettle(x, c)
    BY <1>2, <1>3, <1>11, FinishLots
  <1>12. \/ \E x \in txs : HandlerFinishes(x)
         \/ RowsKeep /\ TicksRead /\ TxsRead
    BY <1>4, <1>5, <1>6, <1>7, <1>9, <1>10 DEF Next
  <1>13. QED
    BY <1>11, <1>12, TradesMove

\* The sum of an instance's trades of one action.
QtyOf               == [x \in Trade |-> x.qty]
TradedBy(i, action) == {x \in trades : x.cmd.inst = i /\ x.cmd.order.action = action}
Total(i, action)    == SumOf(QtyOf, TradedBy(i, action))

LEMMA TotalType ==
  ASSUME PipelineInv, IsFiniteSet(trades), NEW i, NEW action
  PROVE  /\ Total(i, action) \in Nat
         /\ IsFiniteSet(TradedBy(i, action)) /\ TradedBy(i, action) \subseteq Trade
         /\ \A x \in Trade : QtyOf[x] = x.qty /\ QtyOf[x] \in Nat
  <1>1. \A x \in Trade : QtyOf[x] = x.qty /\ QtyOf[x] \in Nat
    BY DEF QtyOf, Trade
  <1>2. TradedBy(i, action) \subseteq trades /\ trades \subseteq Trade
    BY StoreFacts DEF TradedBy
  <1>3. IsFiniteSet(TradedBy(i, action))
    BY <1>2, FS_Subset
  <1>4. SumOf(QtyOf, TradedBy(i, action)) \in Nat
    <2> DEFINE S == TradedBy(i, action)
    <2>1. IsFiniteSet(S) /\ (\A x \in S : QtyOf[x] \in Nat) /\ S \in SUBSET S
      BY <1>1, <1>2, <1>3
    <2> HIDE DEF S
    <2>2. SumOf(QtyOf, S) \in Nat
      BY <2>1, SumOfSubset
    <2>3. QED
      BY <2>2 DEF S
  <1>5. QED
    BY <1>1, <1>2, <1>3, <1>4 DEF Total

\* A trade counts once: the execution it settles was pending.
LEMMA TotalGrows ==
  ASSUME PipelineInv, IsFiniteSet(trades), NEW c \in pending, NEW qty \in Nat,
         trades' = trades \cup {[cmd |-> c, qty |-> qty]}, NEW i, NEW action
  PROVE  Total(i, action)' = Total(i, action)
                             + (IF c.inst = i /\ c.order.action = action THEN qty ELSE 0)
  <1> DEFINE y == [cmd |-> c, qty |-> qty]
             S == TradedBy(i, action)
  <1>1. y \in Trade /\ y.qty = qty /\ y.cmd = c
    BY StoreFacts DEF Trade
  <1>2. y \notin trades
    BY <1>1 DEF PipelineInv, P!SettleInv, P!FilledIffTraded
  <1>3. /\ Total(i, action) \in Nat /\ IsFiniteSet(S) /\ S \subseteq Trade
        /\ \A x \in Trade : QtyOf[x] = x.qty /\ QtyOf[x] \in Nat
    BY TotalType
  <1>4. trades' = trades \cup {y}
    OBVIOUS
  <1> HIDE DEF y
  <1>5. CASE c.inst = i /\ c.order.action = action
    <2>1. S' = S \cup {y} /\ y \notin S
      BY <1>1, <1>2, <1>4, <1>5 DEF TradedBy
    <2> HIDE DEF S
    <2>2. Integral(QtyOf, S \cup {y})
      BY <1>1, <1>3 DEF Integral
    <2>3. SumOf(QtyOf, S \cup {y}) = QtyOf[y] + SumOf(QtyOf, S)
      BY <1>3, <2>1, <2>2, SumOfAdd
    <2>4. Total(i, action)' = SumOf(QtyOf, S \cup {y}) /\ Total(i, action) = SumOf(QtyOf, S)
      BY <2>1 DEF Total, S
    <2>5. QED
      BY <1>1, <1>3, <1>5, <2>3, <2>4
  <1>6. CASE ~ (c.inst = i /\ c.order.action = action)
    <2>1. S' = S
      BY <1>1, <1>4, <1>6 DEF TradedBy
    <2>2. Total(i, action)' = Total(i, action)
      BY <2>1 DEF Total
    <2>3. QED
      BY <1>3, <1>6, <2>2
  <1>7. QED
    BY <1>5, <1>6

-----------------------------------------------------------------------------
(* The inductive invariant of LedgerWithinPurchases: no row of an instance, in *)
(* the table or as a tick or a transaction read it, has more BTC than the      *)
(* instance began with and its trades have bought.                             *)

MayOwn(i) == Owns(InitRow) + Total(i, "BUY")

LedgerInv ==
  /\ IsFiniteSet(trades) /\ IsFiniteSet(orders)
  /\ \A i \in Instances : Owns(portfolio[i]) <= MayOwn(i)
  /\ \A t \in ticks : Owns(t.pf) <= MayOwn(t.inst)
  /\ \A x \in txs : \A c \in x.found : Owns(x.pf) <= MayOwn(c.inst)

LEMMA OrdersFinite ==
  ASSUME IsFiniteSet(orders), [Next]_vars
  PROVE  IsFiniteSet(orders')
  <1>1. ASSUME orders' = orders \/ \E o : orders' = orders \cup {o} \/ orders' \subseteq orders \cup {o}
        PROVE  IsFiniteSet(orders')
    BY <1>1, FS_AddElement, FS_Subset
  <1>2. ASSUME NEW j \in jobs, A!JobStep(j)
        PROVE  orders' = orders \/ \E o : orders' = orders \cup {o}
    BY <1>2 DEF A!JobStep, A!Place, A!Accepts, A!PlaceFails, A!PollFilled, A!PollTimeout,
         A!ReadBalances, A!SendReport, A!exchangeVars
  <1>3. ASSUME NEW o \in orders, A!Fill(o)
        PROVE  \E p : orders' \subseteq orders \cup {p}
    BY <1>3 DEF A!Fill
  <1>4. ASSUME \/ UNCHANGED <<txs, agentVars, hubVars>>
               \/ \E t \in ticks : TickSends(t)
               \/ \E s \in Sessions : Connect(s) \/ HandlerReads(s) \/ HandlerExits(s)
               \/ A!Receive \/ A!EndSession
               \/ \E x \in txs : HandlerFinishes(x)
               \/ ServerCrash
        PROVE  orders' = orders
    BY <1>4 DEF agentVars, exchangeVars, TickSends, Connect, A!Connect, HandlerReads, HandlerExits,
         A!Receive, A!EndSession, A!exchangeVars, HandlerFinishes, ServerCrash
  <1>5. QED
    BY <1>1, <1>2, <1>3, <1>4, Actors

LEMMA LedgerFacts ==
  ASSUME PipelineInv, IsFiniteSet(trades)
  PROVE  /\ \A i \in Instances : portfolio[i] \in PortfolioRow /\ Owns(portfolio[i]) \in Nat
         /\ \A x \in txs : /\ x.pf \in PortfolioRow /\ x.report.qty \in Nat
                           /\ x.pf.dead \in Nat /\ x.pf.float \in Nat
         /\ Owns(InitRow) \in Nat /\ Owns(EmptyRow) = 0
         /\ \A i : MayOwn(i) \in Nat
  <1>1. \A row \in PortfolioRow : row.dead \in Nat /\ row.float \in Nat /\ Owns(row) \in Nat
    BY DEF PortfolioRow, Owns
  <1>2. \A i \in Instances : portfolio[i] \in PortfolioRow
    BY StoreFacts
  <1>3. \A x \in txs : x.pf \in PortfolioRow /\ x.report.qty \in Nat
    BY DEF PipelineInv, SoundTx, SoundReport, D!Report, D!Tx, D!PortfolioRow, PortfolioRow,
           D!Bar, Bar
  <1>4. Owns(InitRow) \in Nat /\ Owns(EmptyRow) = 0
    BY <1>1, MonthAssumption DEF EmptyRow, Owns
  <1>5. \A i : MayOwn(i) \in Nat
    BY <1>4, TotalType DEF MayOwn
  <1>6. QED
    BY <1>1, <1>2, <1>3, <1>4, <1>5

LEMMA LedgerStep ==
  ASSUME PipelineInv, LedgerInv, [Next]_vars
  PROVE  LedgerInv'
  <1>1. IsFiniteSet(trades) /\ IsFiniteSet(orders')
    BY OrdersFinite DEF LedgerInv
  <1>2. CASE RowsKeep /\ TicksRead /\ TxsRead /\ trades' = trades
    <2>1. ASSUME NEW i PROVE MayOwn(i)' = MayOwn(i)
      BY <1>2 DEF MayOwn, Total, TradedBy
    <2>2. ASSUME NEW i \in Instances
          PROVE  Owns(portfolio'[i]) <= MayOwn(i)
      BY <1>2 DEF RowsKeep, SameLots, Owns, LedgerInv
    <2>3. ASSUME NEW u \in ticks'
          PROVE  Owns(u.pf) <= MayOwn(u.inst)
      <3>1. CASE u.inst \in Instances /\ u.pf = EmptyRow
        BY <1>1, <3>1, LedgerFacts
      <3>2. CASE \E t \in ticks : u.inst = t.inst /\ u.pf = t.pf
        BY <3>2 DEF LedgerInv
      <3>3. CASE u.inst \in Instances /\ SameLots(u.pf, portfolio[u.inst])
        BY <3>3 DEF SameLots, Owns, LedgerInv
      <3>4. QED
        BY <1>2, <3>1, <3>2, <3>3 DEF TicksRead
    <2>4. ASSUME NEW x \in txs', NEW c \in x.found
          PROVE  Owns(x.pf) <= MayOwn(c.inst)
      <3>1. CASE x \in txs
        BY <3>1 DEF LedgerInv
      <3>2. CASE c \in pending /\ x.pf = portfolio[c.inst]
        <4>1. c.inst \in Instances
          BY <3>2, StoreFacts DEF Command
        <4>2. QED
          BY <3>2, <4>1 DEF LedgerInv
      <3>3. QED
        BY <1>2, <3>1, <3>2 DEF TxsRead
    <2>5. QED
      BY <1>1, <1>2, <2>1, <2>2, <2>3, <2>4 DEF LedgerInv
  <1>3. ASSUME NEW x \in txs, NEW c \in x.found, RowsSettle(x, c)
        PROVE  LedgerInv'
    <2> DEFINE qty == x.report.qty
               more == IF c.order.action = "BUY" THEN qty ELSE 0
    <2>1. /\ c \in pending /\ c.inst \in Instances /\ qty \in Nat
          /\ trades' = trades \cup {[cmd |-> c, qty |-> qty]}
          /\ ticks' = ticks /\ txs' = txs \ {x}
      BY <1>1, <1>3, LedgerFacts DEF RowsSettle
    <2>2. \A i \in Instances :
            SameLots(portfolio'[i], IF i = c.inst THEN Settled(x.pf, c.order, qty) ELSE portfolio[i])
      BY <1>3 DEF RowsSettle
    <2> HIDE DEF qty
    <2>3. IsFiniteSet(trades')
      BY <1>1, <2>1, FS_AddElement
    <2>4. ASSUME NEW i
          PROVE  /\ MayOwn(i)' = MayOwn(i) + (IF c.inst = i THEN more ELSE 0)
                 /\ MayOwn(i) \in Nat /\ more \in Nat
      <3>1. Total(i, "BUY")' = Total(i, "BUY")
                               + (IF c.inst = i /\ c.order.action = "BUY" THEN qty ELSE 0)
        BY <1>1, <2>1, TotalGrows
      <3>2. Total(i, "BUY") \in Nat /\ Owns(InitRow) \in Nat
        BY <1>1, TotalType, LedgerFacts
      <3>3. MayOwn(i)' = Owns(InitRow) + Total(i, "BUY")' /\ MayOwn(i) = Owns(InitRow) + Total(i, "BUY")
        BY DEF MayOwn
      <3>4. QED
        BY <2>1, <3>1, <3>2, <3>3
    <2>5. \A i, n : n <= MayOwn(i) /\ n \in Nat => n <= MayOwn(i)'
      BY <2>4
    <2>6. Owns(Settled(x.pf, c.order, qty)) <= MayOwn(c.inst)'
      <3>1. /\ x.pf \in PortfolioRow /\ x.pf.dead \in Nat /\ x.pf.float \in Nat
            /\ x.pf.dead + x.pf.float <= MayOwn(c.inst)
        BY <1>1, <1>3, LedgerFacts DEF LedgerInv, Owns
      <3>2. CASE c.order.action = "BUY"
        <4>1. Owns(Settled(x.pf, c.order, qty)) = (x.pf.dead + qty) + x.pf.float
          BY <3>1, <3>2 DEF Settled, Owns, PortfolioRow
        <4>2. QED
          BY <2>1, <2>4, <3>1, <3>2, <4>1
      <3>3. CASE c.order.action # "BUY"
        <4>1. Owns(Settled(x.pf, c.order, qty)) = x.pf.dead + MinusDownToZero(x.pf.float, qty)
          BY <3>1, <3>3 DEF Settled, Owns, PortfolioRow
        <4>2. MinusDownToZero(x.pf.float, qty) \in Nat /\ MinusDownToZero(x.pf.float, qty) <= x.pf.float
          BY <2>1, <3>1 DEF MinusDownToZero
        <4>3. QED
          BY <2>4, <3>1, <3>3, <4>1, <4>2
      <3>4. QED
        BY <3>2, <3>3
    <2>7. ASSUME NEW i \in Instances
          PROVE  Owns(portfolio'[i]) <= MayOwn(i)'
      <3>1. CASE i = c.inst
        BY <2>2, <2>6, <3>1 DEF SameLots, Owns
      <3>2. CASE i # c.inst
        <4>1. Owns(portfolio'[i]) = Owns(portfolio[i])
          BY <2>2, <3>2 DEF SameLots, Owns
        <4>2. Owns(portfolio[i]) <= MayOwn(i) /\ Owns(portfolio[i]) \in Nat
          BY <1>1, LedgerFacts DEF LedgerInv
        <4>3. QED
          BY <2>5, <4>1, <4>2
      <3>3. QED
        BY <3>1, <3>2
    <2>8. ASSUME NEW t \in ticks
          PROVE  Owns(t.pf) <= MayOwn(t.inst)'
      <3>1. Owns(t.pf) \in Nat
        <4>1. t.pf \in PortfolioRow
          BY StoreFacts DEF P!TypeOK, P!Tick, P!PortfolioRow, PortfolioRow, P!Bar, Bar
        <4>2. QED
          BY <4>1 DEF PortfolioRow, Owns
      <3>2. QED
        BY <2>5, <3>1 DEF LedgerInv
    <2>9. ASSUME NEW y \in txs, NEW d \in y.found
          PROVE  Owns(y.pf) <= MayOwn(d.inst)'
      <3>1. Owns(y.pf) \in Nat
        BY <1>1, LedgerFacts DEF Owns
      <3>2. QED
        BY <2>5, <3>1 DEF LedgerInv
    <2>10. QED
      BY <1>1, <2>1, <2>3, <2>7, <2>8, <2>9 DEF LedgerInv
  <1>4. QED
    BY <1>2, <1>3, LedgerMoves

\* The sums of LedgerWithinPurchases, as sums of functions.
LEMMA LedgerSums ==
  ASSUME PipelineInv, LedgerInv
  PROVE  /\ LedgerBtc = SumOf([i \in Instances |-> Owns(portfolio[i])], Instances)
         /\ BtcBought = SumOf([o \in orders |-> o.filled],
                              {o \in orders : o.cmd.order.action = "BUY"})
  <1>1. /\ IsFiniteSet(Instances) /\ IsFiniteSet(trades) /\ IsFiniteSet(orders)
        /\ \A i \in Instances : Owns(portfolio[i]) \in Int
        /\ \A o \in orders : o.filled \in Int
    BY LedgerFacts, PipelineAssumption DEF LedgerInv, PipelineInv, ExchangeInv
  <1>2. LedgerBtc = SumOf([i \in Instances |-> Owns(portfolio[i])], Instances)
    <2> DEFINE S == Instances
               f == [i \in S |-> Owns(portfolio[i])]
               c == [s \in SUBSET S |-> CHOOSE x \in s : TRUE]
               Raw(g) == g = [s \in SUBSET S |->
                                IF s = {} THEN 0
                                ELSE portfolio[CHOOSE x \in s : TRUE].dead
                                       + portfolio[CHOOSE x \in s : TRUE].float
                                       + g[s \ {CHOOSE x \in s : TRUE}]]
               G == CHOOSE g : Raw(g)
    <2>1. LedgerBtc = G[S]
      BY DEF LedgerBtc, MapThenSumSet, MapThenFoldSet
    <2>2. Chooses(c, S) /\ Integral(f, S)
      BY <1>1 DEF Chooses, Integral
    <2>3. ASSUME NEW g PROVE Raw(g) <=> Sums(g, f, c, S)
      <3>1. \A s \in SUBSET S : s # {} =>
              /\ c[s] = CHOOSE x \in s : TRUE
              /\ f[c[s]] = portfolio[CHOOSE x \in s : TRUE].dead
                             + portfolio[CHOOSE x \in s : TRUE].float
        BY DEF Owns
      <3> HIDE DEF c, f
      <3>2. [s \in SUBSET S |-> IF s = {} THEN 0
                                ELSE portfolio[CHOOSE x \in s : TRUE].dead
                                       + portfolio[CHOOSE x \in s : TRUE].float
                                       + g[s \ {CHOOSE x \in s : TRUE}]]
              = [s \in SUBSET S |-> IF s = {} THEN 0 ELSE f[c[s]] + g[s \ {c[s]}]]
        <4>1. \A s \in SUBSET S : s # {} =>
                portfolio[CHOOSE x \in s : TRUE].dead + portfolio[CHOOSE x \in s : TRUE].float
                  + g[s \ {CHOOSE x \in s : TRUE}] = f[c[s]] + g[s \ {c[s]}]
          BY <3>1
        <4> HIDE DEF S
        <4>2. QED
          BY <4>1
      <3> HIDE DEF S
      <3>3. QED
        BY <3>2 DEF Sums
    <2> HIDE DEF Raw, c, f
    <2>4. Sums(G, f, c, S)
      BY <1>1, <2>2, <2>3, SumsExist
    <2>5. G[S] = SumOf(f, S)
      BY <1>1, <2>2, <2>4, SumsOfAll
    <2>6. QED
      BY <2>1, <2>5 DEF f
  <1>3. BtcBought = SumOf([o \in orders |-> o.filled], {o \in orders : o.cmd.order.action = "BUY"})
    <2> DEFINE S == {o \in orders : o.cmd.order.action = "BUY"}
               f == [o \in orders |-> o.filled]
               c == [s \in SUBSET S |-> CHOOSE x \in s : TRUE]
               Raw(g) == g = [s \in SUBSET S |->
                                IF s = {} THEN 0
                                ELSE (CHOOSE x \in s : TRUE).filled
                                       + g[s \ {CHOOSE x \in s : TRUE}]]
               G == CHOOSE g : Raw(g)
    <2>1. BtcBought = G[S]
      BY DEF BtcBought, MapThenSumSet, MapThenFoldSet
    <2>2. Chooses(c, S) /\ Integral(f, S) /\ IsFiniteSet(S)
      BY <1>1, FS_Subset DEF Chooses, Integral
    <2>3. ASSUME NEW g PROVE Raw(g) <=> Sums(g, f, c, S)
      <3>1. \A s \in SUBSET S : s # {} =>
              /\ c[s] = CHOOSE x \in s : TRUE
              /\ f[c[s]] = (CHOOSE x \in s : TRUE).filled
        OBVIOUS
      <3> HIDE DEF c, f
      <3>2. [s \in SUBSET S |-> IF s = {} THEN 0 ELSE (CHOOSE x \in s : TRUE).filled
                                                     + g[s \ {CHOOSE x \in s : TRUE}]]
              = [s \in SUBSET S |-> IF s = {} THEN 0 ELSE f[c[s]] + g[s \ {c[s]}]]
        <4>1. \A s \in SUBSET S : s # {} =>
                (CHOOSE x \in s : TRUE).filled + g[s \ {CHOOSE x \in s : TRUE}]
                  = f[c[s]] + g[s \ {c[s]}]
          BY <3>1
        <4> HIDE DEF S
        <4>2. QED
          BY <4>1
      <3> HIDE DEF S
      <3>3. QED
        BY <3>2 DEF Sums
    <2> HIDE DEF Raw, c, f, S
    <2>4. Sums(G, f, c, S)
      BY <2>2, <2>3, SumsExist
    <2>5. G[S] = SumOf(f, S)
      BY <2>2, <2>4, SumsOfAll
    <2>6. QED
      BY <2>1, <2>5 DEF f, S
  <1>4. QED
    BY <1>2, <1>3

LEMMA LedgerBounded ==
  ASSUME PipelineInv, LedgerInv
  PROVE  LedgerWithinPurchases
  <1> DEFINE own    == [i \in Instances |-> Owns(portfolio[i])]
             may    == [i \in Instances |-> MayOwn(i)]
             Bought == {x \in trades : x.cmd.order.action = "BUY"}
             instOf == [x \in Trade |-> x.cmd.inst]
             Buys   == {o \in orders : o.cmd.order.action = "BUY"}
             fill   == [o \in orders |-> o.filled]
             orderOf == [x \in Bought |-> CHOOSE o \in orders : o.cmd = x.cmd /\ x.qty <= o.filled]
  <1>1. /\ IsFiniteSet(Instances) /\ IsFiniteSet(trades) /\ IsFiniteSet(orders)
        /\ trades \subseteq Trade /\ Owns(InitRow) \in Nat
    BY LedgerFacts, PipelineAssumption, StoreFacts DEF LedgerInv
  <1>2. SumOf(own, Instances) <= SumOf(may, Instances)
    <2>1. Integral(own, Instances) /\ Integral(may, Instances)
      BY <1>1, LedgerFacts DEF Integral
    <2>2. \A i \in Instances : own[i] <= may[i]
      BY DEF LedgerInv
    <2> HIDE DEF own, may
    <2>3. QED
      BY <1>1, <2>1, <2>2, SumOfAtMost
  <1>3. IsFiniteSet(Bought) /\ IsFiniteSet(Buys)
    BY <1>1, FS_Subset
  <1>4. \A x \in Bought : QtyOf[x] = x.qty /\ QtyOf[x] \in Nat
    BY <1>1 DEF QtyOf, Trade
  <1>5. SumOf(may, Instances) = Cardinality(Instances) * Owns(InitRow) + SumOf(QtyOf, Bought)
    <2>1. \A x \in Bought : instOf[x] \in Instances
      BY <1>1 DEF Trade, Command
    <2>2. ASSUME NEW i \in Instances
          PROVE  may[i] = Owns(InitRow) + SumOf(QtyOf, Class(instOf, Bought, i))
      <3>1. TradedBy(i, "BUY") = Class(instOf, Bought, i)
        BY <1>1 DEF TradedBy, Class
      <3>2. QED
        BY <3>1 DEF MayOwn, Total
    <2>3. Integral(QtyOf, Bought) /\ Owns(InitRow) \in Int
      BY <1>1, <1>4 DEF Integral
    <2> HIDE DEF may, Bought, instOf
    <2>4. QED
      BY <1>1, <1>3, <2>1, <2>2, <2>3, SumOfClasses
  <1>6. SumOf(QtyOf, Bought) <= SumOf(fill, Buys)
    <2>1. \A x \in Bought : orderOf[x] \in orders /\ orderOf[x].cmd = x.cmd /\ x.qty <= orderOf[x].filled
      BY DEF PipelineInv, TradeWithinFill
    <2>2. \A x \in Bought : orderOf[x] \in Buys /\ QtyOf[x] <= fill[orderOf[x]]
      BY <1>4, <2>1
    <2>3. \A x, y \in Bought : orderOf[x] = orderOf[y] => x = y
      <3>1. \A x, y \in trades : x.cmd = y.cmd => x = y
        BY DEF PipelineInv, P!SettleInv, P!FilledIffTraded
      <3> HIDE DEF orderOf
      <3>2. QED
        BY <2>1, <3>1
    <2>4. \A o \in Buys : fill[o] \in Nat
      BY DEF PipelineInv, ExchangeInv
    <2> HIDE DEF Bought, Buys, fill, orderOf
    <2>5. QED
      BY <1>3, <1>4, <2>2, <2>3, <2>4, SumOfInto
  <1>7. /\ SumOf(own, Instances) \in Int /\ SumOf(QtyOf, Bought) \in Int
        /\ SumOf(fill, Buys) \in Int
    <2>1. Integral(own, Instances) /\ Integral(QtyOf, Bought) /\ Integral(fill, Buys)
      BY <1>1, <1>4, LedgerFacts DEF Integral, PipelineInv, ExchangeInv
    <2> HIDE DEF own, Bought, fill, Buys
    <2>2. QED
      BY <1>1, <1>3, <2>1, SumOfRules
  <1>8. /\ LedgerBtc = SumOf(own, Instances) /\ BtcBought = SumOf(fill, Buys)
        /\ Opening = Cardinality(Instances) * Owns(InitRow)
    BY LedgerSums DEF Opening, Owns
  <1>9. Cardinality(Instances) * Owns(InitRow) \in Int
    BY <1>1, FS_CardinalityType
  <1> HIDE DEF own, may, Bought, fill, Buys
  <1>10. QED
    BY <1>2, <1>5, <1>6, <1>7, <1>8, <1>9 DEF LedgerWithinPurchases

-----------------------------------------------------------------------------
(* What is bought stays in the ledger as long as no save of a row is stale: a  *)
(* release and the commit of a report find the lots that they read.            *)

FreshSaves ==
  /\ \A t \in ticks : SavesRelease(t) => SameLots(t.pf, portfolio[t.inst])
  /\ \A x \in txs : \A c \in x.found :
       D!CommitFill(x) => SameLots(x.pf, portfolio[c.inst])

FillsKept ==
  \A i \in Instances : MayOwn(i) <= Owns(portfolio[i]) + Total(i, "SELL")

KeptInv == IsFiniteSet(trades) /\ FillsKept

LEMMA KeptStep ==
  ASSUME PipelineInv, P!RealInv, KeptInv, [Next]_vars, FreshSaves
  PROVE  KeptInv'
  <1>1. IsFiniteSet(trades) /\ FillsKept
    BY DEF KeptInv
  <1>2. CASE RowsKeep /\ TicksRead /\ TxsRead /\ trades' = trades
    <2>1. ASSUME NEW i \in Instances
          PROVE  MayOwn(i)' <= Owns(portfolio'[i]) + Total(i, "SELL")'
      <3>1. Owns(portfolio'[i]) = Owns(portfolio[i])
        BY <1>2 DEF RowsKeep, FreshSaves, SameLots, Owns
      <3>2. MayOwn(i)' = MayOwn(i) /\ Total(i, "SELL")' = Total(i, "SELL")
        BY <1>2 DEF MayOwn, Total, TradedBy
      <3>3. QED
        BY <1>1, <3>1, <3>2 DEF FillsKept
    <2>2. QED
      BY <1>1, <1>2, <2>1 DEF KeptInv, FillsKept, Owns
  <1>3. ASSUME NEW x \in txs, NEW c \in x.found, RowsSettle(x, c)
        PROVE  KeptInv'
    <2> DEFINE qty == x.report.qty
    <2>1. /\ c \in pending /\ c.inst \in Instances /\ qty \in Nat
          /\ trades' = trades \cup {[cmd |-> c, qty |-> qty]}
      BY <1>1, <1>3, LedgerFacts DEF RowsSettle
    <2>2. \A i \in Instances :
            SameLots(portfolio'[i], IF i = c.inst THEN Settled(x.pf, c.order, qty) ELSE portfolio[i])
      BY <1>3 DEF RowsSettle
    <2>3. /\ SameLots(x.pf, portfolio[c.inst])
          /\ x.pf \in PortfolioRow /\ x.pf.dead \in Nat /\ x.pf.float \in Nat
      BY <1>1, <1>3, LedgerFacts DEF RowsSettle, FreshSaves
    <2> HIDE DEF qty
    <2>4. IsFiniteSet(trades')
      BY <1>1, <2>1, FS_AddElement
    <2>5. c.order.action \in {"BUY", "SELL"}
      BY <2>1, StoreFacts DEF P!RealInv, P!IsReal, Executions
    <2>6. ASSUME NEW i \in Instances, NEW a \in {"BUY", "SELL"}
          PROVE  /\ Total(i, a) \in Nat
                 /\ Total(i, a)' = Total(i, a)
                                   + (IF c.inst = i /\ c.order.action = a THEN qty ELSE 0)
      BY <1>1, <2>1, TotalGrows, TotalType
    <2>7. ASSUME NEW i \in Instances
          PROVE  MayOwn(i)' <= Owns(portfolio'[i]) + Total(i, "SELL")'
      <3> DEFINE bought == Total(i, "BUY")
                 sold   == Total(i, "SELL")
                 began  == Owns(InitRow)
      <3>1. bought \in Nat /\ sold \in Nat /\ began \in Nat /\ Owns(portfolio[i]) \in Nat
        BY <1>1, <2>6, LedgerFacts
      <3>2. began + bought <= Owns(portfolio[i]) + sold
        BY <1>1 DEF FillsKept, MayOwn
      <3>3. MayOwn(i)' = began + bought'
        BY DEF MayOwn
      <3>4. CASE i # c.inst
        <4>1. Owns(portfolio'[i]) = Owns(portfolio[i])
          BY <2>2, <3>4 DEF SameLots, Owns
        <4>2. bought' = bought /\ sold' = sold
          BY <2>6, <3>1, <3>4
        <4> HIDE DEF bought, sold, began
        <4>3. began + bought' <= Owns(portfolio'[i]) + sold'
          BY <3>2, <4>1, <4>2
        <4>4. QED
          BY <3>3, <4>3 DEF began, bought, sold
      <3>5. CASE i = c.inst /\ c.order.action = "BUY"
        <4>1. Owns(portfolio'[i]) = (x.pf.dead + qty) + x.pf.float
          BY <2>2, <2>3, <3>5 DEF SameLots, Owns, Settled, PortfolioRow
        <4>2. Owns(portfolio[i]) = x.pf.dead + x.pf.float
          BY <2>3, <3>5 DEF SameLots, Owns
        <4>3. bought' = bought + qty /\ sold' = sold
          BY <2>6, <3>1, <3>5
        <4> HIDE DEF bought, sold, began
        <4>4. began + bought' <= Owns(portfolio'[i]) + sold'
          BY <2>1, <2>3, <3>1, <3>2, <4>1, <4>2, <4>3
        <4>5. QED
          BY <3>3, <4>4 DEF began, bought, sold
      <3>6. CASE i = c.inst /\ c.order.action = "SELL"
        <4>1. Owns(portfolio'[i]) = x.pf.dead + MinusDownToZero(x.pf.float, qty)
          BY <2>2, <2>3, <3>6 DEF SameLots, Owns, Settled, PortfolioRow
        <4>2. Owns(portfolio[i]) = x.pf.dead + x.pf.float
          BY <2>3, <3>6 DEF SameLots, Owns
        <4>3. bought' = bought /\ sold' = sold + qty
          BY <2>6, <3>1, <3>6
        <4>4. /\ MinusDownToZero(x.pf.float, qty) \in Nat
              /\ x.pf.float <= MinusDownToZero(x.pf.float, qty) + qty
          BY <2>1, <2>3 DEF MinusDownToZero
        <4> HIDE DEF bought, sold, began
        <4>5. began + bought' <= Owns(portfolio'[i]) + sold'
          BY <2>1, <2>3, <3>1, <3>2, <4>1, <4>2, <4>3, <4>4
        <4>6. QED
          BY <3>3, <4>5 DEF began, bought, sold
      <3>7. QED
        BY <2>5, <3>4, <3>5, <3>6
    <2>8. QED
      BY <2>4, <2>7 DEF KeptInv, FillsKept, Owns
  <1>4. QED
    BY <1>2, <1>3, LedgerMoves

-----------------------------------------------------------------------------
(* The sizes of the sales, where nothing is released: no row has more in its   *)
(* float stack than the instance began with, nor does a tick or a transaction  *)
(* that read it; hence no sale asks for more.                                  *)

NoRelease == MaxRelease = 0

Sales(order) == P!Sells(order, InitRow.float)

FloatInv ==
  /\ \A i \in Instances : portfolio[i].float <= InitRow.float
  /\ \A t \in ticks : t.pf.float <= InitRow.float /\ Sales(t.order)
  /\ \A x \in txs : \A c \in x.found : x.pf.float <= InitRow.float
  /\ \A c \in Executions : Sales(c.order)

LEMMA FloatStep ==
  ASSUME PipelineInv, P!RealInv, NoRelease, FloatInv, [Next]_vars
  PROVE  FloatInv'
  <1>1. /\ InitRow.float \in Nat /\ EmptyRow.float = 0
        /\ \A i \in Instances : portfolio[i].float \in Nat
        /\ \A t \in ticks : t.pf.float \in Nat
        /\ \A x \in txs : x.pf \in PortfolioRow /\ x.pf.float \in Nat /\ x.report.qty \in Nat
        /\ \A c \in pending : c.inst \in Instances
    <2>1. \A row \in PortfolioRow : row.float \in Nat
      BY DEF PortfolioRow
    <2>2. \A t \in ticks : t.pf \in PortfolioRow
      BY StoreFacts DEF P!TypeOK, P!Tick, P!PortfolioRow, PortfolioRow, P!Bar, Bar
    <2>3. \A x \in txs : x.pf \in PortfolioRow /\ x.report.qty \in Nat
      BY DEF PipelineInv, SoundTx, SoundReport, D!Report, D!Tx, D!PortfolioRow, PortfolioRow,
             D!Bar, Bar
    <2>4. QED
      BY <2>1, <2>2, <2>3, MonthAssumption, StoreFacts DEF EmptyRow, Command
  <1>2. P!OrdersRead /\ P!ExecutionsRead
    BY Simulates, ManagerFacts, StoreFacts
  <1>3. \A u \in ticks' : Sales(u.order)
    <2>1. Sales(P!NoOrder)
      BY DEF Sales, P!Sells, P!NoOrder
    <2>2. ASSUME NEW u \in ticks', NEW t \in ticks, P!Sells(u.order, t.pf.float)
          PROVE  Sales(u.order)
      <3>1. CASE u.order.action = "SELL"
        <4>1. u.order.qty <= t.pf.float /\ t.pf.float <= InitRow.float
          BY <2>2, <3>1 DEF P!Sells, FloatInv
        <4>2. u.order.qty \in Nat
          <5>1. P!TypeOK'
            BY Simulates, ManagerFacts DEF PipelineInv, P!SettleInv
          <5>2. QED
            BY <5>1 DEF P!TypeOK, P!Tick, P!Order
        <4>3. QED
          BY <1>1, <4>1, <4>2 DEF Sales, P!Sells
      <3>2. QED
        BY <3>1 DEF Sales, P!Sells
    <2>3. QED
      BY <1>2, <2>1, <2>2 DEF P!OrdersRead, FloatInv
  <1>4. \A c \in Executions' : Sales(c.order)
    BY <1>2 DEF P!ExecutionsRead, P!Executions, Executions, FloatInv
  <1>5. CASE RowsKeep /\ TicksRead /\ TxsRead /\ trades' = trades
    <2>1. ASSUME NEW i \in Instances
          PROVE  portfolio'[i].float <= InitRow.float
      <3>1. \A t \in ticks : t.pc # "saverelease"
        BY DEF P!RealInv, P!RealTick, NoRelease
      <3>2. SameLots(portfolio'[i], portfolio[i])
        BY <1>5, <3>1 DEF RowsKeep, SavesRelease
      <3>3. QED
        BY <3>2 DEF SameLots, FloatInv
    <2>2. ASSUME NEW u \in ticks'
          PROVE  u.pf.float <= InitRow.float
      BY <1>1, <1>5 DEF TicksRead, SameLots, FloatInv
    <2>3. ASSUME NEW x \in txs', NEW c \in x.found
          PROVE  x.pf.float <= InitRow.float
      BY <1>1, <1>5 DEF TxsRead, FloatInv
    <2>4. QED
      BY <1>3, <1>4, <2>1, <2>2, <2>3 DEF FloatInv, Sales, P!Sells
  <1>6. ASSUME NEW x \in txs, NEW c \in x.found, RowsSettle(x, c)
        PROVE  FloatInv'
    <2>1. /\ x.pf.float <= InitRow.float /\ x.pf \in PortfolioRow
          /\ x.pf.float \in Nat /\ x.report.qty \in Nat
      BY <1>1 DEF FloatInv
    <2>2. Settled(x.pf, c.order, x.report.qty).float <= InitRow.float
      <3>1. CASE c.order.action = "BUY"
        <4>1. Settled(x.pf, c.order, x.report.qty).float = x.pf.float
          BY <2>1, <3>1 DEF Settled, PortfolioRow
        <4>2. QED
          BY <2>1, <4>1
      <3>2. CASE c.order.action # "BUY"
        <4>1. Settled(x.pf, c.order, x.report.qty).float
                = MinusDownToZero(x.pf.float, x.report.qty)
          BY <2>1, <3>2 DEF Settled, PortfolioRow
        <4>2. QED
          BY <1>1, <2>1, <4>1 DEF MinusDownToZero
      <3>3. QED
        BY <3>1, <3>2
    <2>3. ASSUME NEW i \in Instances
          PROVE  portfolio'[i].float <= InitRow.float
      <3>1. SameLots(portfolio'[i], IF i = c.inst THEN Settled(x.pf, c.order, x.report.qty)
                                                  ELSE portfolio[i])
        BY <1>6 DEF RowsSettle
      <3>2. QED
        BY <2>2, <3>1 DEF SameLots, FloatInv
    <2>4. ticks' = ticks /\ txs' \subseteq txs
      BY <1>6 DEF RowsSettle
    <2>5. QED
      BY <1>3, <1>4, <2>3, <2>4 DEF FloatInv, Sales, P!Sells
  <1>7. QED
    BY <1>5, <1>6, LedgerMoves

-----------------------------------------------------------------------------
(* The theorems. *)

LEMMA PipelineInit == Init => PipelineInv
  <1> SUFFICES ASSUME Init PROVE PipelineInv
    OBVIOUS
  <1>1. P!Init /\ P!TypeOK
    BY SameManager, ManagerFacts DEF Init
  <1>2. P!SettleInv
    BY <1>1 DEF P!Init, P!StoreInit, P!SettleInv, P!OneTickPerInstance, P!CommandInv,
         P!Executions, P!FilledIffTraded
  <1>3. InitRow.last <= clock
    BY <1>1, PipelineAssumption DEF P!Init
  <1>4. P!LastNotAhead
    BY <1>1, <1>3 DEF P!Init, P!StoreInit, P!LastNotAhead, P!NoneAhead
  <1>5. ConnInv
    BY DEF Init, A!AgentInit, ConnInv
  <1>6. UpInv
    BY DEF Init, A!AgentInit, UpInv
  <1>7. ExchangeInv /\ TradeWithinFill
    BY PipelineAssumption, <1>1 DEF Init, A!AgentInit, ExchangeInv, OrderRecorded,
         TradeWithinFill, P!Init, P!StoreInit
  <1>8. jobs = {} /\ txs = {}
    BY DEF Init, A!AgentInit, D!ReportInit
  <1>9. QED
    BY <1>2, <1>4, <1>5, <1>6, <1>7, <1>8 DEF PipelineInv

LEMMA PipelineStep ==
  ASSUME PipelineInv, [Next]_vars
  PROVE  PipelineInv'
  <1>1. P!SettleInv' /\ P!LastNotAhead'
    BY Simulates, ManagerFacts DEF PipelineInv, P!SettleInv
  <1>2. QED
    BY <1>1, ConnStep, UpStep, OrdersStep, JobsStep, TxsStep, TradesStep DEF PipelineInv

LEMMA PipelineInductive == Spec => []PipelineInv
  <1>1. PipelineInv /\ [Next]_vars => PipelineInv'
    BY PipelineStep
  <1>2. QED
    BY <1>1, PipelineInit, PTL DEF Spec

\* The whole system, seen through the database and the ticks, is TickManager
\* with reports of any amounts: whatever the hub, the agent and the exchange
\* do reaches the ticks as a ReportCommits (portfolio.go:35-146).
LEMMA Implements == Spec => P!Spec
  <1>1. Init => P!Init
    BY SameManager DEF Init
  <1>2. PipelineInv /\ [Next]_vars => [P!Next]_(P!vars)
    BY Simulates
  <1>3. QED
    BY <1>1, <1>2, PipelineInductive, PTL DEF Spec, P!Spec

\* The same of the instance that the run checks, whose bound on the amounts of
\* a report is TLC's only (manager.go:147-285, portfolio.go:35-146).
THEOREM PipelineImplementsManager ==
  ASSUME Units = Nat
  PROVE  Spec => ImplementsManager
  <1>1. ASSUME P!ReportCommits PROVE M!ReportCommits
    <2>1. \A rows, bal : M!WithBalances(rows, bal) = P!WithBalances(rows, bal)
      BY DEF M!WithBalances, P!WithBalances
    <2>2. PICK bal \in {{}} \cup {{u} : u \in Nat} :
    \/ /\ portfolio' = P!WithBalances(portfolio, bal)
       /\ UNCHANGED <<status, runtime, pending, filled, trades, P!tickVars>>
    \/ \E c \in pending, row \in [row : {TRUE}, usdt : Nat, dead : Nat, float : Nat, last : Bar],
          qty \in Nat :
         /\ row.row /\ row.last <= clock
         /\ portfolio' = P!WithBalances([portfolio EXCEPT ![c.inst] = row], bal)
         /\ pending' = pending \ {c}
         /\ filled' = filled \cup {c}
         /\ trades' = trades \cup {[cmd |-> c, qty |-> qty]}
         /\ UNCHANGED <<status, runtime, P!tickVars>>
      BY <1>1 DEF P!ReportCommits
    <2>3. CASE /\ portfolio' = P!WithBalances(portfolio, bal)
               /\ UNCHANGED <<status, runtime, pending, filled, trades, P!tickVars>>
      BY <2>1, <2>3 DEF M!ReportCommits, M!tickVars, P!tickVars
    <2>4. ASSUME NEW c \in pending,
                 NEW row \in [row : {TRUE}, usdt : Nat, dead : Nat, float : Nat, last : Bar],
                 NEW qty \in Nat,
                 row.row, row.last <= clock,
                 portfolio' = P!WithBalances([portfolio EXCEPT ![c.inst] = row], bal),
                 pending' = pending \ {c},
                 filled' = filled \cup {c},
                 trades' = trades \cup {[cmd |-> c, qty |-> qty]},
                 UNCHANGED <<status, runtime, P!tickVars>>
          PROVE  M!ReportCommits
      <3>1. portfolio' = M!WithBalances([portfolio EXCEPT ![c.inst] = row], bal)
        BY <2>1, <2>4
      <3>2. QED
        BY <2>4, <3>1 DEF M!ReportCommits, M!tickVars, P!tickVars
    <2>5. QED
      BY <2>2, <2>3, <2>4
  <1>2. P!Next => M!Next
    BY <1>1, SameManager, SameTickStep, SameTickFault DEF P!Next, M!Next
  <1>3. UNCHANGED P!vars => UNCHANGED M!vars
    BY DEF P!vars, M!vars, P!storeVars, M!storeVars, P!tickVars, M!tickVars
  <1>4. P!Init => M!Init
    BY SameManager
  <1>5. [P!Next]_(P!vars) => [M!Next]_(M!vars)
    BY <1>2, <1>3
  <1>6. P!Spec => M!Spec
    BY <1>4, <1>5, PTL DEF P!Spec, M!Spec
  <1>7. QED
    BY <1>6, Implements, PTL DEF ImplementsManager

\* The rows, the connections, the transactions and the ticks keep their types,
\* whatever fails or is lost.
THEOREM PipelineTypeCorrect == Spec => []TypeOK
  <1>1. PipelineInv => TypeOK
    <2> SUFFICES ASSUME PipelineInv PROVE TypeOK
      OBVIOUS
    <2>1. P!TypeOK
      BY StoreFacts
    <2>2. P!PortfolioRow = M!PortfolioRow /\ P!RuntimeRow = M!RuntimeRow /\ P!Order = M!Order
          /\ P!Bar = M!Bar /\ P!Status = M!Status
      BY DEF P!PortfolioRow, M!PortfolioRow, P!RuntimeRow, M!RuntimeRow, P!Order, M!Order,
           P!Bar, M!Bar, P!Status, M!Status, P!Tiers, M!Tiers
    <2>3. P!Command = M!Command
      BY <2>2 DEF P!Command, M!Command
    <2>4. P!Trade = M!Trade /\ P!Tick = M!Tick
      BY <2>2, <2>3 DEF P!Trade, M!Trade, P!Tick, M!Tick, P!Pc, M!Pc
    <2>5. M!TypeOK
      BY <2>1, <2>2, <2>3, <2>4 DEF P!TypeOK, M!TypeOK, P!StoreTypeOK, M!StoreTypeOK
    <2>6. D!ReportTypeOK /\ registered \in {0} \cup Sessions /\ link \in [Sessions -> A!Links]
      BY DEF PipelineInv, SoundTx, D!ReportTypeOK, ConnInv, A!Links
    <2>7. QED
      BY <2>5, <2>6 DEF TypeOK
  <1>2. QED
    BY <1>1, PipelineInductive, PTL

\* Through lost, repeated and late reports, rolled back transactions, crashes
\* of the server and reconnections, an execution has a trade exactly when it is
\* filled, and one only (manager.go:430, portfolio.go:56-118).
THEOREM PipelineSettledOnce == Spec => []FilledIffTraded
  <1>1. PipelineInv => FilledIffTraded
    BY DEF PipelineInv, P!SettleInv, P!FilledIffTraded, FilledIffTraded
  <1>2. QED
    BY <1>1, PipelineInductive, PTL

\* No order is at the exchange without its execution row, crashes included
\* (manager.go:430 before :435).
THEOREM OrdersRecorded == Spec => []OrderRecorded
  <1>1. PipelineInv => OrderRecorded
    BY DEF PipelineInv, ExchangeInv
  <1>2. QED
    BY <1>1, PipelineInductive, PTL

\* No trade is more than the exchange had filled of its order when the agent
\* looked, hence than it has filled since (client.go:185-232, portfolio.go:108).
THEOREM TradesWithinFills == Spec => []TradeWithinFill
  <1>1. PipelineInv => TradeWithinFill
    BY DEF PipelineInv
  <1>2. QED
    BY <1>1, PipelineInductive, PTL

\* A DCA tier is bought at most once a month in the whole system: what was
\* proved of the ticks for any reports holds for those the agent sends
\* (manager.go:247 before :261).
THEOREM PipelineTierOnce == Spec => []M!TierOncePerMonth
  <1>1. P!TierOncePerMonth <=> M!TierOncePerMonth
    BY DEF P!TierOncePerMonth, M!TierOncePerMonth, P!Executions, M!Executions
  <1>2. QED
    BY <1>1, Implements, ManagerTierOnce, PTL

\* Where no statement of a tick fails and the server is not killed, the whole
\* system decides again on a bar for a fill report only, and once for each, over
\* any connections and whatever the agent and the exchange do (manager.go:178,
\* portfolio.go:79 before :103).
THEOREM PipelineRepeatsAreReported ==
  ASSUME Faults \cap {"db", "crash"} = {}
  PROVE  Spec => []BarRepeatedByReport
  <1>1. P!RepeatedByReports <=> BarRepeatedByReport
    BY DEF P!RepeatedByReports, BarRepeatedByReport, M!RepeatedByReports, P!Repeats, M!Repeats,
           P!Cardinality, M!Cardinality, P!IsFiniteSet, M!IsFiniteSet
  <1>2. QED
    BY <1>1, Implements, ManagerRepeats, PTL

\* Summed over the instances the ledger has no more BTC than the opening stacks
\* and the fills of the buys, though releases and reports save whole rows they
\* read before others wrote them (portfolio.go:103, manager.go:393).
THEOREM LedgerIsCovered == Spec => []LedgerWithinPurchases
  <1>1. Init => LedgerInv
    <2> SUFFICES ASSUME Init PROVE LedgerInv
      OBVIOUS
    <2>1. PipelineInv /\ trades = {} /\ orders = {} /\ ticks = {} /\ txs = {}
          /\ \A i \in Instances : portfolio[i] = InitRow
      BY PipelineInit DEF Init, M!Init, M!StoreInit, D!ReportInit, A!AgentInit
    <2>2. IsFiniteSet(trades) /\ IsFiniteSet(orders)
      BY <2>1, FS_EmptySet
    <2>3. \A i \in Instances : Owns(portfolio[i]) <= MayOwn(i)
      BY <2>1, <2>2, LedgerFacts, TotalType DEF MayOwn
    <2>4. QED
      BY <2>1, <2>2, <2>3 DEF LedgerInv
  <1>2. PipelineInv /\ LedgerInv /\ [Next]_vars => LedgerInv'
    BY LedgerStep
  <1>3. PipelineInv /\ LedgerInv => LedgerWithinPurchases
    BY LedgerBounded
  <1>4. QED
    BY <1>1, <1>2, <1>3, PipelineInductive, PTL DEF Spec

\* A fill is lost to a stale save only: as long as each release and each report
\* that commits finds the lots it read, an instance has in its row, or has sold,
\* all it began with and bought, over any connections, faults and amounts
\* (portfolio.go:79 before :103, manager.go:383 before :393).
THEOREM FillsLostByStaleSaves == Spec /\ [][FreshSaves]_vars => []FillsKept
  <1>1. Init => P!RealInv /\ KeptInv
    <2> SUFFICES ASSUME Init PROVE P!RealInv /\ KeptInv
      OBVIOUS
    <2>1. P!RealInv
      BY SameManager, ManagerFacts DEF Init
    <2>2. PipelineInv /\ trades = {} /\ \A i \in Instances : portfolio[i] = InitRow
      BY PipelineInit DEF Init, M!Init, M!StoreInit
    <2>3. IsFiniteSet(trades)
      BY <2>2, FS_EmptySet
    <2>4. ASSUME NEW i \in Instances, NEW a PROVE Total(i, a) = 0
      <3>1. TradedBy(i, a) = {} /\ IsFiniteSet({}) /\ Integral(QtyOf, {})
        BY <2>2, FS_EmptySet DEF TradedBy, Integral
      <3>2. QED
        BY <3>1, SumOfRules DEF Total
    <2>5. Owns(InitRow) \in Nat
      BY <2>2, <2>3, LedgerFacts
    <2>6. FillsKept
      BY <2>2, <2>4, <2>5 DEF FillsKept, MayOwn
    <2>7. QED
      BY <2>1, <2>3, <2>6 DEF KeptInv
  <1>2. PipelineInv /\ P!RealInv /\ KeptInv /\ [Next]_vars /\ [FreshSaves]_vars
          => P!RealInv' /\ KeptInv'
    <2> SUFFICES ASSUME PipelineInv, P!RealInv, KeptInv, [Next]_vars, [FreshSaves]_vars
                 PROVE  P!RealInv' /\ KeptInv'
      OBVIOUS
    <2>1. P!RealInv'
      BY Simulates, ManagerFacts, StoreFacts
    <2>2. ASSUME UNCHANGED vars PROVE KeptInv'
      <3>1. portfolio' = portfolio /\ trades' = trades
        BY <2>2 DEF vars, storeVars
      <3>2. \A i \in Instances : /\ MayOwn(i)' = MayOwn(i)
                                /\ Total(i, "SELL")' = Total(i, "SELL")
                                /\ Owns(portfolio[i])' = Owns(portfolio[i])
        BY <3>1 DEF MayOwn, Total, TradedBy, Owns
      <3>3. FillsKept'
        BY <3>2 DEF KeptInv, FillsKept
      <3>4. QED
        BY <3>1, <3>3 DEF KeptInv
    <2>3. ASSUME FreshSaves PROVE KeptInv'
      BY <2>3, KeptStep
    <2>4. QED
      BY <2>1, <2>2, <2>3
  <1>3. KeptInv => FillsKept
    BY DEF KeptInv
  <1>4. QED
    BY <1>1, <1>2, <1>3, PipelineInductive, PTL DEF Spec

\* Where nothing is released no order sells more than the float stack the
\* instance began with: fills only lower it, and a stale row of a tick or of a
\* report never raises it (step.go:104-131, portfolio.go:81-103).
THEOREM SalesWithinOpening ==
  ASSUME NoRelease
  PROVE  Spec => [](\A o \in orders : o.cmd.order.action = "SELL"
                                        => o.cmd.order.qty <= InitRow.float)
  <1>1. Init => P!RealInv /\ FloatInv
    <2> SUFFICES ASSUME Init PROVE P!RealInv /\ FloatInv
      OBVIOUS
    <2>1. P!RealInv
      BY SameManager, ManagerFacts DEF Init
    <2>2. /\ ticks = {} /\ txs = {} /\ Executions = {}
          /\ \A i \in Instances : portfolio[i] = InitRow
      BY DEF Init, M!Init, M!StoreInit, D!ReportInit, Executions
    <2>3. InitRow.float \in Nat
      BY MonthAssumption DEF PortfolioRow
    <2>4. QED
      BY <2>1, <2>2, <2>3 DEF FloatInv
  <1>2. PipelineInv /\ P!RealInv /\ FloatInv /\ [Next]_vars => P!RealInv' /\ FloatInv'
    BY FloatStep, Simulates, ManagerFacts, StoreFacts
  <1>3. PipelineInv /\ FloatInv => \A o \in orders : o.cmd.order.action = "SELL"
                                        => o.cmd.order.qty <= InitRow.float
    BY DEF PipelineInv, ExchangeInv, OrderRecorded, FloatInv, Sales, P!Sells
  <1>4. QED
    BY <1>1, <1>2, <1>3, PipelineInductive, PTL DEF Spec
=============================================================================
