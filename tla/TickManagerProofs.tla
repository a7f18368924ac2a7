-------------------------- MODULE TickManagerProofs --------------------------
(***************************************************************************)
(* Theorems about TickManager, for every set of instances, number of bars, *)
(* calendar, set of faults and content of the delta reports: its type      *)
(* invariant, at most one tick per instance, at most one order per DCA     *)
(* tier and month, the transitions of the instances' status, and that only *)
(* a report brings a bar back.                                             *)
(***************************************************************************)
EXTENDS TickManager, FiniteSetTheorems, TLAPS

-----------------------------------------------------------------------------
(* What Step may return. *)

LEMMA InMonthType ==
  ASSUME NEW rt \in RuntimeRow, NEW m \in Nat
  PROVE  /\ InMonth(rt, m) \in RuntimeRow
         /\ InMonth(rt, m).month = m
         /\ rt.month = m => InMonth(rt, m) = rt
  BY DEF InMonth, RuntimeRow, Tiers

\* A macro decision keeps the tiers already triggered in the month and adds the
\* one it buys, which was not among them.
LEMMA MacroDecision ==
  ASSUME NEW pf \in PortfolioRow, NEW rt \in RuntimeRow, NEW m \in Nat,
         NEW d \in MacroDecisions(pf, rt, m)
  PROVE  /\ d[1] \in RuntimeRow /\ d[2] \in Order
         /\ d[1].month = m
         /\ rt.month = m => rt.tiers \subseteq d[1].tiers
         /\ IsBuy(d[2]) => /\ d[2].month = m
                           /\ d[2].tier \in d[1].tiers
                           /\ rt.month = m => d[2].tier \notin rt.tiers
  <1> DEFINE base == InMonth(rt, m)
  <1>1. base \in RuntimeRow /\ base.month = m /\ (rt.month = m => base = rt)
    BY InMonthType
  <1> HIDE DEF base
  <1>2. CASE d = <<base, NoOrder>>
    BY <1>1, <1>2 DEF NoOrder, Order, IsBuy
  <1>3. ASSUME NEW k \in Tiers, k \notin base.tiers,
               d = <<[base EXCEPT !.tiers = @ \cup {k}], Buy(m, k)>>
        PROVE  /\ d[1] \in RuntimeRow /\ d[2] \in Order
               /\ d[1].month = m
               /\ base.tiers \subseteq d[1].tiers
               /\ d[2].month = m /\ d[2].tier = k /\ k \in d[1].tiers
    <2>1. d[1] = [base EXCEPT !.tiers = @ \cup {k}] /\ d[2] = Buy(m, k)
      BY <1>3
    <2>2. d[2] \in Order /\ d[2].month = m /\ d[2].tier = k
      BY <2>1 DEF Buy, Order, Tiers
    <2>3. d[1] \in RuntimeRow /\ d[1].month = m /\ d[1].tiers = base.tiers \cup {k}
      BY <2>1, <1>1 DEF RuntimeRow, Tiers
    <2>4. QED
      BY <2>2, <2>3
  <1>4. d = <<base, NoOrder>> \/ \E k \in Tiers : k \notin base.tiers
           /\ d = <<[base EXCEPT !.tiers = @ \cup {k}], Buy(m, k)>>
    BY DEF MacroDecisions, base
  <1>5. QED
    BY <1>1, <1>2, <1>3, <1>4

LEMMA MicroDecision ==
  ASSUME NEW pf \in PortfolioRow, NEW rt \in RuntimeRow,
         NEW d \in MicroDecisions(pf, rt)
  PROVE  /\ d[1] \in RuntimeRow /\ d[2] \in Order
         /\ d[1].month = rt.month /\ d[1].tiers = rt.tiers
         /\ ~ IsBuy(d[2])
  <1>1. \A q \in Nat : Sell(q) \in Order /\ ~ IsBuy(Sell(q))
    BY DEF Sell, Order, IsBuy
  <1>2. NoOrder \in Order /\ ~ IsBuy(NoOrder)
    BY DEF NoOrder, Order, IsBuy
  <1>3. pf.float \in Nat
    BY DEF PortfolioRow
  <1>4. CASE d = <<rt, NoOrder>>
    BY <1>2, <1>4
  <1>5. CASE d = <<[rt EXCEPT !.stop = TRUE], IF pf.float > 0 THEN Sell(pf.float) ELSE NoOrder>>
    <2>1. d[1] = [rt EXCEPT !.stop = TRUE] /\ d[2] \in {Sell(pf.float), NoOrder}
      BY <1>5
    <2>2. d[1] \in RuntimeRow /\ d[1].month = rt.month /\ d[1].tiers = rt.tiers
      BY <2>1 DEF RuntimeRow
    <2>3. QED
      BY <2>1, <2>2, <1>1, <1>2, <1>3
  <1>6. CASE \E q \in 1 .. pf.float : d = <<rt, Sell(q)>>
    BY <1>1, <1>3, <1>6
  <1>7. QED
    BY <1>4, <1>5, <1>6 DEF MicroDecisions

\* The months and tiers of a decision of Step, and the BUY it may come with.
SoundDecision(rt, m, d) ==
  /\ d.rt \in RuntimeRow /\ d.order \in Order /\ d.release \in Nat
  /\ d.rt.month \in {rt.month, m}
  /\ d.rt.month = rt.month => rt.tiers \subseteq d.rt.tiers
  /\ IsBuy(d.order) => /\ d.order.month = m /\ d.rt.month = m
                       /\ d.order.tier \in d.rt.tiers
                       /\ rt.month = m => d.order.tier \notin rt.tiers

LEMMA StepDecision ==
  ASSUME NEW pf \in PortfolioRow, NEW rt \in RuntimeRow, NEW m \in Nat,
         NEW d \in Step(pf, rt, m)
  PROVE  SoundDecision(rt, m, d)
  <1>1. CASE d = Decision(rt, NoOrder, 0)
    BY <1>1 DEF Decision, NoOrder, Order, IsBuy, SoundDecision
  <1>2. ASSUME NEW e \in MacroDecisions(pf, rt, m), NEW r \in Nat, d = Decision(e[1], e[2], r)
        PROVE  SoundDecision(rt, m, d)
    <2>1. d.rt = e[1] /\ d.order = e[2] /\ d.release = r
      BY <1>2 DEF Decision
    <2>2. QED
      BY <2>1, MacroDecision DEF SoundDecision
  <1>3. ASSUME NEW e \in MicroDecisions(pf, rt), NEW r \in Nat, d = Decision(e[1], e[2], r)
        PROVE  SoundDecision(rt, m, d)
    <2>1. d.rt = e[1] /\ d.order = e[2] /\ d.release = r
      BY <1>3 DEF Decision
    <2>2. QED
      BY <2>1, MicroDecision DEF SoundDecision
  <1>4. Released(pf) \in Nat
    BY TickAssumption DEF Released, PortfolioRow
  <1>5. \/ d = Decision(rt, NoOrder, 0)
        \/ \E e \in MacroDecisions(pf, rt, m) \cup MicroDecisions(pf, rt), r \in 0 .. Released(pf) :
             d = Decision(e[1], e[2], r)
    BY DEF Step
  <1>6. QED
    BY <1>1, <1>2, <1>3, <1>4, <1>5

-----------------------------------------------------------------------------
(* Type correctness. *)

LEMMA Goes ==
  ASSUME ticks \subseteq Tick, NEW t, NEW t2 \in Tick
  PROVE  Goto(t, t2) => ticks' \subseteq Tick
  BY DEF Goto

LEMMA Returns ==
  ASSUME ticks \subseteq Tick, NEW t
  PROVE  Return(t) => ticks' \subseteq Tick
  BY DEF Return

LEMMA Rows ==
  /\ EmptyRow \in PortfolioRow /\ NewRuntime \in RuntimeRow /\ NoOrder \in Order
  /\ \A i \in Instances : NewTick(i) \in Tick
  <1>1. 0 \in Bar
    BY MonthAssumption DEF Bar
  <1>2. /\ EmptyRow \in PortfolioRow /\ NewRuntime \in RuntimeRow /\ NoOrder \in Order
    BY <1>1 DEF EmptyRow, PortfolioRow, NewRuntime, RuntimeRow, NoOrder, Order, Tiers
  <1>3. QED
    BY <1>1, <1>2 DEF NewTick, Tick, Pc

LEMMA Orders ==
  ASSUME NEW t \in Tick
  PROVE  WithOrder(t) \in Tick
  BY Rows DEF WithOrder, Tick, Pc

LEMMA Decisions ==
  ASSUME NEW t \in Tick, NEW d, d.order \in Order, d.release \in Nat
  PROVE  Decided(t, d) \in Tick
  <1> DEFINE t2 == [t EXCEPT !.rt = NewRuntime, !.pf = EmptyRow,
                             !.order = d.order, !.release = d.release]
  <1>1. t2 \in Tick
    BY Rows DEF Tick
  <1>2. [t2 EXCEPT !.pc = "readrelease"] \in Tick
    BY <1>1 DEF Tick, Pc
  <1>3. WithOrder(t2) \in Tick
    BY <1>1, Orders
  <1>4. QED
    BY <1>2, <1>3 DEF Decided

LEMMA Months ==
  ASSUME NEW b \in Bar
  PROVE  MonthOf[b + 1] \in Nat
  BY MonthAssumption DEF Bar

\* What handleRelease saves is a row, of the last bar it read.
LEMMA ReleaseRows ==
  ASSUME TypeOK, NEW t \in ticks
  PROVE  /\ WithReleased(t) \in [Instances -> PortfolioRow]
         /\ \E row \in PortfolioRow : /\ row.last = t.pf.last
                                      /\ WithReleased(t) = [portfolio EXCEPT ![t.inst] = row]
  <1> DEFINE qty == IF t.release > t.pf.dead THEN t.pf.dead ELSE t.release
  <1>1. t.pf \in PortfolioRow /\ t.release \in Nat /\ portfolio \in [Instances -> PortfolioRow]
    BY DEF TypeOK, StoreTypeOK, Tick
  <1>2. t.pf.dead \in Nat /\ t.pf.float \in Nat
    BY <1>1 DEF PortfolioRow
  <1>3. t.pf.dead - qty \in Nat /\ t.pf.float + qty \in Nat
    BY <1>1, <1>2
  <1> HIDE DEF qty
  <1>4. PICK row : row = [t.pf EXCEPT !.dead = @ - qty, !.float = @ + qty]
    OBVIOUS
  <1>5. row \in PortfolioRow /\ row.last = t.pf.last
    BY <1>1, <1>3, <1>4 DEF PortfolioRow
  <1>6. WithReleased(t) = [portfolio EXCEPT ![t.inst] = row]
    BY <1>4 DEF WithReleased, qty
  <1>7. QED
    BY <1>1, <1>5, <1>6

LEMMA Failures ==
  ASSUME TypeOK, NEW t \in ticks, Fail(t)
  PROVE  ticks' \subseteq Tick /\ status' \in [Instances -> Status]
  <1>1. ticks \subseteq Tick /\ status \in [Instances -> Status] /\ t.inst \in Instances
    BY DEF TypeOK, StoreTypeOK, Tick
  <1>2. \A s \in Marked(t.inst) : s \in [Instances -> Status]
    BY <1>1 DEF Marked, Status
  <1>3. QED
    BY <1>1, <1>2, Returns DEF Fail

LEMMA Settlement ==
  ASSUME NEW rows \in [Instances -> PortfolioRow], NEW bal \in SUBSET Nat
  PROVE  WithBalances(rows, bal) \in [Instances -> PortfolioRow]
  <1> SUFFICES ASSUME NEW i \in Instances, bal # {}
               PROVE  [rows[i] EXCEPT !.usdt = CHOOSE u \in bal : TRUE] \in PortfolioRow
    BY DEF WithBalances
  <1>1. (CHOOSE u \in bal : TRUE) \in Nat
    OBVIOUS
  <1>2. QED
    BY <1>1 DEF PortfolioRow

LEMMA UserType ==
  ASSUME TypeOK, NEW i \in Instances, User(i)
  PROVE  TypeOK'
  BY DEF TypeOK, StoreTypeOK, User, Start, Stop, Delete, Status, tickVars

LEMMA TickStepType ==
  ASSUME TypeOK, NEW t \in ticks, TickStep(t)
  PROVE  TypeOK'
  <1>1. /\ ticks \subseteq Tick /\ t \in Tick /\ t.inst \in Instances /\ t.bar \in Bar
        /\ t.pf \in PortfolioRow /\ t.rt \in RuntimeRow /\ t.order \in Order /\ t.release \in Nat
        /\ portfolio[t.inst] \in PortfolioRow /\ runtime[t.inst] \in RuntimeRow
        /\ clock \in Bar
    BY MonthAssumption DEF TypeOK, StoreTypeOK, Tick, Bar
  <1>2. CASE Fetch(t)
    <2>1. [t EXCEPT !.pc = "load", !.bar = clock] \in Tick
      BY <1>1 DEF Tick, Pc
    <2>2. ticks' \subseteq Tick
      BY <1>1, <1>2, <2>1, Goes, Returns DEF Fetch
    <2>3. QED
      BY <1>2, <2>2 DEF Fetch, TypeOK, StoreTypeOK, storeVars
  <1>3. CASE Load(t)
    <2> DEFINE row == [portfolio[t.inst] EXCEPT !.row = TRUE]
    <2>1. row \in PortfolioRow
      BY <1>1 DEF PortfolioRow
    <2>2. [t EXCEPT !.pc = "step", !.pf = row, !.rt = runtime[t.inst]] \in Tick
      BY <1>1, <2>1 DEF Tick, Pc
    <2>3. ticks' \subseteq Tick
      BY <1>1, <1>3, <2>2, Goes, Returns DEF Load
    <2>4. portfolio' \in [Instances -> PortfolioRow]
      BY <1>1, <1>3, <2>1 DEF Load, TypeOK, StoreTypeOK
    <2>5. QED
      BY <1>3, <2>3, <2>4 DEF Load, TypeOK, StoreTypeOK
  <1>4. CASE Decide(t)
    <2>1. PICK d \in Step(t.pf, t.rt, MonthOf[t.bar + 1]) :
            /\ runtime' = [runtime EXCEPT ![t.inst] = d.rt]
            /\ Goto(t, Decided(t, d))
      BY <1>4 DEF Decide
    <2>2. d.rt \in RuntimeRow /\ d.order \in Order /\ d.release \in Nat
      BY <1>1, Months, StepDecision DEF SoundDecision
    <2>3. ticks' \subseteq Tick
      BY <1>1, <2>1, <2>2, Decisions, Goes
    <2>4. runtime' \in [Instances -> RuntimeRow]
      BY <2>1, <2>2 DEF TypeOK, StoreTypeOK
    <2>5. stepped' \in [Instances -> Seq(Bar)]
      BY <1>1, <1>4 DEF Decide, Calls, TypeOK
    <2>6. QED
      BY <1>4, <2>3, <2>4, <2>5 DEF Decide, TypeOK, StoreTypeOK
  <1>5. CASE ReadRelease(t)
    <2>1. [t EXCEPT !.pc = "saverelease", !.pf = portfolio[t.inst]] \in Tick
      BY <1>1 DEF Tick, Pc
    <2>2. ticks' \subseteq Tick
      BY <1>1, <1>5, <2>1, Goes DEF ReadRelease
    <2>3. QED
      BY <1>5, <2>2 DEF ReadRelease, TypeOK, StoreTypeOK, storeVars
  <1>6. CASE SaveRelease(t)
    <2>1. ticks' \subseteq Tick
      BY <1>1, <1>6, Orders, Goes DEF SaveRelease
    <2>2. portfolio' \in [Instances -> PortfolioRow]
      BY <1>1, <1>6, ReleaseRows DEF SaveRelease
    <2>3. QED
      BY <1>6, <2>1, <2>2 DEF SaveRelease, TypeOK, StoreTypeOK
  <1>7. CASE Dispatch(t)
    <2>1. [t EXCEPT !.pc = "send"] \in Tick
      BY <1>1 DEF Tick, Pc
    <2>2. ticks' \subseteq Tick
      BY <1>1, <1>7, <2>1, Goes DEF Dispatch
    <2>3. CommandOf(t) \in Command
      BY <1>1 DEF CommandOf, Command, TypeOK
    <2>4. QED
      BY <1>7, <2>2, <2>3 DEF Dispatch, TypeOK, StoreTypeOK
  <1>8. CASE Send(t)
    <2>1. [t EXCEPT !.pc = "advance", !.order = NoOrder] \in Tick
      BY <1>1, Rows DEF Tick, Pc
    <2>2. ticks' \subseteq Tick
      BY <1>1, <1>8, <2>1, Goes DEF Send
    <2>3. QED
      BY <1>8, <2>2 DEF Send, TypeOK, StoreTypeOK, storeVars
  <1>9. CASE Advance(t)
    <2>1. portfolio' \in [Instances -> PortfolioRow]
      BY <1>1, <1>9 DEF Advance, TypeOK, StoreTypeOK, PortfolioRow
    <2>2. QED
      BY <1>1, <1>9, <2>1, Returns DEF Advance, TypeOK, StoreTypeOK
  <1>10. QED
    BY <1>2, <1>3, <1>4, <1>5, <1>6, <1>7, <1>8, <1>9 DEF TickStep

LEMMA TickFaultType ==
  ASSUME TypeOK, NEW t \in ticks, TickFault(t)
  PROVE  TypeOK'
  <1>1. /\ ticks \subseteq Tick /\ t \in Tick /\ t.inst \in Instances /\ t.bar \in Bar
        /\ t.pf \in PortfolioRow /\ t.rt \in RuntimeRow /\ t.order \in Order
        /\ portfolio[t.inst] \in PortfolioRow
    BY DEF TypeOK, StoreTypeOK, Tick
  <1>2. CASE LoadFails(t)
    <2>1. portfolio' \in [Instances -> PortfolioRow]
      <3>1. [portfolio[t.inst] EXCEPT !.row = TRUE] \in PortfolioRow
        BY <1>1 DEF PortfolioRow
      <3>2. QED
        BY <1>1, <1>2, <3>1 DEF LoadFails, TypeOK, StoreTypeOK
    <2>2. ticks' \subseteq Tick /\ status' \in [Instances -> Status]
      BY <1>2, Failures DEF LoadFails
    <2>3. QED
      BY <1>2, <2>1, <2>2 DEF LoadFails, Fail, TypeOK, StoreTypeOK
  <1>3. CASE DecideFails(t)
    <2>1. PICK d \in Step(t.pf, t.rt, MonthOf[t.bar + 1]) :
            runtime' \in {runtime, [runtime EXCEPT ![t.inst] = d.rt]}
      BY <1>3 DEF DecideFails
    <2>2. d.rt \in RuntimeRow
      BY <1>1, Months, StepDecision DEF SoundDecision
    <2>3. runtime' \in [Instances -> RuntimeRow]
      BY <2>1, <2>2 DEF TypeOK, StoreTypeOK
    <2>4. stepped' \in [Instances -> Seq(Bar)]
      BY <1>1, <1>3 DEF DecideFails, Calls, TypeOK
    <2>5. ticks' \subseteq Tick /\ status' \in [Instances -> Status]
      BY <1>3, Failures DEF DecideFails
    <2>6. QED
      BY <1>3, <2>3, <2>4, <2>5 DEF DecideFails, Fail, TypeOK, StoreTypeOK
  <1>4. CASE ReleaseFails(t)
    <2>1. ticks' \subseteq Tick
      BY <1>1, <1>4, Orders, Goes DEF ReleaseFails
    <2>2. portfolio' \in [Instances -> PortfolioRow]
      BY <1>1, <1>4, ReleaseRows DEF ReleaseFails, TypeOK, StoreTypeOK
    <2>3. QED
      BY <1>4, <2>1, <2>2 DEF ReleaseFails, TypeOK, StoreTypeOK
  <1>5. CASE DispatchFails(t)
    <2>1. [t EXCEPT !.pc = "advance", !.order = NoOrder] \in Tick
      BY <1>1, Rows DEF Tick, Pc
    <2>2. ticks' \subseteq Tick
      BY <1>1, <1>5, <2>1, Goes DEF DispatchFails
    <2>3. CommandOf(t) \in Command
      BY <1>1 DEF CommandOf, Command, TypeOK
    <2>4. QED
      BY <1>5, <2>2, <2>3 DEF DispatchFails, TypeOK, StoreTypeOK
  <1>6. CASE AdvanceFails(t)
    <2>1. portfolio' \in [Instances -> PortfolioRow]
      <3>1. [portfolio[t.inst] EXCEPT !.last = t.bar] \in PortfolioRow
        BY <1>1 DEF PortfolioRow
      <3>2. QED
        BY <1>1, <1>6, <3>1 DEF AdvanceFails, TypeOK, StoreTypeOK
    <2>2. ticks' \subseteq Tick /\ status' \in [Instances -> Status]
      BY <1>6, Failures DEF AdvanceFails
    <2>3. QED
      BY <1>6, <2>1, <2>2 DEF AdvanceFails, Fail, TypeOK, StoreTypeOK
  <1>7. QED
    BY <1>2, <1>3, <1>4, <1>5, <1>6 DEF TickFault

LEMMA ReportType ==
  ASSUME TypeOK, ReportCommits
  PROVE  TypeOK'
  <1>1. PICK bal \in {{}} \cup {{u} : u \in ReportUsdt} :
    \/ /\ portfolio' = WithBalances(portfolio, bal)
       /\ UNCHANGED <<status, runtime, pending, filled, trades, tickVars>>
    \/ \E c \in pending, row \in ReportRows, qty \in ReportQty :
         /\ row.row /\ row.last <= clock
         /\ portfolio' = WithBalances([portfolio EXCEPT ![c.inst] = row], bal)
         /\ pending' = pending \ {c}
         /\ filled' = filled \cup {c}
         /\ trades' = trades \cup {[cmd |-> c, qty |-> qty]}
         /\ UNCHANGED <<status, runtime, tickVars>>
    BY DEF ReportCommits
  <1>2. bal \in SUBSET Nat
    BY TickAssumption
  <1>3. CASE /\ portfolio' = WithBalances(portfolio, bal)
             /\ UNCHANGED <<status, runtime, pending, filled, trades, tickVars>>
    BY <1>2, <1>3, Settlement DEF TypeOK, StoreTypeOK, tickVars
  <1>4. ASSUME NEW c \in pending, NEW row \in ReportRows, NEW qty \in ReportQty,
               portfolio' = WithBalances([portfolio EXCEPT ![c.inst] = row], bal),
               pending' = pending \ {c},
               filled' = filled \cup {c},
               trades' = trades \cup {[cmd |-> c, qty |-> qty]},
               UNCHANGED <<status, runtime, tickVars>>
        PROVE  TypeOK'
    <2>1. [portfolio EXCEPT ![c.inst] = row] \in [Instances -> PortfolioRow]
      BY TickAssumption DEF TypeOK, StoreTypeOK
    <2>2. portfolio' \in [Instances -> PortfolioRow]
      BY <1>2, <1>4, <2>1, Settlement
    <2>3. [cmd |-> c, qty |-> qty] \in Trade
      BY TickAssumption DEF Trade, TypeOK, StoreTypeOK
    <2>4. QED
      BY <1>4, <2>2, <2>3 DEF TypeOK, StoreTypeOK, tickVars
  <1>5. QED
    BY <1>1, <1>3, <1>4

LEMMA TypeStep ==
  ASSUME TypeOK, [Next]_vars
  PROVE  TypeOK'
  <1>1. CASE \E i \in Instances : User(i)
    BY <1>1, UserType
  <1>2. CASE Scan
    <2>1. ticks' \subseteq Tick
      BY <1>2, Rows DEF Scan
    <2>2. QED
      BY <1>2, <2>1 DEF Scan, TypeOK, StoreTypeOK, storeVars
  <1>3. CASE \E t \in ticks : TickStep(t) \/ TickFault(t)
    BY <1>3, TickStepType, TickFaultType
  <1>4. CASE Crash
    BY <1>4 DEF Crash, TypeOK, StoreTypeOK, storeVars
  <1>5. CASE NewBar
    BY <1>5, MonthAssumption DEF NewBar, TypeOK, StoreTypeOK, storeVars
  <1>6. CASE ReportCommits
    BY <1>6, ReportType
  <1>7. CASE UNCHANGED vars
    BY <1>7 DEF vars, tickVars, TypeOK, StoreTypeOK, storeVars
  <1>8. QED
    BY <1>1, <1>2, <1>3, <1>4, <1>5, <1>6, <1>7 DEF Next

LEMMA TypeInit == Init => TypeOK
  <1> SUFFICES ASSUME Init PROVE TypeOK
    OBVIOUS
  <1>1. StoreTypeOK
    BY Rows, MonthAssumption DEF Init, StoreInit, StoreTypeOK, Status
  <1>2. clock \in 1 .. MaxBar /\ ticks \subseteq Tick
    BY MonthAssumption, TickAssumption DEF Init
  <1>3. stepped \in [Instances -> Seq(Bar)]
    BY DEF Init
  <1>4. QED
    BY <1>1, <1>2, <1>3 DEF TypeOK

\* The tables and the goroutines of the ticks keep their types, under every
\* fault and whatever the delta reports write (manager.go, scheduler.go).
THEOREM TypeCorrect == Spec => []TypeOK
  <1>1. Init => TypeOK
    BY TypeInit
  <1>2. TypeOK /\ [Next]_vars => TypeOK'
    BY TypeStep
  <1>3. QED
    BY <1>1, <1>2, PTL DEF Spec

-----------------------------------------------------------------------------
(* At most one tick per instance. *)

\* A tick either returns or goes on for the same instance.
LEMMA TickMoves ==
  ASSUME TypeOK, NEW t \in ticks, TickStep(t) \/ TickFault(t)
  PROVE  Return(t) \/ \E t2 : t2.inst = t.inst /\ Goto(t, t2)
  <1>1. t \in Tick
    BY DEF TypeOK
  <1>2. WithOrder(t).inst = t.inst
    BY <1>1 DEF WithOrder, Tick
  <1>3. \A d : Decided(t, d).inst = t.inst
    BY <1>1 DEF Decided, WithOrder, Tick
  <1>5. CASE Fetch(t)
    <2>1. [t EXCEPT !.pc = "load", !.bar = clock].inst = t.inst
      BY <1>1 DEF Tick
    <2>2. QED
      BY <1>5, <2>1 DEF Fetch
  <1>6. CASE Load(t)
    <2>1. \A row : [t EXCEPT !.pc = "step", !.pf = row, !.rt = runtime[t.inst]].inst = t.inst
      BY <1>1 DEF Tick
    <2>2. QED
      BY <1>6, <2>1 DEF Load
  <1>7. CASE Decide(t)
    BY <1>3, <1>7 DEF Decide
  <1>8. CASE ReadRelease(t)
    <2>1. [t EXCEPT !.pc = "saverelease", !.pf = portfolio[t.inst]].inst = t.inst
      BY <1>1 DEF Tick
    <2>2. QED
      BY <1>8, <2>1 DEF ReadRelease
  <1>9. CASE SaveRelease(t) \/ ReleaseFails(t)
    BY <1>2, <1>9 DEF SaveRelease, ReleaseFails
  <1>10. CASE Dispatch(t)
    <2>1. [t EXCEPT !.pc = "send"].inst = t.inst
      BY <1>1 DEF Tick
    <2>2. QED
      BY <1>10, <2>1 DEF Dispatch
  <1>11. CASE Send(t) \/ DispatchFails(t)
    <2>1. [t EXCEPT !.pc = "advance", !.order = NoOrder].inst = t.inst
      BY <1>1 DEF Tick
    <2>2. QED
      BY <1>11, <2>1 DEF Send, DispatchFails
  <1>12. CASE Advance(t) \/ LoadFails(t) \/ DecideFails(t) \/ AdvanceFails(t)
    BY <1>12 DEF Advance, LoadFails, DecideFails, AdvanceFails, Fail
  <1>13. QED
    BY <1>5, <1>6, <1>7, <1>8, <1>9, <1>10, <1>11, <1>12 DEF TickStep, TickFault

LEMMA OneTickStep ==
  ASSUME TypeOK, OneTickPerInstance, [Next]_vars
  PROVE  OneTickPerInstance'
  <1>1. CASE Scan
    <2>1. \A i \in Instances : NewTick(i).inst = i
      BY DEF NewTick
    <2>2. QED
      BY <1>1, <2>1 DEF Scan, OneTickPerInstance
  <1>2. ASSUME NEW t \in ticks, TickStep(t) \/ TickFault(t)
        PROVE  OneTickPerInstance'
    <2>1. CASE Return(t)
      BY <2>1 DEF Return, OneTickPerInstance
    <2>2. ASSUME NEW t2, t2.inst = t.inst, Goto(t, t2)
          PROVE  OneTickPerInstance'
      BY <2>2 DEF Goto, OneTickPerInstance
    <2>3. QED
      BY <1>2, <2>1, <2>2, TickMoves
  <1>3. CASE Crash
    BY <1>3 DEF Crash, OneTickPerInstance
  <1>4. CASE ticks' = ticks
    BY <1>4 DEF OneTickPerInstance
  <1>5. (\E i \in Instances : User(i)) \/ NewBar \/ ReportCommits \/ UNCHANGED vars => ticks' = ticks
    BY DEF User, Start, Stop, Delete, NewBar, ReportCommits, tickVars, vars
  <1>6. QED
    BY <1>1, <1>2, <1>3, <1>4, <1>5 DEF Next

\* No two ticks of one instance ever run at once: the scheduler waits for the
\* last tick of a scan before the next (scheduler.go:98).
THEOREM OneTick == Spec => []OneTickPerInstance
  <1>1. Init => OneTickPerInstance
    BY DEF Init, OneTickPerInstance
  <1>2. TypeOK /\ OneTickPerInstance /\ [Next]_vars => OneTickPerInstance'
    BY OneTickStep
  <1>3. QED
    BY <1>1, <1>2, TypeCorrect, PTL DEF Spec

-----------------------------------------------------------------------------
(* At most one order per tier and month.  The inductive invariant: *)

IInv == TypeOK /\ OneTickPerInstance /\ TierInv /\ TierOncePerMonth

LEMMA TypeFacts ==
  ASSUME TypeOK
  PROVE  /\ clock \in Nat /\ clock + 1 \in 1 .. MaxBar + 1
         /\ \A i \in Instances : runtime[i] \in RuntimeRow /\ runtime[i].month \in Nat
         /\ \A t \in ticks :
              /\ t \in Tick /\ t.inst \in Instances /\ t.pf \in PortfolioRow
              /\ t.bar \in Bar /\ t.bar \in Nat /\ t.bar + 1 \in 1 .. MaxBar + 1
              /\ MonthOf[t.bar + 1] \in Nat
              /\ t.rt \in RuntimeRow /\ t.order \in Order
         /\ Executions \subseteq Command
         /\ \A c \in Executions : c.inst \in Instances /\ c.order.month \in Nat
  <1>1. clock \in Nat /\ clock + 1 \in 1 .. MaxBar + 1
    BY MonthAssumption DEF TypeOK
  <1>2. \A i \in Instances : runtime[i] \in RuntimeRow /\ runtime[i].month \in Nat
    BY DEF TypeOK, StoreTypeOK, RuntimeRow
  <1>3. \A b \in Bar : b \in Nat /\ b + 1 \in 1 .. MaxBar + 1
    BY MonthAssumption DEF Bar
  <1>4. \A t \in ticks :
              /\ t \in Tick /\ t.inst \in Instances /\ t.pf \in PortfolioRow
              /\ t.bar \in Bar /\ t.rt \in RuntimeRow /\ t.order \in Order
    BY DEF TypeOK, Tick
  <1>5. Executions \subseteq Command
    BY DEF TypeOK, StoreTypeOK, Executions
  <1>6. \A c \in Command : c.inst \in Instances /\ c.order.month \in Nat
    BY DEF Command, Order
  <1>7. QED
    BY <1>1, <1>2, <1>3, <1>4, <1>5, <1>6, Months

LEMMA MonthsGrow ==
  ASSUME NEW a \in Nat, NEW b \in Nat, a <= b, a + 1 \in 1 .. MaxBar + 1, b + 1 \in 1 .. MaxBar + 1
  PROVE  /\ MonthOf[a + 1] \in Nat /\ MonthOf[b + 1] \in Nat
         /\ MonthOf[a + 1] <= MonthOf[b + 1]
  BY MonthAssumption

LEMMA CalendarGrows ==
  ASSUME NEW a \in 1 .. MaxBar, NEW b \in 1 .. MaxBar, a <= b
  PROVE  /\ MonthOf[a + 1] \in Nat /\ MonthOf[b + 1] \in Nat
         /\ MonthOf[a + 1] <= MonthOf[b + 1]
  <1>1. a + 1 \in 1 .. MaxBar + 1 /\ b + 1 \in 1 .. MaxBar + 1 /\ a + 1 <= b + 1
    BY MonthAssumption
  <1>2. QED
    BY <1>1, MonthAssumption

\* What leaves a tick sound: its runtime row and the executions of its instance
\* stand as they were, and the clock does not run backwards.
LEMMA StaysSound ==
  ASSUME TypeOK, TypeOK', NEW u \in ticks, SoundTick(u), clock <= clock',
         runtime'[u.inst] = runtime[u.inst],
         \A c \in Executions' : c \in Executions \/ c.inst # u.inst
  PROVE  SoundTick(u)'
  <1>1. u.bar \in Nat /\ clock \in Nat /\ clock' \in Nat
    BY TypeFacts DEF TypeOK
  <1>2. u.bar <= clock'
    BY <1>1 DEF SoundTick
  <1>3. NewBuy(u.inst, u.order) => NewBuy(u.inst, u.order)'
    BY DEF NewBuy
  <1>4. QED
    BY <1>2, <1>3 DEF SoundTick

\* The rows and the executions stand, and at most some ticks end.
LEMMA InvStands ==
  ASSUME IInv, TypeOK', runtime' = runtime, Executions' = Executions,
         ticks' \subseteq ticks, clock <= clock'
  PROVE  TierInv' /\ TierOncePerMonth'
  <1>1. MonthNotAhead'
    <2>1. TypeOK
      BY DEF IInv
    <2>2. MonthOf[clock + 1] \in Nat /\ MonthOf[clock' + 1] \in Nat
          /\ MonthOf[clock + 1] <= MonthOf[clock' + 1]
      <3>1. clock \in 1 .. MaxBar /\ clock' \in 1 .. MaxBar
        BY <2>1 DEF TypeOK
      <3>2. QED
        BY <3>1, CalendarGrows
    <2>3. ASSUME NEW i \in Instances PROVE runtime[i].month <= MonthOf[clock' + 1]
      <3>1. runtime[i].month \in Nat /\ runtime[i].month <= MonthOf[clock + 1]
        BY <2>1, TypeFacts DEF IInv, TierInv, MonthNotAhead
      <3>2. QED
        BY <2>2, <3>1
    <2>4. QED
      BY <2>3 DEF MonthNotAhead
  <1>2. BuysAreMarked'
    BY DEF IInv, TierInv, BuysAreMarked
  <1>3. ASSUME NEW u \in ticks' PROVE SoundTick(u)'
    BY StaysSound DEF IInv, TierInv
  <1>4. TierOncePerMonth'
    BY DEF IInv, TierOncePerMonth
  <1>5. QED
    BY <1>1, <1>2, <1>3, <1>4 DEF TierInv

\* A tick goes on, and nothing else that TierInv speaks of changes.
LEMMA InvMoves ==
  ASSUME IInv, TypeOK', runtime' = runtime, Executions' = Executions, clock' = clock,
         NEW t \in ticks, NEW t2, Goto(t, t2), SoundTick(t2)
  PROVE  TierInv' /\ TierOncePerMonth'
  <1>1. MonthNotAhead' /\ BuysAreMarked'
    BY DEF IInv, TierInv, MonthNotAhead, BuysAreMarked
  <1>2. ASSUME NEW u PROVE SoundTick(u) => SoundTick(u)'
    BY DEF SoundTick, NewBuy
  <1>3. \A u \in ticks' : SoundTick(u)'
    BY <1>2 DEF Goto, IInv, TierInv
  <1>4. TierOncePerMonth'
    BY DEF IInv, TierOncePerMonth
  <1>5. QED
    BY <1>1, <1>3, <1>4 DEF TierInv

\* Step 7: the runtime row a tick persists after it called Step.
LEMMA InvDecides ==
  ASSUME IInv, TypeOK', Executions' = Executions, clock' = clock,
         NEW t \in ticks, t.pc = "step", NEW d \in Step(t.pf, t.rt, MonthOf[t.bar + 1]),
         runtime' = [runtime EXCEPT ![t.inst] = d.rt]
  PROVE  /\ MonthNotAhead' /\ BuysAreMarked' /\ TierOncePerMonth'
         /\ IsBuy(d.order) => NewBuy(t.inst, d.order)'
         /\ \A u \in ticks \ {t} : SoundTick(u)'
  <1> DEFINE i == t.inst  m == MonthOf[t.bar + 1]
  <1>1. /\ TypeOK /\ OneTickPerInstance /\ MonthNotAhead /\ BuysAreMarked
        /\ \A u \in ticks : SoundTick(u)
        /\ TierOncePerMonth
    BY DEF IInv, TierInv
  <1>2. /\ i \in Instances /\ m \in Nat /\ runtime[i] \in RuntimeRow /\ runtime[i].month \in Nat
        /\ t.pf \in PortfolioRow /\ t.rt \in RuntimeRow
        /\ \A j \in Instances : runtime[j].month \in Nat
        /\ \A c \in Executions : c.inst \in Instances /\ c.order.month \in Nat
    BY <1>1, TypeFacts
  <1>3. t.rt = runtime[i] /\ runtime[i].month <= m /\ t.bar <= clock
    BY <1>1 DEF SoundTick
  <1>4. SoundDecision(runtime[i], m, d)
    BY <1>2, <1>3, StepDecision
  <1>5. /\ runtime'[i] = d.rt
        /\ \A j \in Instances : j # i => runtime'[j] = runtime[j]
    BY <1>1, <1>2 DEF TypeOK, StoreTypeOK
  <1>6. d.rt.month \in Nat /\ runtime[i].month <= d.rt.month
    BY <1>2, <1>3, <1>4 DEF SoundDecision
  <1>7. MonthNotAhead'
    <2>1. m <= MonthOf[clock + 1] /\ MonthOf[clock + 1] \in Nat
      BY <1>1, <1>3, TypeFacts, MonthsGrow
    <2>2. d.rt.month <= MonthOf[clock + 1]
      BY <1>1, <1>2, <1>4, <2>1 DEF SoundDecision, MonthNotAhead
    <2>3. QED
      BY <1>1, <1>5, <2>2 DEF MonthNotAhead
  <1>8. BuysAreMarked'
    <2> SUFFICES ASSUME NEW c \in Executions, IsBuy(c.order)
                 PROVE  \/ c.order.month < runtime'[c.inst].month
                        \/ /\ c.order.month = runtime'[c.inst].month
                           /\ c.order.tier \in runtime'[c.inst].tiers
      BY DEF BuysAreMarked
    <2>1. CASE c.inst # i
      BY <1>1, <1>2, <1>5, <2>1 DEF BuysAreMarked
    <2>2. CASE c.inst = i
      <3>1. CASE c.order.month < runtime[i].month
        BY <1>2, <1>5, <1>6, <2>2, <3>1
      <3>2. CASE c.order.month = runtime[i].month /\ c.order.tier \in runtime[i].tiers
        BY <1>2, <1>4, <1>5, <1>6, <2>2, <3>2 DEF SoundDecision
      <3>3. QED
        BY <1>1, <2>2, <3>1, <3>2 DEF BuysAreMarked
    <2>3. QED
      BY <2>1, <2>2
  <1>9. ASSUME IsBuy(d.order)
        PROVE  NewBuy(i, d.order)'
    <2>1. d.order.month = m /\ d.rt.month = m /\ d.order.tier \in d.rt.tiers
      BY <1>4, <1>9 DEF SoundDecision
    <2>2. ASSUME NEW c \in Executions, IsBuy(c.order), c.inst = i, c.order.month = m
          PROVE  c.order.tier # d.order.tier
      BY <1>1, <1>2, <1>3, <1>4, <1>9, <2>2 DEF BuysAreMarked, SoundDecision
    <2>3. QED
      BY <1>5, <2>1, <2>2 DEF NewBuy
  <1>10. ASSUME NEW u \in ticks \ {t}
         PROVE  SoundTick(u)'
    <2>1. u.inst # i /\ u.inst \in Instances
      BY <1>1, TypeFacts DEF OneTickPerInstance
    <2>2. clock <= clock'
      BY <1>1, TypeFacts
    <2>3. QED
      BY <1>1, <1>5, <2>1, <2>2, StaysSound
  <1>11. TierOncePerMonth'
    BY <1>1 DEF TierOncePerMonth
  <1>12. QED
    BY <1>7, <1>8, <1>9, <1>10, <1>11

\* Step 9: the execution a tick records.
LEMMA InvRecords ==
  ASSUME IInv, TypeOK', NEW t \in ticks, t.pc = "dispatch",
         pending' = pending \cup {CommandOf(t)}, filled' = filled,
         runtime' = runtime, clock' = clock,
         NEW t2, Goto(t, t2), t2.pc \in {"send", "advance"}, t2.bar = t.bar
  PROVE  TierInv' /\ TierOncePerMonth'
  <1> DEFINE cmd == CommandOf(t)
  <1>1. /\ TypeOK /\ OneTickPerInstance /\ MonthNotAhead /\ BuysAreMarked
        /\ \A u \in ticks : SoundTick(u)
        /\ TierOncePerMonth
    BY DEF IInv, TierInv
  <1>2. Executions' = Executions \cup {cmd}
    BY DEF Executions
  <1>3. cmd.inst = t.inst /\ cmd.order = t.order
    BY DEF CommandOf
  <1> HIDE DEF cmd
  <1>4. IsBuy(cmd.order) => NewBuy(t.inst, t.order)
    BY <1>1, <1>3 DEF SoundTick
  <1>5. MonthNotAhead'
    BY <1>1 DEF MonthNotAhead
  <1>6. BuysAreMarked'
    BY <1>1, <1>2, <1>3, <1>4 DEF BuysAreMarked, NewBuy
  <1>7. TierOncePerMonth'
    BY <1>1, <1>2, <1>3, <1>4 DEF TierOncePerMonth, NewBuy, IsBuy
  <1>8. ASSUME NEW u \in ticks \ {t}
        PROVE  SoundTick(u)'
    <2>1. u.inst # t.inst
      BY <1>1 DEF OneTickPerInstance
    <2>2. clock <= clock'
      BY <1>1, TypeFacts
    <2>3. QED
      BY <1>1, <1>2, <1>3, <2>1, <2>2, StaysSound
  <1>9. SoundTick(t2)'
    BY <1>1 DEF SoundTick
  <1>10. QED
    BY <1>5, <1>6, <1>7, <1>8, <1>9 DEF TierInv, Goto

LEMMA TierTickStep ==
  ASSUME IInv, TypeOK', NEW t \in ticks, TickStep(t)
  PROVE  TierInv' /\ TierOncePerMonth'
  <1>1. /\ TypeOK /\ OneTickPerInstance /\ MonthNotAhead /\ SoundTick(t)
        /\ t \in Tick /\ t.inst \in Instances /\ clock \in Nat /\ clock <= clock
    BY TypeFacts DEF IInv, TierInv
  <1>2. ASSUME pending' = pending, filled' = filled
        PROVE  Executions' = Executions
    BY <1>2 DEF Executions
  <1>3. ASSUME Return(t)
        PROVE  ticks' \subseteq ticks
    BY <1>3 DEF Return
  <1>4. CASE Fetch(t)
    <2> DEFINE t2 == [t EXCEPT !.pc = "load", !.bar = clock]
    <2>1. t2.pc = "load" /\ t2.bar = clock /\ t2.inst = t.inst /\ t2.order = t.order
      BY <1>1 DEF Tick
    <2>2. SoundTick(t2)
      BY <1>1, <2>1 DEF SoundTick, MonthNotAhead
    <2>3. /\ runtime' = runtime /\ Executions' = Executions /\ clock' = clock
          /\ Goto(t, t2) \/ Return(t)
      BY <1>2, <1>4 DEF Fetch, storeVars
    <2>4. QED
      BY <1>1, <1>3, <2>2, <2>3, InvMoves, InvStands
  <1>5. CASE Load(t)
    <2> DEFINE row == [portfolio[t.inst] EXCEPT !.row = TRUE]
               t2  == [t EXCEPT !.pc = "step", !.pf = row, !.rt = runtime[t.inst]]
    <2>1. t2.pc = "step" /\ t2.bar = t.bar /\ t2.inst = t.inst /\ t2.rt = runtime[t.inst]
      BY <1>1 DEF Tick
    <2>2. SoundTick(t2)
      BY <1>1, <1>5, <2>1 DEF SoundTick, Load
    <2>3. /\ runtime' = runtime /\ Executions' = Executions /\ clock' = clock
          /\ Goto(t, t2) \/ Return(t)
      BY <1>2, <1>5 DEF Load
    <2>4. QED
      BY <1>1, <1>3, <2>2, <2>3, InvMoves, InvStands
  <1>6. CASE Decide(t)
    <2>1. PICK d \in Step(t.pf, t.rt, MonthOf[t.bar + 1]) :
            /\ runtime' = [runtime EXCEPT ![t.inst] = d.rt]
            /\ Goto(t, Decided(t, d))
      BY <1>6 DEF Decide
    <2>2. t.pc = "step" /\ Executions' = Executions /\ clock' = clock
      BY <1>2, <1>6 DEF Decide, Calls
    <2>3. /\ MonthNotAhead' /\ BuysAreMarked' /\ TierOncePerMonth'
          /\ IsBuy(d.order) => NewBuy(t.inst, d.order)'
          /\ \A u \in ticks \ {t} : SoundTick(u)'
      BY <2>1, <2>2, InvDecides
    <2>4. /\ Decided(t, d).pc \in {"readrelease", "dispatch", "advance"}
          /\ Decided(t, d).bar = t.bar /\ Decided(t, d).inst = t.inst
          /\ Decided(t, d).order = d.order
      BY <1>1 DEF Decided, WithOrder, Tick
    <2>5. SoundTick(Decided(t, d))'
      BY <1>1, <2>2, <2>3, <2>4 DEF SoundTick
    <2>6. QED
      BY <2>1, <2>3, <2>5 DEF TierInv, Goto
  <1>7. CASE ReadRelease(t)
    <2> DEFINE t2 == [t EXCEPT !.pc = "saverelease", !.pf = portfolio[t.inst]]
    <2>1. t2.pc = "saverelease" /\ t2.bar = t.bar /\ t2.inst = t.inst /\ t2.order = t.order
      BY <1>1 DEF Tick
    <2>2. SoundTick(t2)
      BY <1>1, <1>7, <2>1 DEF SoundTick, ReadRelease
    <2>3. /\ runtime' = runtime /\ Executions' = Executions /\ clock' = clock
          /\ Goto(t, t2)
      BY <1>2, <1>7 DEF ReadRelease, storeVars
    <2>4. QED
      BY <2>2, <2>3, InvMoves
  <1>8. CASE SaveRelease(t)
    <2>1. SoundTick(WithOrder(t))
      BY <1>1, <1>8 DEF SoundTick, SaveRelease, WithOrder, Tick
    <2>2. /\ runtime' = runtime /\ Executions' = Executions /\ clock' = clock
          /\ Goto(t, WithOrder(t))
      BY <1>2, <1>8 DEF SaveRelease
    <2>3. QED
      BY <2>1, <2>2, InvMoves
  <1>9. CASE Dispatch(t)
    <2> DEFINE t2 == [t EXCEPT !.pc = "send"]
    <2>1. t2.pc = "send" /\ t2.bar = t.bar
      BY <1>1 DEF Tick
    <2>2. QED
      BY <1>9, <2>1, InvRecords DEF Dispatch
  <1>10. CASE Send(t)
    <2> DEFINE t2 == [t EXCEPT !.pc = "advance", !.order = NoOrder]
    <2>1. t2.pc = "advance" /\ t2.bar = t.bar
      BY <1>1 DEF Tick
    <2>2. SoundTick(t2)
      BY <1>1, <2>1 DEF SoundTick
    <2>3. /\ runtime' = runtime /\ Executions' = Executions /\ clock' = clock
          /\ Goto(t, t2)
      BY <1>2, <1>10 DEF Send, storeVars
    <2>4. QED
      BY <2>2, <2>3, InvMoves
  <1>11. CASE Advance(t)
    <2>1. runtime' = runtime /\ Executions' = Executions /\ clock' = clock /\ Return(t)
      BY <1>2, <1>11 DEF Advance
    <2>2. QED
      BY <1>1, <1>3, <2>1, InvStands
  <1>12. QED
    BY <1>4, <1>5, <1>6, <1>7, <1>8, <1>9, <1>10, <1>11 DEF TickStep

LEMMA TierTickFault ==
  ASSUME IInv, TypeOK', NEW t \in ticks, TickFault(t)
  PROVE  TierInv' /\ TierOncePerMonth'
  <1>1. /\ TypeOK /\ OneTickPerInstance /\ SoundTick(t)
        /\ t \in Tick /\ clock \in Nat /\ clock <= clock
    BY TypeFacts DEF IInv, TierInv
  <1>2. ASSUME pending' = pending, filled' = filled
        PROVE  Executions' = Executions
    BY <1>2 DEF Executions
  <1>3. CASE LoadFails(t) \/ AdvanceFails(t)
    <2>1. /\ runtime' = runtime /\ Executions' = Executions /\ clock' = clock
          /\ ticks' \subseteq ticks
      BY <1>2, <1>3 DEF LoadFails, AdvanceFails, Fail, Return
    <2>2. QED
      BY <1>1, <2>1, InvStands
  <1>4. CASE DecideFails(t)
    <2>1. PICK d \in Step(t.pf, t.rt, MonthOf[t.bar + 1]) :
            runtime' \in {runtime, [runtime EXCEPT ![t.inst] = d.rt]}
      BY <1>4 DEF DecideFails
    <2>2. /\ t.pc = "step" /\ Executions' = Executions /\ clock' = clock
          /\ ticks' = ticks \ {t}
      BY <1>2, <1>4 DEF DecideFails, Calls, Fail, Return
    <2>3. CASE runtime' = runtime
      BY <1>1, <2>2, <2>3, InvStands
    <2>4. CASE runtime' = [runtime EXCEPT ![t.inst] = d.rt]
      BY <2>2, <2>4, InvDecides DEF TierInv
    <2>5. QED
      BY <2>1, <2>3, <2>4
  <1>5. CASE ReleaseFails(t)
    <2>1. SoundTick(WithOrder(t))
      BY <1>1, <1>5 DEF SoundTick, ReleaseFails, WithOrder, Tick
    <2>2. /\ runtime' = runtime /\ Executions' = Executions /\ clock' = clock
          /\ Goto(t, WithOrder(t))
      BY <1>2, <1>5 DEF ReleaseFails, storeVars
    <2>3. QED
      BY <2>1, <2>2, InvMoves
  <1>6. CASE DispatchFails(t)
    <2> DEFINE t2 == [t EXCEPT !.pc = "advance", !.order = NoOrder]
    <2>1. t2.pc = "advance" /\ t2.bar = t.bar
      BY <1>1 DEF Tick
    <2>2. SoundTick(t2)
      BY <1>1, <2>1 DEF SoundTick
    <2>3. /\ t.pc = "dispatch" /\ runtime' = runtime /\ filled' = filled /\ clock' = clock
          /\ Goto(t, t2) /\ pending' \in {pending, pending \cup {CommandOf(t)}}
      BY <1>6 DEF DispatchFails
    <2>4. CASE pending' = pending
      BY <1>2, <2>2, <2>3, <2>4, InvMoves
    <2>5. CASE pending' = pending \cup {CommandOf(t)}
      BY <2>1, <2>3, <2>5, InvRecords
    <2>6. QED
      BY <2>3, <2>4, <2>5
  <1>7. QED
    BY <1>3, <1>4, <1>5, <1>6 DEF TickFault

LEMMA TierStep ==
  ASSUME IInv, [Next]_vars
  PROVE  IInv'
  <1>1. TypeOK /\ OneTickPerInstance /\ TypeOK' /\ OneTickPerInstance'
    BY TypeStep, OneTickStep DEF IInv
  <1>2. clock \in Nat /\ clock <= clock /\ clock <= clock + 1
    BY <1>1, TypeFacts
  <1>3. ASSUME pending' = pending, filled' = filled
        PROVE  Executions' = Executions
    BY <1>3 DEF Executions
  <1>4. CASE Scan
    <2>1. /\ runtime' = runtime /\ Executions' = Executions /\ clock' = clock
      BY <1>3, <1>4 DEF Scan, storeVars
    <2>2. MonthNotAhead' /\ BuysAreMarked' /\ TierOncePerMonth'
      BY <2>1 DEF IInv, TierInv, MonthNotAhead, BuysAreMarked, TierOncePerMonth
    <2>3. \A i \in Instances : SoundTick(NewTick(i))'
      BY <1>2, <2>1 DEF SoundTick, NewTick
    <2>4. QED
      BY <1>1, <1>4, <2>2, <2>3 DEF IInv, TierInv, Scan
  <1>5. CASE \E t \in ticks : TickStep(t) \/ TickFault(t)
    BY <1>1, <1>5, TierTickStep, TierTickFault DEF IInv
  <1>6. ASSUME runtime' = runtime, Executions' = Executions, ticks' \subseteq ticks, clock <= clock'
        PROVE  IInv'
    BY <1>1, <1>6, InvStands DEF IInv
  <1>7. CASE \E i \in Instances : User(i)
    <2>1. runtime' = runtime /\ Executions' = Executions /\ ticks' = ticks /\ clock' = clock
      BY <1>3, <1>7 DEF User, Start, Stop, Delete, tickVars
    <2>2. QED
      BY <1>2, <1>6, <2>1
  <1>8. CASE Crash \/ NewBar \/ UNCHANGED vars
    <2>1. /\ runtime' = runtime /\ Executions' = Executions /\ ticks' \subseteq ticks
          /\ clock' \in {clock, clock + 1}
      BY <1>3, <1>8 DEF Crash, NewBar, vars, storeVars, tickVars
    <2>2. QED
      BY <1>2, <1>6, <2>1
  <1>9. CASE ReportCommits
    <2>1. runtime' = runtime /\ ticks' = ticks /\ clock' = clock
      BY <1>9 DEF ReportCommits, tickVars
    <2>2. Executions' = Executions
      <3>1. \/ pending' = pending /\ filled' = filled
            \/ \E c \in pending : pending' = pending \ {c} /\ filled' = filled \cup {c}
        BY <1>9 DEF ReportCommits
      <3>2. QED
        BY <3>1 DEF Executions
    <2>3. QED
      BY <1>2, <1>6, <2>1, <2>2
  <1>10. QED
    BY <1>4, <1>5, <1>7, <1>8, <1>9 DEF Next

LEMMA TierInit == Init => IInv
  <1> SUFFICES ASSUME Init PROVE IInv
    OBVIOUS
  <1>1. TypeOK /\ ticks = {} /\ Executions = {}
    BY TypeInit DEF Init, StoreInit, Executions
  <1>2. \A i \in Instances : runtime[i].month = 0
    BY DEF Init, StoreInit, NewRuntime
  <1>3. MonthOf[clock + 1] \in Nat
    BY <1>1, TypeFacts, MonthAssumption
  <1>4. MonthNotAhead
    BY <1>2, <1>3 DEF MonthNotAhead
  <1>5. QED
    BY <1>1, <1>4 DEF IInv, TierInv, OneTickPerInstance, BuysAreMarked, TierOncePerMonth

\* A DCA tier is ordered at most once a month, for every schedule of ticks,
\* failed statements, crashes and late reports: the runtime row is written
\* before the order exists (manager.go:247 before :261).
THEOREM OncePerMonth == Spec => []TierOncePerMonth
  <1>1. Init => IInv
    BY TierInit
  <1>2. IInv /\ [Next]_vars => IInv'
    BY TierStep
  <1>3. IInv => TierOncePerMonth
    BY DEF IInv
  <1>4. QED
    BY <1>1, <1>2, <1>3, PTL DEF Spec

-----------------------------------------------------------------------------
(* The transitions of the status. *)

Transition(i) ==
  /\ status[i] = "DELETED" => status'[i] = "DELETED"
  /\ status[i] = "ERROR" => status'[i] \in {"ERROR", "DELETED"}
  /\ status[i] # status'[i] /\ status'[i] = "ERROR" => status[i] = "RUNNING"

LEMMA StatusStep ==
  ASSUME TypeOK, Next, NEW i \in Instances
  PROVE  Transition(i)
  <1>1. status \in [Instances -> Status] /\ \A t \in ticks : t.inst \in Instances
    BY TypeFacts DEF TypeOK, StoreTypeOK
  <1>2. CASE status' = status
    BY <1>2 DEF Transition
  <1>3. ASSUME NEW j \in Instances, User(j)
        PROVE  Transition(i)
    BY <1>1, <1>3 DEF User, Start, Stop, Delete, Transition
  <1>4. ASSUME NEW t \in ticks, Fail(t)
        PROVE  Transition(i)
    <2>1. status' = status \/
          status' = [status EXCEPT ![t.inst] = IF @ = "RUNNING" THEN "ERROR" ELSE @]
      BY <1>4 DEF Fail, Marked
    <2>2. QED
      BY <1>1, <1>2, <2>1 DEF Transition
  <1>5. ASSUME NEW t \in ticks, TickStep(t)
        PROVE  status' = status
    BY <1>5 DEF TickStep, Fetch, Load, Decide, ReadRelease, SaveRelease, Dispatch, Send,
                Advance, storeVars
  <1>6. ASSUME NEW t \in ticks, TickFault(t)
        PROVE  Fail(t) \/ status' = status
    BY <1>6 DEF TickFault, LoadFails, DecideFails, ReleaseFails, DispatchFails, AdvanceFails,
                storeVars
  <1>7. Scan \/ Crash \/ NewBar \/ ReportCommits => status' = status
    BY DEF Scan, Crash, NewBar, ReportCommits, storeVars
  <1>8. QED
    BY <1>2, <1>3, <1>4, <1>5, <1>6, <1>7 DEF Next

\* A deleted instance stays deleted and one in ERROR can only be deleted, though
\* Start, Stop, Delete and markError race (manager.go:87-137).
THEOREM Transitions == Spec => StatusTransitions
  <1>1. TypeOK /\ [Next]_vars => [\A i \in Instances :
       /\ status[i] = "DELETED" => status'[i] = "DELETED"
       /\ status[i] = "ERROR" => status'[i] \in {"ERROR", "DELETED"}
       /\ status[i] # status'[i] /\ status'[i] = "ERROR" => status[i] = "RUNNING"]_vars
    BY StatusStep DEF Transition
  <1>2. QED
    BY <1>1, TypeCorrect, PTL DEF Spec, StatusTransitions

-----------------------------------------------------------------------------
(* Each execution is settled once.  A new execution must not be one that is    *)
(* filled already: the inductive invariant says why its id is new.             *)

\* An order not yet recorded gets an id no execution has, and the command a tick
\* is about to send is on record.
SoundCommand(t) ==
  /\ t.pc \in {"readrelease", "saverelease", "dispatch"} =>
       \A c \in Executions : c.inst = t.inst => c.at < Len(stepped[t.inst])
  /\ t.pc = "send" => CommandOf(t) \in Executions

CommandInv ==
  /\ \A c \in Executions : c.at <= Len(stepped[c.inst])
  /\ \A t \in ticks : SoundCommand(t)

SettleInv == TypeOK /\ OneTickPerInstance /\ CommandInv /\ FilledIffTraded

LEMMA CommandFacts ==
  ASSUME TypeOK
  PROVE  /\ stepped \in [Instances -> Seq(Bar)]
         /\ \A i \in Instances : Len(stepped[i]) \in Nat
         /\ \A t \in ticks : t \in Tick /\ t.inst \in Instances
         /\ \A c \in Executions : c.inst \in Instances /\ c.at \in Nat
  BY DEF TypeOK, StoreTypeOK, Tick, Executions, Command

\* Neither the bars decided nor the executions change, and a tick may go on.
LEMMA CommandStands ==
  ASSUME CommandInv, stepped' = stepped, Executions' = Executions,
         \A u \in ticks' : u \in ticks \/ SoundCommand(u)
  PROVE  CommandInv'
  <1>1. ASSUME NEW u PROVE SoundCommand(u) => SoundCommand(u)'
    BY DEF SoundCommand, CommandOf
  <1>2. QED
    BY <1>1 DEF CommandInv

\* Step was called for another bar: every id in use is behind by one.
LEMMA CommandDecides ==
  ASSUME TypeOK, OneTickPerInstance, CommandInv, NEW t \in ticks, Calls(t),
         Executions' = Executions,
         \A u \in ticks' : u \in ticks \ {t} \/ (u.inst = t.inst /\ u.pc # "send")
  PROVE  CommandInv'
  <1> DEFINE i == t.inst
  <1>1. /\ i \in Instances /\ t \in Tick
        /\ Len(stepped'[i]) = Len(stepped[i]) + 1 /\ Len(stepped[i]) \in Nat
        /\ \A j \in Instances : j # i => stepped'[j] = stepped[j]
    <2>1. i \in Instances /\ t.bar \in Bar /\ t \in Tick /\ stepped[i] \in Seq(Bar)
      BY CommandFacts DEF Tick
    <2>2. stepped' = [stepped EXCEPT ![i] = Append(stepped[i], t.bar)]
      BY DEF Calls
    <2>3. QED
      BY <2>1, <2>2, CommandFacts
  <1>2. ASSUME NEW c \in Executions
        PROVE  /\ c.inst \in Instances /\ c.at \in Nat /\ c.at <= Len(stepped'[c.inst])
               /\ c.inst = i => c.at < Len(stepped'[i])
    BY <1>1, CommandFacts DEF CommandInv
  <1>3. ASSUME NEW u \in ticks \ {t}
        PROVE  SoundCommand(u)'
    <2>1. u.inst # i /\ u.inst \in Instances
      BY CommandFacts DEF OneTickPerInstance
    <2>2. stepped'[u.inst] = stepped[u.inst]
      BY <1>1, <2>1
    <2>3. QED
      BY <2>2 DEF CommandInv, SoundCommand, CommandOf
  <1>4. ASSUME NEW u, u.inst = i, u.pc # "send"
        PROVE  SoundCommand(u)'
    BY <1>2, <1>4 DEF SoundCommand
  <1>5. QED
    BY <1>2, <1>3, <1>4 DEF CommandInv

\* The INSERT of an execution: its id is new.
LEMMA CommandRecords ==
  ASSUME SettleInv, NEW t \in ticks, t.pc = "dispatch",
         pending' = pending \cup {CommandOf(t)}, filled' = filled, trades' = trades,
         stepped' = stepped,
         NEW t2, Goto(t, t2), t2.inst = t.inst, t2.pc \in {"send", "advance"},
         t2.pc = "send" => t2.order = t.order
  PROVE  CommandInv' /\ FilledIffTraded'
  <1> DEFINE cmd == CommandOf(t)
  <1>1. /\ TypeOK /\ OneTickPerInstance /\ CommandInv /\ FilledIffTraded /\ SoundCommand(t)
    BY DEF SettleInv, CommandInv
  <1>2. cmd.inst = t.inst /\ cmd.at = Len(stepped[t.inst]) /\ cmd.at \in Nat
    BY <1>1, CommandFacts DEF CommandOf
  <1>3. cmd \notin Executions
    BY <1>1, <1>2 DEF SoundCommand
  <1>4. CommandOf(t2)' = cmd \/ t2.pc = "advance"
    BY DEF CommandOf
  <1> HIDE DEF cmd
  <1>5. Executions' = Executions \cup {cmd}
    BY DEF Executions, cmd
  <1>6. \A c \in Executions' : c.at <= Len(stepped'[c.inst])
    BY <1>1, <1>2, <1>5 DEF CommandInv
  <1>7. ASSUME NEW u \in ticks \ {t}
        PROVE  SoundCommand(u)'
    <2>1. u.inst # cmd.inst
      BY <1>1, <1>2 DEF OneTickPerInstance
    <2>2. QED
      BY <1>1, <1>5, <2>1 DEF CommandInv, SoundCommand, CommandOf
  <1>8. SoundCommand(t2)'
    BY <1>4, <1>5 DEF SoundCommand
  <1>9. CommandInv'
    BY <1>6, <1>7, <1>8 DEF CommandInv, Goto
  <1>10. FilledIffTraded'
    BY <1>1, <1>3 DEF FilledIffTraded, Executions, cmd
  <1>11. QED
    BY <1>9, <1>10

LEMMA SettleTickStep ==
  ASSUME SettleInv, NEW t \in ticks, TickStep(t)
  PROVE  CommandInv' /\ FilledIffTraded'
  <1>1. /\ TypeOK /\ OneTickPerInstance /\ CommandInv /\ SoundCommand(t) /\ t \in Tick
    BY CommandFacts DEF SettleInv, CommandInv
  <1>2. ASSUME pending' = pending, filled' = filled
        PROVE  Executions' = Executions
    BY <1>2 DEF Executions
  <1>3. ASSUME UNCHANGED <<pending, filled, trades>>
        PROVE  FilledIffTraded'
    BY <1>3 DEF SettleInv, FilledIffTraded
  <1>4. ASSUME UNCHANGED <<pending, filled, trades, stepped>>,
               Return(t) \/ \E t2 : SoundCommand(t2) /\ Goto(t, t2)
        PROVE  CommandInv' /\ FilledIffTraded'
    <2>1. \A u \in ticks' : u \in ticks \/ SoundCommand(u)
      BY <1>4 DEF Return, Goto
    <2>2. QED
      BY <1>1, <1>2, <1>3, <1>4, <2>1, CommandStands
  <1>5. CASE Fetch(t)
    <2>1. SoundCommand([t EXCEPT !.pc = "load", !.bar = clock])
      BY <1>1 DEF SoundCommand, Tick
    <2>2. QED
      BY <1>4, <1>5, <2>1 DEF Fetch, storeVars
  <1>6. CASE Load(t)
    <2>1. \A row : SoundCommand([t EXCEPT !.pc = "step", !.pf = row, !.rt = runtime[t.inst]])
      BY <1>1 DEF SoundCommand, Tick
    <2>2. QED
      BY <1>4, <1>6, <2>1 DEF Load
  <1>7. CASE Decide(t)
    <2>1. PICK d \in Step(t.pf, t.rt, MonthOf[t.bar + 1]) : Goto(t, Decided(t, d))
      BY <1>7 DEF Decide
    <2>2. Decided(t, d).inst = t.inst /\ Decided(t, d).pc # "send"
      BY <1>1 DEF Decided, WithOrder, Tick
    <2>3. Calls(t) /\ UNCHANGED <<pending, filled, trades>>
      BY <1>7 DEF Decide
    <2>4. \A u \in ticks' : u \in ticks \ {t} \/ (u.inst = t.inst /\ u.pc # "send")
      BY <2>1, <2>2 DEF Goto
    <2>5. QED
      BY <1>1, <1>2, <1>3, <2>3, <2>4, CommandDecides
  <1>8. CASE ReadRelease(t)
    <2> DEFINE t2 == [t EXCEPT !.pc = "saverelease", !.pf = portfolio[t.inst]]
    <2>1. t2.pc = "saverelease" /\ t2.inst = t.inst
      BY <1>1 DEF Tick
    <2>2. SoundCommand(t2)
      BY <1>1, <1>8, <2>1 DEF SoundCommand, ReadRelease
    <2>3. QED
      BY <1>4, <1>8, <2>2 DEF ReadRelease, storeVars
  <1>9. CASE SaveRelease(t)
    <2>1. SoundCommand(WithOrder(t))
      BY <1>1, <1>9 DEF SoundCommand, SaveRelease, WithOrder, Tick
    <2>2. QED
      BY <1>4, <1>9, <2>1 DEF SaveRelease
  <1>10. CASE Dispatch(t)
    <2> DEFINE t2 == [t EXCEPT !.pc = "send"]
    <2>1. t2.pc = "send" /\ t2.inst = t.inst /\ t2.order = t.order
      BY <1>1 DEF Tick
    <2>2. QED
      BY <1>10, <2>1, CommandRecords DEF Dispatch
  <1>11. CASE Send(t)
    <2>1. SoundCommand([t EXCEPT !.pc = "advance", !.order = NoOrder])
      BY <1>1 DEF SoundCommand, Tick
    <2>2. QED
      BY <1>4, <1>11, <2>1 DEF Send, storeVars
  <1>12. CASE Advance(t)
    BY <1>4, <1>12 DEF Advance
  <1>13. QED
    BY <1>5, <1>6, <1>7, <1>8, <1>9, <1>10, <1>11, <1>12 DEF TickStep

LEMMA SettleTickFault ==
  ASSUME SettleInv, NEW t \in ticks, TickFault(t)
  PROVE  CommandInv' /\ FilledIffTraded'
  <1>1. /\ TypeOK /\ OneTickPerInstance /\ CommandInv /\ SoundCommand(t) /\ t \in Tick
    BY CommandFacts DEF SettleInv, CommandInv
  <1>2. ASSUME pending' = pending, filled' = filled
        PROVE  Executions' = Executions
    BY <1>2 DEF Executions
  <1>3. ASSUME UNCHANGED <<pending, filled, trades>>
        PROVE  FilledIffTraded'
    BY <1>3 DEF SettleInv, FilledIffTraded
  <1>4. CASE LoadFails(t) \/ AdvanceFails(t)
    <2>1. UNCHANGED <<pending, filled, trades, stepped>> /\ ticks' \subseteq ticks
      BY <1>4 DEF LoadFails, AdvanceFails, Fail, Return
    <2>2. QED
      BY <1>1, <1>2, <1>3, <2>1, CommandStands
  <1>5. CASE DecideFails(t)
    <2>1. Calls(t) /\ UNCHANGED <<pending, filled, trades>> /\ ticks' = ticks \ {t}
      BY <1>5 DEF DecideFails, Fail, Return
    <2>2. QED
      BY <1>1, <1>2, <1>3, <2>1, CommandDecides
  <1>6. CASE ReleaseFails(t)
    <2>1. SoundCommand(WithOrder(t))
      BY <1>1, <1>6 DEF SoundCommand, ReleaseFails, WithOrder, Tick
    <2>2. /\ UNCHANGED <<pending, filled, trades, stepped>>
          /\ \A u \in ticks' : u \in ticks \/ SoundCommand(u)
      BY <1>6, <2>1 DEF ReleaseFails, Goto, storeVars
    <2>3. QED
      BY <1>1, <1>2, <1>3, <2>2, CommandStands
  <1>7. CASE DispatchFails(t)
    <2> DEFINE t2 == [t EXCEPT !.pc = "advance", !.order = NoOrder]
    <2>1. t2.pc = "advance" /\ t2.inst = t.inst
      BY <1>1 DEF Tick
    <2>2. /\ t.pc = "dispatch" /\ filled' = filled /\ trades' = trades /\ stepped' = stepped
          /\ Goto(t, t2) /\ pending' \in {pending, pending \cup {CommandOf(t)}}
      BY <1>7 DEF DispatchFails
    <2>3. CASE pending' = pending
      <3>1. \A u \in ticks' : u \in ticks \/ SoundCommand(u)
        BY <2>1, <2>2 DEF Goto, SoundCommand
      <3>2. QED
        BY <1>1, <1>2, <1>3, <2>2, <2>3, <3>1, CommandStands
    <2>4. CASE pending' = pending \cup {CommandOf(t)}
      BY <2>1, <2>2, <2>4, CommandRecords
    <2>5. QED
      BY <2>2, <2>3, <2>4
  <1>8. QED
    BY <1>4, <1>5, <1>6, <1>7 DEF TickFault

\* A report settles an execution that is still pending, hence has no trade yet.
LEMMA SettleReport ==
  ASSUME SettleInv, ReportCommits
  PROVE  CommandInv' /\ FilledIffTraded'
  <1>1. stepped' = stepped /\ ticks' = ticks
    BY DEF ReportCommits, tickVars
  <1>2. \/ UNCHANGED <<pending, filled, trades>>
        \/ \E c \in pending, qty \in ReportQty :
             /\ pending' = pending \ {c} /\ filled' = filled \cup {c}
             /\ trades' = trades \cup {[cmd |-> c, qty |-> qty]}
    BY DEF ReportCommits
  <1>3. Executions' = Executions
    BY <1>2 DEF Executions
  <1>4. CommandInv'
    BY <1>1, <1>3, CommandStands DEF SettleInv
  <1>5. CASE UNCHANGED <<pending, filled, trades>>
    BY <1>4, <1>5 DEF SettleInv, FilledIffTraded
  <1>6. ASSUME NEW c \in pending, NEW trade, trade.cmd = c,
               pending' = pending \ {c}, filled' = filled \cup {c}, trades' = trades \cup {trade}
        PROVE  FilledIffTraded'
    <2>1. \A y \in trades : y.cmd # c
      BY DEF SettleInv, FilledIffTraded
    <2>2. filled' = {y.cmd : y \in trades'}
      BY <1>6 DEF SettleInv, FilledIffTraded
    <2>3. \A y, z \in trades' : y.cmd = z.cmd => y = z
      BY <1>6, <2>1 DEF SettleInv, FilledIffTraded
    <2>4. pending' \cap filled' = {}
      BY <1>6 DEF SettleInv, FilledIffTraded
    <2>5. QED
      BY <2>2, <2>3, <2>4 DEF FilledIffTraded
  <1>7. ASSUME NEW c, NEW qty
        PROVE  [cmd |-> c, qty |-> qty].cmd = c
    OBVIOUS
  <1>8. QED
    BY <1>2, <1>4, <1>5, <1>6, <1>7

LEMMA SettleStep ==
  ASSUME SettleInv, [Next]_vars
  PROVE  SettleInv'
  <1>1. TypeOK' /\ OneTickPerInstance'
    BY TypeStep, OneTickStep DEF SettleInv
  <1>2. ASSUME UNCHANGED <<pending, filled, trades, stepped>>,
               \A u \in ticks' : u \in ticks \/ SoundCommand(u)
        PROVE  CommandInv' /\ FilledIffTraded'
    <2>1. Executions' = Executions
      BY <1>2 DEF Executions
    <2>2. QED
      BY <1>2, <2>1, CommandStands DEF SettleInv, FilledIffTraded
  <1>3. CASE Scan
    <2>1. \A i \in Instances : SoundCommand(NewTick(i))
      BY DEF SoundCommand, NewTick
    <2>2. QED
      BY <1>1, <1>2, <1>3, <2>1 DEF Scan, storeVars, SettleInv
  <1>4. CASE \E t \in ticks : TickStep(t) \/ TickFault(t)
    BY <1>1, <1>4, SettleTickStep, SettleTickFault DEF SettleInv
  <1>5. CASE ReportCommits
    BY <1>1, <1>5, SettleReport DEF SettleInv
  <1>6. CASE \/ \E i \in Instances : User(i)
             \/ Crash \/ NewBar \/ UNCHANGED vars
    <2>1. UNCHANGED <<pending, filled, trades, stepped>> /\ ticks' \subseteq ticks
      BY <1>6 DEF User, Start, Stop, Delete, Crash, NewBar, vars, storeVars, tickVars
    <2>2. QED
      BY <1>1, <1>2, <2>1 DEF SettleInv
  <1>7. QED
    BY <1>3, <1>4, <1>5, <1>6 DEF Next

LEMMA SettleInductive == Spec => []SettleInv
  <1>1. Init => SettleInv
    <2> SUFFICES ASSUME Init PROVE SettleInv
      OBVIOUS
    <2>1. TypeOK
      BY TypeInit
    <2>2. ticks = {} /\ Executions = {} /\ pending = {} /\ filled = {} /\ trades = {}
      BY DEF Init, StoreInit, Executions
    <2>3. QED
      BY <2>1, <2>2 DEF SettleInv, OneTickPerInstance, CommandInv, FilledIffTraded
  <1>2. SettleInv /\ [Next]_vars => SettleInv'
    BY SettleStep
  <1>3. QED
    BY <1>1, <1>2, PTL DEF Spec

\* An execution has a trade exactly when it is filled, and one only: the ids of
\* the commands never repeat, although a bar may be decided twice, ticks die and
\* statements fail after their effect (manager.go:430, portfolio.go:56-118).
THEOREM TickSettledOnce == Spec => []FilledIffTraded
  <1>1. SettleInv => FilledIffTraded
    BY DEF SettleInv
  <1>2. QED
    BY <1>1, SettleInductive, PTL

-----------------------------------------------------------------------------
(* No row, and no copy of one, has processed a bar that is not complete.  This *)
(* is what lets the commits of the real report handler, which save a row they  *)
(* read earlier, pass for the ReportCommits of this module.                    *)

NoneAhead(rows) == \A i \in Instances : rows[i].last <= clock

LastNotAhead ==
  /\ NoneAhead(portfolio)
  /\ \A t \in ticks : t.bar <= clock /\ t.pf.last <= clock

LEMMA LastTickStep ==
  ASSUME TypeOK, LastNotAhead, NEW t \in ticks, TickStep(t) \/ TickFault(t)
  PROVE  LastNotAhead'
  <1>1. /\ t \in Tick /\ t.inst \in Instances /\ t.bar <= clock /\ t.pf.last <= clock
        /\ 0 <= clock /\ clock <= clock /\ portfolio \in [Instances -> PortfolioRow]
        /\ portfolio[t.inst] \in PortfolioRow /\ t.pf \in PortfolioRow /\ NoneAhead(portfolio)
    BY TypeFacts DEF LastNotAhead, TypeOK, StoreTypeOK
  <1>2. clock' = clock
    BY DEF TickStep, TickFault, Fetch, Load, Decide, ReadRelease, SaveRelease, Dispatch, Send,
           Advance, LoadFails, DecideFails, ReleaseFails, DispatchFails, AdvanceFails, Fail
  <1>3. ASSUME NEW row, row.last <= clock, portfolio' = [portfolio EXCEPT ![t.inst] = row]
        PROVE  NoneAhead(portfolio)'
    BY <1>1, <1>2, <1>3 DEF NoneAhead
  <1>4. NoneAhead(portfolio)'
    <2>1. CASE Load(t) \/ LoadFails(t)
      <3>1. [portfolio[t.inst] EXCEPT !.row = TRUE].last <= clock
        BY <1>1 DEF NoneAhead, PortfolioRow
      <3>2. portfolio' = portfolio
              \/ portfolio' = [portfolio EXCEPT ![t.inst] = [portfolio[t.inst] EXCEPT !.row = TRUE]]
        BY <1>1, <2>1 DEF Load, LoadFails
      <3>3. QED
        BY <1>1, <1>2, <1>3, <3>1, <3>2 DEF NoneAhead
    <2>2. CASE portfolio' = WithReleased(t)
      <3>1. PICK row \in PortfolioRow : /\ row.last = t.pf.last
                                        /\ WithReleased(t) = [portfolio EXCEPT ![t.inst] = row]
        BY ReleaseRows
      <3>2. QED
        BY <1>1, <1>3, <2>2, <3>1
    <2>3. CASE Advance(t) \/ AdvanceFails(t)
      <3>1. [portfolio[t.inst] EXCEPT !.last = t.bar].last <= clock
        BY <1>1 DEF PortfolioRow
      <3>2. portfolio' = portfolio
              \/ portfolio' = [portfolio EXCEPT ![t.inst] = [portfolio[t.inst] EXCEPT !.last = t.bar]]
        BY <1>1, <2>3 DEF Advance, AdvanceFails
      <3>3. QED
        BY <1>1, <1>2, <1>3, <3>1, <3>2 DEF NoneAhead
    <2>4. \/ Load(t) \/ LoadFails(t) \/ Advance(t) \/ AdvanceFails(t)
          \/ portfolio' \in {portfolio, WithReleased(t)}
      BY DEF TickStep, TickFault, Fetch, Decide, ReadRelease, SaveRelease, Dispatch, Send,
             DecideFails, ReleaseFails, DispatchFails, storeVars
    <2>5. QED
      BY <1>1, <1>2, <2>1, <2>2, <2>3, <2>4 DEF NoneAhead
  <1> DEFINE Fits(u) == u.bar <= clock /\ u.pf.last <= clock
  <1>5. ASSUME Return(t) \/ \E u : Fits(u) /\ Goto(t, u)
        PROVE  \A u \in ticks' : Fits(u)
    BY <1>5 DEF LastNotAhead, Return, Goto
  <1>6. EmptyRow.last = 0
    BY DEF EmptyRow
  <1>7. Fits(WithOrder(t))
    BY <1>1, <1>6 DEF WithOrder, Tick
  <1>8. \A d : Fits(Decided(t, d))
    BY <1>1, <1>6 DEF Decided, WithOrder, Tick
  <1>9. Return(t) \/ \E u : Fits(u) /\ Goto(t, u)
    <2>1. CASE Fetch(t)
      <3>1. Fits([t EXCEPT !.pc = "load", !.bar = clock])
        BY <1>1 DEF Tick
      <3>2. QED
        BY <2>1, <3>1 DEF Fetch
    <2>2. CASE Load(t)
      <3> DEFINE row == [portfolio[t.inst] EXCEPT !.row = TRUE]
      <3>1. row.last <= clock
        BY <1>1 DEF NoneAhead, PortfolioRow
      <3>2. Fits([t EXCEPT !.pc = "step", !.pf = row, !.rt = runtime[t.inst]])
        BY <1>1, <3>1 DEF Tick
      <3>3. QED
        BY <2>2, <3>2 DEF Load
    <2>3. CASE Decide(t)
      BY <1>8, <2>3 DEF Decide
    <2>4. CASE ReadRelease(t)
      <3>1. Fits([t EXCEPT !.pc = "saverelease", !.pf = portfolio[t.inst]])
        BY <1>1 DEF Tick, NoneAhead
      <3>2. QED
        BY <2>4, <3>1 DEF ReadRelease
    <2>5. CASE SaveRelease(t) \/ ReleaseFails(t)
      BY <1>7, <2>5 DEF SaveRelease, ReleaseFails
    <2>6. CASE Dispatch(t)
      <3>1. Fits([t EXCEPT !.pc = "send"])
        BY <1>1 DEF Tick
      <3>2. QED
        BY <2>6, <3>1 DEF Dispatch
    <2>7. CASE Send(t) \/ DispatchFails(t)
      <3>1. Fits([t EXCEPT !.pc = "advance", !.order = NoOrder])
        BY <1>1 DEF Tick
      <3>2. QED
        BY <2>7, <3>1 DEF Send, DispatchFails
    <2>8. CASE Advance(t) \/ LoadFails(t) \/ DecideFails(t) \/ AdvanceFails(t)
      BY <2>8 DEF Advance, LoadFails, DecideFails, AdvanceFails, Fail
    <2>9. QED
      BY <2>1, <2>2, <2>3, <2>4, <2>5, <2>6, <2>7, <2>8 DEF TickStep, TickFault
  <1>10. QED
    BY <1>2, <1>4, <1>5, <1>9 DEF LastNotAhead

LEMMA LastStep ==
  ASSUME TypeOK, LastNotAhead, [Next]_vars
  PROVE  LastNotAhead'
  <1>1. clock \in Nat
    BY TypeFacts
  <1>2. CASE Scan
    <2>1. \A i \in Instances : NewTick(i).bar <= clock /\ NewTick(i).pf.last <= clock
      BY <1>1 DEF NewTick, EmptyRow
    <2>2. QED
      BY <1>2, <2>1 DEF Scan, storeVars, LastNotAhead, NoneAhead
  <1>3. CASE \E t \in ticks : TickStep(t) \/ TickFault(t)
    BY <1>3, LastTickStep
  <1>4. CASE NewBar
    <2>1. \A n \in Nat : n <= clock => n <= clock + 1
      BY <1>1
    <2>2. \A b \in Bar : b \in Nat
      BY MonthAssumption DEF Bar
    <2>3. /\ \A i \in Instances : portfolio[i].last \in Nat
          /\ \A t \in ticks : t.bar \in Nat /\ t.pf.last \in Nat
      BY <2>2, TypeFacts DEF TypeOK, StoreTypeOK, PortfolioRow
    <2>4. QED
      BY <1>4, <2>1, <2>3 DEF NewBar, storeVars, LastNotAhead, NoneAhead
  <1>5. CASE ReportCommits
    <2>1. ASSUME NEW rows \in [Instances -> PortfolioRow], NEW bal, NoneAhead(rows)
          PROVE  NoneAhead(WithBalances(rows, bal))
      BY <2>1 DEF NoneAhead, WithBalances, PortfolioRow
    <2>2. ASSUME NEW c \in pending, NEW row \in ReportRows, row.last <= clock
          PROVE  /\ [portfolio EXCEPT ![c.inst] = row] \in [Instances -> PortfolioRow]
                 /\ NoneAhead([portfolio EXCEPT ![c.inst] = row])
      BY <2>2, TickAssumption DEF LastNotAhead, NoneAhead, TypeOK, StoreTypeOK
    <2>3. portfolio \in [Instances -> PortfolioRow] /\ NoneAhead(portfolio)
      BY DEF LastNotAhead, TypeOK, StoreTypeOK
    <2>4. UNCHANGED <<ticks, clock>>
      BY <1>5 DEF ReportCommits, tickVars
    <2>5. \E rows, bal : /\ rows \in [Instances -> PortfolioRow] /\ NoneAhead(rows)
                         /\ portfolio' = WithBalances(rows, bal)
      BY <1>5, <2>2, <2>3 DEF ReportCommits
    <2>6. NoneAhead(portfolio')
      BY <2>1, <2>5
    <2>7. QED
      BY <2>4, <2>6 DEF LastNotAhead, NoneAhead
  <1>6. CASE (\E i \in Instances : User(i)) \/ Crash \/ UNCHANGED vars
    <2>1. UNCHANGED <<portfolio, clock>> /\ ticks' \subseteq ticks
      BY <1>6 DEF User, Start, Stop, Delete, Crash, vars, storeVars, tickVars
    <2>2. QED
      BY <2>1 DEF LastNotAhead, NoneAhead
  <1>7. QED
    BY <1>2, <1>3, <1>4, <1>5, <1>6 DEF Next

\* The executions only grow.
LEMMA ExecutionsGrow ==
  ASSUME [Next]_vars
  PROVE  Executions \subseteq Executions'
  <1>1. ASSUME NEW t \in ticks, TickStep(t) \/ TickFault(t)
        PROVE  pending \subseteq pending' /\ filled' = filled
    BY <1>1 DEF TickStep, TickFault, Fetch, Load, Decide, ReadRelease, SaveRelease, Dispatch, Send,
           Advance, LoadFails, DecideFails, ReleaseFails, DispatchFails, AdvanceFails, Fail, storeVars
  <1>2. CASE ReportCommits
    BY <1>2 DEF ReportCommits, Executions
  <1>3. CASE (\E i \in Instances : User(i)) \/ Scan \/ Crash \/ NewBar \/ UNCHANGED vars
    BY <1>3 DEF User, Start, Stop, Delete, Scan, Crash, NewBar, vars, storeVars, Executions
  <1>4. QED
    BY <1>1, <1>2, <1>3 DEF Next, Executions
-----------------------------------------------------------------------------
(* What holds of the ticks as long as no statement fails and no process dies. *)
(* The fetch of the bars may fail, users may interfere, and reports commit.   *)

NoLostWrites == Faults \cap {"db", "crash"} = {}

LEMMA NoFaults ==
  ASSUME NoLostWrites
  PROVE  ~ Crash /\ \A t : ~ TickFault(t)
  BY DEF NoLostWrites, Crash, TickFault, LoadFails, DecideFails, ReleaseFails, DispatchFails,
         AdvanceFails, Fail

\* A tier a decision leaves marked was marked before in the same month, or is
\* the one the decision buys.
LEMMA NewTier ==
  ASSUME NEW pf \in PortfolioRow, NEW rt \in RuntimeRow, NEW m \in Nat,
         NEW d \in Step(pf, rt, m), NEW k \in d.rt.tiers
  PROVE  \/ k \in rt.tiers /\ d.rt.month = rt.month
         \/ IsBuy(d.order) /\ d.order.tier = k /\ d.order.month = d.rt.month
  <1> DEFINE Known(rt2) == \A j \in rt2.tiers : j \in rt.tiers /\ rt2.month = rt.month
             base == InMonth(rt, m)
  <1>1. base \in RuntimeRow /\ base.month = m /\ Known(base)
    BY DEF InMonth, RuntimeRow, Tiers
  <1>2. Known(rt)
    OBVIOUS
  <1> HIDE DEF base, Known
  <1>3. \A j : [base EXCEPT !.tiers = @ \cup {j}].tiers = base.tiers \cup {j}
               /\ [base EXCEPT !.tiers = @ \cup {j}].month = m
    BY <1>1 DEF RuntimeRow
  <1>4. ASSUME NEW e \in MacroDecisions(pf, rt, m) \cup MicroDecisions(pf, rt), NEW r,
               d = Decision(e[1], e[2], r)
        PROVE  Known(d.rt) \/ \E j \in Tiers : /\ d.rt = [base EXCEPT !.tiers = @ \cup {j}]
                                               /\ d.order = Buy(m, j)
    <2>1. d.rt = e[1] /\ d.order = e[2]
      BY <1>4 DEF Decision
    <2>2. CASE e \in MacroDecisions(pf, rt, m)
      <3>1. \/ e = <<base, NoOrder>>
            \/ \E j \in Tiers : e = <<[base EXCEPT !.tiers = @ \cup {j}], Buy(m, j)>>
        BY <2>2 DEF MacroDecisions, base
      <3>2. \A x, y : <<x, y>>[1] = x /\ <<x, y>>[2] = y
        OBVIOUS
      <3>3. QED
        BY <1>1, <2>1, <3>1, <3>2
    <2>3. CASE e \in MicroDecisions(pf, rt)
      <3>1. d.rt.month = rt.month /\ d.rt.tiers = rt.tiers
        BY <2>1, <2>3, MicroDecision
      <3>2. QED
        BY <3>1 DEF Known
    <2>4. QED
      BY <2>2, <2>3
  <1>5. Known(d.rt) \/ \E j \in Tiers : /\ d.rt = [base EXCEPT !.tiers = @ \cup {j}]
                                        /\ d.order = Buy(m, j)
    <2>1. Decision(rt, NoOrder, 0).rt = rt
      BY DEF Decision
    <2>2. QED
      BY <1>2, <1>4, <2>1 DEF Step
  <1>6. CASE Known(d.rt)
    BY <1>6 DEF Known
  <1>7. ASSUME NEW j \in Tiers, d.rt = [base EXCEPT !.tiers = @ \cup {j}], d.order = Buy(m, j)
        PROVE  \/ k \in rt.tiers /\ d.rt.month = rt.month
               \/ IsBuy(d.order) /\ d.order.tier = k /\ d.order.month = d.rt.month
    <2>1. k \in base.tiers \cup {j} /\ d.rt.month = m
      BY <1>3, <1>7
    <2>2. IsBuy(d.order) /\ d.order.tier = j /\ d.order.month = m
      BY <1>7 DEF Buy, IsBuy
    <2>3. QED
      BY <1>1, <2>1, <2>2 DEF Known
  <1>8. QED
    BY <1>5, <1>6, <1>7

\* The order that marks a tier, on record and on its way.
MarksTier(i, k, order) == IsBuy(order) /\ order.tier = k /\ order.month = runtime[i].month
OnRecord(i, k) == \E c \in Executions : c.inst = i /\ MarksTier(i, k, c.order)
OnItsWay(i, k) == \E t \in ticks : t.inst = i /\ MarksTier(i, k, t.order)

\* A tick has no order before its decision, and none after it was sent.
NoOrderYet(t) == t.pc \in {"fetch", "load", "step", "advance"} => t.order = NoOrder

MarkInv ==
  /\ \A i \in Instances : \A k \in runtime[i].tiers : OnRecord(i, k) \/ OnItsWay(i, k)
  /\ \A t \in ticks : NoOrderYet(t)

\* The runtime rows stand, and no order on its way is lost.
LEMMA MarkStands ==
  ASSUME MarkInv, runtime' = runtime, Executions \subseteq Executions',
         \A t \in ticks : \/ ~ IsBuy(t.order)
                          \/ \E u \in ticks' : u.inst = t.inst /\ u.order = t.order
                          \/ \E c \in Executions' : c.inst = t.inst /\ c.order = t.order,
         \A u \in ticks' : u \in ticks \/ NoOrderYet(u)
  PROVE  MarkInv'
  <1>1. ASSUME NEW i \in Instances, NEW k \in runtime[i].tiers
        PROVE  OnRecord(i, k)' \/ OnItsWay(i, k)'
    <2>1. CASE OnRecord(i, k)
      BY <2>1 DEF OnRecord, MarksTier
    <2>2. CASE OnItsWay(i, k)
      BY <2>2 DEF OnRecord, OnItsWay, MarksTier
    <2>3. QED
      BY <2>1, <2>2 DEF MarkInv
  <1>2. ASSUME NEW u \in ticks'
        PROVE  NoOrderYet(u)
    BY DEF MarkInv
  <1>3. \A u \in ticks' : NoOrderYet(u)'
    BY <1>2 DEF NoOrderYet
  <1>4. QED
    BY <1>1, <1>3 DEF MarkInv

\* Step 7: the tier it marks is the one of the order it leaves on its way.
LEMMA MarkDecides ==
  ASSUME IInv, MarkInv, Executions' = Executions, NEW t \in ticks, t.pc = "step",
         NEW d \in Step(t.pf, t.rt, MonthOf[t.bar + 1]),
         runtime' = [runtime EXCEPT ![t.inst] = d.rt], Goto(t, Decided(t, d))
  PROVE  MarkInv'
  <1> DEFINE i  == t.inst
             t2 == Decided(t, d)
  <1>1. /\ t \in Tick /\ i \in Instances /\ t.pf \in PortfolioRow /\ t.rt \in RuntimeRow
        /\ MonthOf[t.bar + 1] \in Nat /\ t.rt = runtime[i]
        /\ runtime \in [Instances -> RuntimeRow] /\ OneTickPerInstance
    BY TypeFacts DEF IInv, TierInv, SoundTick, TypeOK, StoreTypeOK
  <1>2. ~ IsBuy(t.order)
    BY DEF MarkInv, NoOrderYet, NoOrder, IsBuy
  <1>3. t2.inst = i /\ t2.order = d.order /\ NoOrderYet(t2)
    BY <1>1 DEF Decided, WithOrder, Tick, NoOrderYet
  <1> HIDE DEF t2
  <1>4. t2 \in ticks' /\ \A u \in ticks' : u = t2 \/ u \in ticks
    BY DEF Goto, t2
  <1>5. \A u \in ticks : u # t => u \in ticks'
    BY DEF Goto
  <1>6. runtime'[i] = d.rt /\ \A j \in Instances : j # i => runtime'[j] = runtime[j]
    BY <1>1
  <1>7. ASSUME NEW j \in Instances, NEW k \in runtime'[j].tiers
        PROVE  OnRecord(j, k)' \/ OnItsWay(j, k)'
    <2>1. CASE j # i
      <3>1. OnRecord(j, k) \/ \E u \in ticks : u # t /\ u.inst = j /\ MarksTier(j, k, u.order)
        BY <1>6, <2>1 DEF MarkInv, OnItsWay
      <3>2. QED
        BY <1>5, <1>6, <2>1, <3>1 DEF OnRecord, OnItsWay, MarksTier
    <2>2. CASE j = i
      <3>1. CASE k \in runtime[i].tiers /\ d.rt.month = runtime[i].month
        <4>1. OnRecord(i, k)
          BY <1>1, <1>2, <3>1 DEF MarkInv, OnItsWay, MarksTier, OneTickPerInstance
        <4>2. QED
          BY <1>6, <2>2, <3>1, <4>1 DEF OnRecord, MarksTier
      <3>2. CASE IsBuy(d.order) /\ d.order.tier = k /\ d.order.month = d.rt.month
        BY <1>3, <1>4, <1>6, <2>2, <3>2 DEF OnItsWay, MarksTier
      <3>3. QED
        BY <1>1, <1>6, <2>2, <3>1, <3>2, NewTier
    <2>3. QED
      BY <2>1, <2>2
  <1>8. \A u \in ticks' : NoOrderYet(u)'
    BY <1>3, <1>4 DEF MarkInv, NoOrderYet
  <1>9. QED
    BY <1>7, <1>8 DEF MarkInv

LEMMA MarkTickStep ==
  ASSUME IInv, CommandInv, MarkInv, NEW t \in ticks, TickStep(t)
  PROVE  MarkInv'
  <1>1. t \in Tick /\ NoOrderYet(t) /\ SoundCommand(t)
    BY TypeFacts DEF IInv, MarkInv, CommandInv
  <1>2. ASSUME pending \subseteq pending', filled' = filled
        PROVE  Executions \subseteq Executions'
    BY <1>2 DEF Executions
  <1>3. ASSUME pending' = pending, filled' = filled
        PROVE  Executions' = Executions
    BY <1>3 DEF Executions
  \* The tick goes on with its order.
  <1>4. ASSUME runtime' = runtime, pending \subseteq pending', filled' = filled,
               NEW t2, Goto(t, t2), t2.inst = t.inst, t2.order = t.order, NoOrderYet(t2)
        PROVE  MarkInv'
    <2>1. \A u \in ticks : \E v \in ticks' : v.inst = u.inst /\ v.order = u.order
      BY <1>4 DEF Goto
    <2>2. \A u \in ticks' : u \in ticks \/ NoOrderYet(u)
      BY <1>4 DEF Goto
    <2>3. QED
      BY <1>2, <1>4, <2>1, <2>2, MarkStands
  \* The tick returns, or goes on, without an order.
  <1>5. ASSUME runtime' = runtime, Executions' = Executions,
               Return(t) \/ \E t2 : Goto(t, t2) /\ NoOrderYet(t2),
               ~ IsBuy(t.order) \/ \E c \in Executions : c.inst = t.inst /\ c.order = t.order
        PROVE  MarkInv'
    <2>1. \A u \in ticks : u # t => u \in ticks'
      BY <1>5 DEF Goto, Return
    <2>2. \A u \in ticks' : u \in ticks \/ NoOrderYet(u)
      BY <1>5 DEF Goto, Return
    <2>3. QED
      BY <1>5, <2>1, <2>2, MarkStands
  <1>6. ~ IsBuy(NoOrder)
    BY DEF NoOrder, IsBuy
  <1>7. CASE Fetch(t)
    <2> DEFINE t2 == [t EXCEPT !.pc = "load", !.bar = clock]
    <2>1. NoOrderYet(t2) /\ ~ IsBuy(t.order)
      BY <1>1, <1>6, <1>7 DEF Fetch, NoOrderYet, Tick
    <2>2. QED
      BY <1>3, <1>5, <1>7, <2>1 DEF Fetch, storeVars
  <1>8. CASE Load(t)
    <2> DEFINE t2(row) == [t EXCEPT !.pc = "step", !.pf = row, !.rt = runtime[t.inst]]
    <2>1. ~ IsBuy(t.order) /\ \A row : NoOrderYet(t2(row))
      BY <1>1, <1>6, <1>8 DEF Load, NoOrderYet, Tick
    <2>2. QED
      BY <1>3, <1>5, <1>8, <2>1 DEF Load
  <1>9. CASE Decide(t)
    BY <1>3, <1>9, MarkDecides DEF Decide, Calls
  <1>10. CASE ReadRelease(t)
    <2> DEFINE t2 == [t EXCEPT !.pc = "saverelease", !.pf = portfolio[t.inst]]
    <2>1. t2.inst = t.inst /\ t2.order = t.order /\ NoOrderYet(t2)
      BY <1>1 DEF NoOrderYet, Tick
    <2>2. QED
      BY <1>4, <1>10, <2>1 DEF ReadRelease, storeVars
  <1>11. CASE SaveRelease(t)
    <2>1. WithOrder(t).inst = t.inst /\ WithOrder(t).order = t.order /\ NoOrderYet(WithOrder(t))
      BY <1>1 DEF NoOrderYet, WithOrder, Tick
    <2>2. QED
      BY <1>4, <1>11, <2>1 DEF SaveRelease
  <1>12. CASE Dispatch(t)
    <2> DEFINE t2 == [t EXCEPT !.pc = "send"]
    <2>1. t2.inst = t.inst /\ t2.order = t.order /\ NoOrderYet(t2)
      BY <1>1 DEF NoOrderYet, Tick
    <2>2. pending \subseteq pending'
      BY <1>12 DEF Dispatch
    <2>3. QED
      BY <1>4, <1>12, <2>1, <2>2 DEF Dispatch
  <1>13. CASE Send(t)
    <2> DEFINE t2 == [t EXCEPT !.pc = "advance", !.order = NoOrder]
    <2>1. NoOrderYet(t2)
      BY <1>1 DEF NoOrderYet, Tick
    <2>2. \E c \in Executions : c.inst = t.inst /\ c.order = t.order
      BY <1>1, <1>13 DEF Send, SoundCommand, CommandOf
    <2>3. QED
      BY <1>3, <1>5, <1>13, <2>1, <2>2 DEF Send, storeVars
  <1>14. CASE Advance(t)
    <2>1. ~ IsBuy(t.order)
      BY <1>1, <1>6, <1>14 DEF Advance, NoOrderYet
    <2>2. QED
      BY <1>3, <1>5, <1>14, <2>1 DEF Advance
  <1>15. QED
    BY <1>7, <1>8, <1>9, <1>10, <1>11, <1>12, <1>13, <1>14 DEF TickStep

LEMMA MarkStep ==
  ASSUME NoLostWrites, IInv, CommandInv, MarkInv, [Next]_vars
  PROVE  MarkInv'
  <1>1. ASSUME runtime' = runtime, \A u \in ticks' : u \in ticks \/ NoOrderYet(u),
               ticks \subseteq ticks'
        PROVE  MarkInv'
    BY <1>1, ExecutionsGrow, MarkStands
  <1>2. CASE Scan
    <2>1. \A i \in Instances : NoOrderYet(NewTick(i))
      BY DEF NoOrderYet, NewTick
    <2>2. QED
      BY <1>1, <1>2, <2>1 DEF Scan, storeVars
  <1>3. CASE \E t \in ticks : TickStep(t) \/ TickFault(t)
    BY <1>3, NoFaults, MarkTickStep
  <1>4. CASE (\E i \in Instances : User(i)) \/ NewBar \/ ReportCommits \/ UNCHANGED vars
    <2>1. runtime' = runtime /\ ticks' = ticks
      BY <1>4 DEF User, Start, Stop, Delete, NewBar, ReportCommits, vars, storeVars, tickVars
    <2>2. QED
      BY <1>1, <2>1
  <1>5. QED
    BY <1>2, <1>3, <1>4, NoFaults DEF Next

\* While nothing fails, a tier marked triggered has its order: it is recorded, or
\* carried by the one tick of the instance (manager.go:247 and :430).
THEOREM MarkedTierIsOrdered ==
  ASSUME NoLostWrites
  PROVE  Spec => []TierHasOrder
  <1>1. Init => MarkInv
    <2>1. ASSUME Init, NEW i \in Instances
          PROVE  runtime[i].tiers = {}
      BY <2>1 DEF Init, StoreInit, NewRuntime
    <2>2. QED
      BY <2>1 DEF Init, MarkInv
  <1>2. IInv /\ SettleInv /\ MarkInv /\ [Next]_vars => MarkInv'
    BY MarkStep DEF SettleInv
  <1>3. MarkInv => TierHasOrder
    BY DEF MarkInv, OnRecord, OnItsWay, MarksTier, IsBuy, TierHasOrder
  <1>4. Init /\ [][Next]_vars => []IInv
    <2>1. Init => IInv
      BY TierInit
    <2>2. IInv /\ [Next]_vars => IInv'
      BY TierStep
    <2>3. QED
      BY <2>1, <2>2, PTL
  <1>5. QED
    BY <1>1, <1>2, <1>3, <1>4, SettleInductive, PTL DEF Spec
-----------------------------------------------------------------------------
(* A bar is decided again only after a report that brought its row back, and  *)
(* once for each.  As long as nothing is lost, a decision can repeat a bar    *)
(* only if no tick has decided since a report saved the row: Debt(i) is 1     *)
(* then, and the repeats and the debt never exceed the reports.               *)

HasDecided == {"readrelease", "saverelease", "dispatch", "send", "advance"}

Bars(i)     == {stepped[i][n] : n \in DOMAIN stepped[i]}
Reported(i) == {c \in filled : c.inst = i}

\* The next decision of the instance is not on a bar decided before.
Fresh(i) ==
  \/ \E t \in ticks : t.inst = i /\ t.pc \in HasDecided
  \/ \E t \in ticks : t.inst = i /\ t.pc = "step" /\ \A b \in Bars(i) : b < t.bar
  \/ /\ \A t \in ticks : t.inst = i => t.pc # "step"
     /\ \A b \in Bars(i) : b <= portfolio[i].last

Debt(i) == IF Fresh(i) THEN 0 ELSE 1

InOrder(t) ==
  t.pc # "fetch" => t.bar >= 1 /\ t.bar <= clock /\ \A b \in Bars(t.inst) : b <= t.bar

RepeatInv ==
  /\ IsFiniteSet(filled)
  /\ \A i \in Instances : \A b \in Bars(i) : b >= 1 /\ b <= clock
  /\ \A t \in ticks : InOrder(t)
  /\ \A i \in Instances : Cardinality(Repeats(i)) + Debt(i) <= Cardinality(Reported(i))

LEMMA BarFacts ==
  ASSUME TypeOK
  PROVE  /\ \A i \in Instances :
              /\ stepped[i] \in Seq(Bar) /\ portfolio[i] \in PortfolioRow
              /\ portfolio[i].last \in Nat
              /\ \A b \in Bars(i) : b \in Nat
         /\ \A t \in ticks : t \in Tick /\ t.inst \in Instances /\ t.bar \in Nat
                             /\ t.bar \in Bar /\ t.pf \in PortfolioRow
         /\ clock \in Nat /\ clock >= 1
  <1>1. \A b \in Bar : b \in Nat
    BY MonthAssumption DEF Bar
  <1>2. ASSUME NEW i \in Instances
        PROVE  /\ stepped[i] \in Seq(Bar) /\ portfolio[i] \in PortfolioRow
               /\ portfolio[i].last \in Nat
               /\ \A b \in Bars(i) : b \in Nat
    BY <1>1 DEF TypeOK, StoreTypeOK, PortfolioRow, Bars
  <1>3. \A t \in ticks : t \in Tick /\ t.inst \in Instances /\ t.bar \in Bar /\ t.pf \in PortfolioRow
    BY DEF TypeOK, Tick
  <1>4. clock \in Nat /\ clock >= 1
    BY MonthAssumption DEF TypeOK
  <1>5. QED
    BY <1>1, <1>2, <1>3, <1>4

\* Repeats and reports can be counted.
LEMMA Counts ==
  ASSUME TypeOK, RepeatInv, NEW i \in Instances
  PROVE  /\ IsFiniteSet(Repeats(i)) /\ Cardinality(Repeats(i)) \in Nat
         /\ IsFiniteSet(Reported(i)) /\ Cardinality(Reported(i)) \in Nat
         /\ Debt(i) \in 0 .. 1
  <1>1. IsFiniteSet(Reported(i))
    <2>1. Reported(i) \in SUBSET filled
      BY DEF Reported
    <2>2. QED
      BY <2>1, FS_Subset DEF RepeatInv
  <1>2. IsFiniteSet(Repeats(i))
    <2>1. stepped[i] \in Seq(Bar)
      BY BarFacts
    <2>2. DOMAIN stepped[i] = 1 .. Len(stepped[i]) /\ Len(stepped[i]) \in Nat
      BY <2>1
    <2>3. IsFiniteSet(1 .. Len(stepped[i]))
      BY <2>2, FS_Interval
    <2>4. Repeats(i) \in SUBSET (1 .. Len(stepped[i]))
      BY <2>2 DEF Repeats
    <2>5. QED
      BY <2>3, <2>4, FS_Subset
  <1>3. QED
    BY <1>1, <1>2, FS_CardinalityType DEF Debt

\* Nothing is decided or settled, and no instance may repeat that might not before.
LEMMA RepeatsStand ==
  ASSUME TypeOK, RepeatInv, UNCHANGED <<stepped, filled>>, clock' \in Nat, clock <= clock',
         \A u \in ticks' : u \in ticks \/ InOrder(u)',
         \A i \in Instances : Fresh(i) => Fresh(i)'
  PROVE  RepeatInv'
  <1>1. \A i : Bars(i)' = Bars(i) /\ Repeats(i)' = Repeats(i) /\ Reported(i)' = Reported(i)
    BY DEF Bars, Repeats, Reported
  <1>2. ASSUME NEW i \in Instances
        PROVE  Cardinality(Repeats(i)') + Debt(i)' <= Cardinality(Reported(i)')
    <2>1. Debt(i)' \in 0 .. 1 /\ Debt(i)' <= Debt(i)
      BY DEF Debt
    <2>2. Cardinality(Repeats(i)) + Debt(i) <= Cardinality(Reported(i))
      BY DEF RepeatInv
    <2>3. QED
      BY <1>1, <2>1, <2>2, Counts
  <1>3. \A i \in Instances : \A b \in Bars(i)' : b >= 1 /\ b <= clock'
    BY <1>1, BarFacts DEF RepeatInv
  <1>4. \A u \in ticks' : InOrder(u)'
    BY <1>1, BarFacts DEF RepeatInv, InOrder
  <1>5. QED
    BY <1>2, <1>3, <1>4 DEF RepeatInv

\* The ticks, the bars and the row of an instance stay as they are.
LEMMA OthersStand ==
  ASSUME NEW j, Fresh(j), Bars(j)' = Bars(j), portfolio'[j].last = portfolio[j].last,
         \A u \in ticks \cup ticks' : u.inst = j => (u \in ticks <=> u \in ticks')
  PROVE  Fresh(j)'
  BY DEF Fresh

\* A tick of instance i goes on, or returns, without a decision.
LEMMA RepeatsMove ==
  ASSUME TypeOK, RepeatInv, NEW t \in ticks, UNCHANGED <<stepped, filled, clock>>,
         \A j \in Instances : j # t.inst => portfolio'[j].last = portfolio[j].last,
         Return(t) \/ \E t2 : Goto(t, t2) /\ t2.inst = t.inst /\ InOrder(t2)',
         Fresh(t.inst) => Fresh(t.inst)'
  PROVE  RepeatInv'
  <1>1. \A u \in ticks' : u \in ticks \/ InOrder(u)'
    BY DEF Return, Goto
  <1>2. \A j : Bars(j)' = Bars(j)
    BY DEF Bars
  <1>3. ASSUME NEW j \in Instances, Fresh(j)
        PROVE  Fresh(j)'
    <2>1. CASE j = t.inst
      BY <1>3, <2>1
    <2>2. CASE j # t.inst
      <3>1. \A u \in ticks \cup ticks' : u.inst = j => (u \in ticks <=> u \in ticks')
        BY <2>2 DEF Return, Goto
      <3>2. QED
        BY <1>2, <1>3, <2>2, <3>1, OthersStand
    <2>3. QED
      BY <2>1, <2>2
  <1>4. clock' \in Nat /\ clock <= clock'
    BY BarFacts
  <1>5. QED
    BY <1>1, <1>3, <1>4, RepeatsStand

\* Step was called: the decision repeats a bar only if the debt allows it.
LEMMA RepeatsDecide ==
  ASSUME TypeOK, OneTickPerInstance, RepeatInv, NEW t \in ticks, Calls(t),
         UNCHANGED <<portfolio, filled, clock>>,
         NEW t2, Goto(t, t2), t2.inst = t.inst, t2.bar = t.bar, t2.pc \in HasDecided
  PROVE  RepeatInv'
  <1> DEFINE i == t.inst
             L == Len(stepped[i])
  <1>1. /\ t.pc = "step" /\ i \in Instances /\ t.bar \in Nat /\ t.bar >= 1 /\ t.bar <= clock
        /\ t.bar \in Bar /\ stepped[i] \in Seq(Bar) /\ \A b \in Bars(i) : b <= t.bar
    BY BarFacts DEF Calls, RepeatInv, InOrder
  <1>2. /\ stepped'[i] = Append(stepped[i], t.bar)
        /\ \A j \in Instances : j # i => stepped'[j] = stepped[j]
    BY <1>1 DEF Calls, TypeOK
  <1>3. /\ L \in Nat /\ DOMAIN stepped[i] = 1 .. L /\ DOMAIN stepped'[i] = 1 .. L + 1
        /\ stepped'[i][L + 1] = t.bar
        /\ \A n \in 1 .. L : stepped'[i][n] = stepped[i][n] /\ stepped[i][n] \in Bars(i)
    BY <1>1, <1>2 DEF Bars
  <1> HIDE DEF L
  <1>4. \A j \in Instances : j # i => Bars(j)' = Bars(j) /\ Repeats(j)' = Repeats(j)
    BY <1>2 DEF Bars, Repeats
  <1>5. \A b \in Bars(i)' : b \in Bars(i) \/ b = t.bar
    <2>1. \A n \in 1 .. L + 1 : n \in 1 .. L \/ n = L + 1
      BY <1>3
    <2>2. QED
      BY <1>3, <2>1 DEF Bars
  <1>6. /\ Repeats(i)' \subseteq Repeats(i) \cup {L + 1}
        /\ Fresh(i) => Repeats(i)' \subseteq Repeats(i)
    <2>1. ASSUME NEW n \in Repeats(i)', n \in 1 .. L
          PROVE  n \in Repeats(i)
      <3>1. PICK m \in 1 .. n - 1 : stepped'[i][m] >= stepped'[i][n]
        BY DEF Repeats
      <3>2. m \in 1 .. L /\ stepped[i][m] >= stepped[i][n]
        BY <1>3, <2>1, <3>1
      <3>3. QED
        BY <1>3, <2>1, <3>1, <3>2 DEF Repeats
    <2>2. Repeats(i)' \subseteq 1 .. L + 1
      BY <1>3 DEF Repeats
    <2>3. ASSUME Fresh(i)
          PROVE  L + 1 \notin Repeats(i)'
      <3>1. \A u \in ticks : u.inst = i => u = t
        BY DEF OneTickPerInstance
      <3>2. \A b \in Bars(i) : b < t.bar
        BY <1>1, <2>3, <3>1 DEF Fresh, HasDecided
      <3>3. ASSUME NEW m \in 1 .. (L + 1) - 1
            PROVE  ~ (stepped'[i][m] >= stepped'[i][L + 1])
        <4>1. m \in 1 .. L
          BY <1>3
        <4>2. stepped'[i][m] \in Bars(i) /\ stepped'[i][L + 1] = t.bar
          BY <1>3, <4>1
        <4>3. stepped'[i][m] \in Nat /\ stepped'[i][m] < t.bar
          BY <1>1, <3>2, <4>2, BarFacts
        <4>4. QED
          BY <1>1, <4>2, <4>3
      <3>4. QED
        BY <3>3 DEF Repeats
    <2>4. \A n \in 1 .. L + 1 : n \in 1 .. L \/ n = L + 1
      BY <1>3
    <2>5. QED
      BY <2>1, <2>2, <2>3, <2>4
  <1>7. Cardinality(Repeats(i)') <= Cardinality(Repeats(i)) + Debt(i)
    <2>1. IsFiniteSet(Repeats(i)) /\ Cardinality(Repeats(i)) \in Nat
      BY <1>1, Counts
    <2>2. CASE Fresh(i)
      <3>1. Cardinality(Repeats(i)') <= Cardinality(Repeats(i))
        BY <1>6, <2>1, <2>2, FS_Subset
      <3>2. QED
        BY <2>1, <2>2, <3>1 DEF Debt
    <2>3. CASE ~Fresh(i)
      <3>1. /\ IsFiniteSet(Repeats(i) \cup {L + 1})
            /\ Cardinality(Repeats(i) \cup {L + 1}) <= Cardinality(Repeats(i)) + 1
        <4> DEFINE held == Repeats(i)
        <4>1. /\ IsFiniteSet(held \cup {L + 1})
              /\ Cardinality(held \cup {L + 1})
                   = IF L + 1 \in held THEN Cardinality(held) ELSE Cardinality(held) + 1
          BY <2>1, FS_AddElement
        <4>2. Cardinality(held) \in Nat
          BY <2>1
        <4> HIDE DEF held
        <4>3. Cardinality(held \cup {L + 1}) <= Cardinality(held) + 1
          BY <4>1, <4>2
        <4>4. QED
          BY <4>1, <4>3 DEF held
      <3>2. /\ Cardinality(Repeats(i)') <= Cardinality(Repeats(i) \cup {L + 1})
            /\ Cardinality(Repeats(i)') \in Nat /\ Cardinality(Repeats(i) \cup {L + 1}) \in Nat
        BY <1>6, <3>1, FS_Subset, FS_CardinalityType
      <3>3. QED
        BY <2>1, <2>3, <3>1, <3>2 DEF Debt
    <2>4. QED
      BY <2>2, <2>3
  <1>8. ASSUME NEW j \in Instances
        PROVE  Cardinality(Repeats(j)') + Debt(j)' <= Cardinality(Reported(j)')
    <2>1. Reported(j)' = Reported(j)
      BY DEF Reported
    <2>2. Cardinality(Repeats(j)) + Debt(j) <= Cardinality(Reported(j))
      BY DEF RepeatInv
    <2>3. CASE j = i
      <3>1. Fresh(i)'
        BY DEF Fresh, Goto
      <3>2. Debt(i)' = 0
        BY <3>1 DEF Debt
      <3>3. Cardinality(Repeats(i)') \in Nat
        BY <1>1, <1>6, Counts, FS_AddElement, FS_Subset, FS_CardinalityType
      <3>4. QED
        BY <1>7, <2>1, <2>2, <2>3, <3>2, <3>3, Counts
    <2>4. CASE j # i
      <3>1. \A u \in ticks \cup ticks' : u.inst = j => (u \in ticks <=> u \in ticks')
        BY <2>4 DEF Goto
      <3>2. Fresh(j) => Fresh(j)'
        BY <1>4, <2>4, <3>1, OthersStand
      <3>3. Debt(j)' \in 0 .. 1 /\ Debt(j)' <= Debt(j)
        BY <3>2 DEF Debt
      <3>4. QED
        BY <1>4, <2>1, <2>2, <2>4, <3>3, Counts
    <2>5. QED
      BY <2>3, <2>4
  <1>9. \A j \in Instances : \A b \in Bars(j)' : b >= 1 /\ b <= clock'
    BY <1>1, <1>4, <1>5 DEF RepeatInv
  <1>10. ASSUME NEW u \in ticks'
         PROVE  InOrder(u)'
    <2>1. CASE u = t2
      <3>1. \A b \in Bars(i)' : b <= t.bar
        BY <1>1, <1>5
      <3>2. QED
        BY <1>1, <2>1, <3>1 DEF InOrder
    <2>2. CASE u \in ticks /\ u # t
      <3>1. u.inst # i /\ u.inst \in Instances /\ InOrder(u)
        BY <2>2, BarFacts DEF OneTickPerInstance, RepeatInv
      <3>2. QED
        BY <1>4, <3>1 DEF InOrder
    <2>3. QED
      BY <2>1, <2>2 DEF Goto
  <1>11. QED
    BY <1>8, <1>9, <1>10 DEF RepeatInv

\* A tick that has decided goes on.
LEMMA DecidedGoesOn ==
  ASSUME TypeOK, OneTickPerInstance, RepeatInv, NEW t \in ticks, t.pc \in HasDecided,
         UNCHANGED <<stepped, filled, clock>>,
         \A j \in Instances : j # t.inst => portfolio'[j].last = portfolio[j].last,
         NEW t2, Goto(t, t2), t2.inst = t.inst, t2.bar = t.bar, t2.pc \in HasDecided
  PROVE  RepeatInv'
  <1>1. Bars(t.inst)' = Bars(t.inst) /\ InOrder(t) /\ t.pc # "fetch"
    BY DEF Bars, RepeatInv, HasDecided
  <1>2. InOrder(t2)'
    BY <1>1 DEF InOrder
  <1>3. Fresh(t.inst)'
    BY DEF Fresh, Goto
  <1>4. QED
    BY <1>2, <1>3, RepeatsMove

LEMMA RepeatTickStep ==
  ASSUME TypeOK, OneTickPerInstance, RepeatInv, NEW t \in ticks, TickStep(t)
  PROVE  RepeatInv'
  <1> DEFINE i == t.inst
  <1>1. /\ t \in Tick /\ i \in Instances /\ t.bar \in Nat /\ InOrder(t)
        /\ portfolio[i] \in PortfolioRow /\ portfolio[i].last \in Nat /\ t.pf \in PortfolioRow
        /\ portfolio \in [Instances -> PortfolioRow]
        /\ clock \in Nat /\ clock >= 1
        /\ \A u \in ticks : u.inst = i => u = t
        /\ \A b \in Bars(i) : b >= 1 /\ b \in Nat /\ b <= clock
    BY BarFacts DEF RepeatInv, TypeOK, StoreTypeOK, OneTickPerInstance
  <1>2. CASE Fetch(t)
    <2>1. PICK t2 : t2 = [t EXCEPT !.pc = "load", !.bar = clock]
      OBVIOUS
    <2>2. t2.pc = "load" /\ t2.inst = i /\ t2.bar = clock
      BY <1>1, <2>1 DEF Tick
    <2>3. /\ t.pc = "fetch" /\ UNCHANGED <<stepped, filled, clock, portfolio>>
          /\ Goto(t, t2) \/ Return(t)
      BY <1>2, <2>1 DEF Fetch, storeVars
    <2>4. Bars(i)' = Bars(i)
      BY <2>3 DEF Bars
    <2>5. InOrder(t2)'
      BY <1>1, <2>2, <2>3, <2>4 DEF InOrder
    <2>6. Fresh(i) => Fresh(i)'
      BY <1>1, <2>2, <2>3, <2>4 DEF Fresh, HasDecided, Goto, Return
    <2>7. QED
      BY <2>2, <2>3, <2>5, <2>6, RepeatsMove
  <1>3. CASE Load(t)
    <2>1. PICK row : row = [portfolio[i] EXCEPT !.row = TRUE]
      OBVIOUS
    <2>2. PICK t2 : t2 = [t EXCEPT !.pc = "step", !.pf = row, !.rt = runtime[i]]
      OBVIOUS
    <2>3. /\ t.pc = "load" /\ UNCHANGED <<stepped, filled, clock>>
          /\ portfolio' = [portfolio EXCEPT ![i] = row]
          /\ IF row.last = 0 \/ t.bar > row.last THEN Goto(t, t2) ELSE Return(t)
      BY <1>3, <2>1, <2>2 DEF Load
    <2>4. row.last = portfolio[i].last /\ t2.pc = "step" /\ t2.bar = t.bar /\ t2.inst = i
      BY <1>1, <2>1, <2>2 DEF PortfolioRow, Tick
    <2>5. \A j \in Instances : portfolio'[j].last = portfolio[j].last
      BY <1>1, <2>3, <2>4
    <2>6. Bars(i)' = Bars(i)
      BY <2>3 DEF Bars
    <2>7. InOrder(t2)'
      BY <1>1, <2>3, <2>4, <2>6 DEF InOrder
    <2>8. ASSUME Fresh(i)
          PROVE  Fresh(i)'
      <3>1. \A b \in Bars(i) : b <= portfolio[i].last
        BY <1>1, <2>3, <2>8 DEF Fresh, HasDecided
      <3>2. CASE Goto(t, t2) /\ (row.last = 0 \/ t.bar > row.last)
        <4>1. \A b \in Bars(i)' : b < t2.bar
          BY <1>1, <2>4, <2>6, <3>1, <3>2
        <4>2. QED
          BY <2>4, <3>2, <4>1 DEF Fresh, Goto
      <3>3. CASE Return(t)
        <4>1. \A u \in ticks' : u.inst # i
          BY <1>1, <3>3 DEF Return
        <4>2. QED
          BY <1>1, <2>5, <2>6, <3>1, <4>1 DEF Fresh
      <3>4. QED
        BY <2>3, <3>2, <3>3
    <2>9. Goto(t, t2) \/ Return(t)
      BY <2>3
    <2>10. QED
      BY <2>3, <2>4, <2>5, <2>7, <2>8, <2>9, RepeatsMove
  <1>4. CASE Decide(t)
    <2>1. PICK d \in Step(t.pf, t.rt, MonthOf[t.bar + 1]) : Goto(t, Decided(t, d))
      BY <1>4 DEF Decide
    <2>2. /\ Decided(t, d).inst = i /\ Decided(t, d).bar = t.bar
          /\ Decided(t, d).pc \in {"readrelease", "dispatch", "advance"}
      BY <1>1 DEF Decided, WithOrder, Tick
    <2>3. Calls(t) /\ UNCHANGED <<portfolio, filled, clock>> /\ Decided(t, d).pc \in HasDecided
      BY <1>4, <2>2 DEF Decide, HasDecided
    <2>4. QED
      BY <2>1, <2>2, <2>3, RepeatsDecide
  <1>5. CASE ReadRelease(t)
    <2>1. PICK t2 : t2 = [t EXCEPT !.pc = "saverelease", !.pf = portfolio[i]]
      OBVIOUS
    <2>2. t2.inst = i /\ t2.bar = t.bar /\ t2.pc \in HasDecided
      BY <1>1, <2>1 DEF Tick, HasDecided
    <2>3. UNCHANGED <<stepped, filled, clock, portfolio>> /\ Goto(t, t2) /\ t.pc \in HasDecided
      BY <1>5, <2>1 DEF ReadRelease, storeVars, HasDecided
    <2>4. QED
      BY <2>2, <2>3, DecidedGoesOn
  <1>6. CASE SaveRelease(t)
    <2>1. PICK row : portfolio' = [portfolio EXCEPT ![i] = row]
      BY <1>6 DEF SaveRelease, WithReleased
    <2>2. \A j \in Instances : j # i => portfolio'[j].last = portfolio[j].last
      BY <1>1, <2>1
    <2>3. UNCHANGED <<stepped, filled, clock>> /\ Goto(t, WithOrder(t)) /\ t.pc \in HasDecided
      BY <1>6 DEF SaveRelease, HasDecided
    <2>4. /\ WithOrder(t).inst = i /\ WithOrder(t).bar = t.bar
          /\ WithOrder(t).pc \in {"advance", "dispatch"}
      BY <1>1 DEF WithOrder, Tick
    <2>5. WithOrder(t).pc \in HasDecided
      BY <2>4 DEF HasDecided
    <2>6. QED
      BY <2>2, <2>3, <2>4, <2>5, DecidedGoesOn
  <1>7. CASE Dispatch(t)
    <2>1. PICK t2 : t2 = [t EXCEPT !.pc = "send"]
      OBVIOUS
    <2>2. t2.inst = i /\ t2.bar = t.bar /\ t2.pc \in HasDecided
      BY <1>1, <2>1 DEF Tick, HasDecided
    <2>3. UNCHANGED <<stepped, filled, clock, portfolio>> /\ Goto(t, t2) /\ t.pc \in HasDecided
      BY <1>7, <2>1 DEF Dispatch, HasDecided
    <2>4. QED
      BY <2>2, <2>3, DecidedGoesOn
  <1>8. CASE Send(t)
    <2>1. PICK t2 : t2 = [t EXCEPT !.pc = "advance", !.order = NoOrder]
      OBVIOUS
    <2>2. t2.inst = i /\ t2.bar = t.bar /\ t2.pc \in HasDecided
      BY <1>1, <2>1 DEF Tick, HasDecided
    <2>3. UNCHANGED <<stepped, filled, clock, portfolio>> /\ Goto(t, t2) /\ t.pc \in HasDecided
      BY <1>8, <2>1 DEF Send, storeVars, HasDecided
    <2>4. QED
      BY <2>2, <2>3, DecidedGoesOn
  <1>9. CASE Advance(t)
    <2>1. /\ t.pc = "advance" /\ UNCHANGED <<stepped, filled, clock>> /\ Return(t)
          /\ portfolio' = [portfolio EXCEPT ![i] = [portfolio[i] EXCEPT !.last = t.bar]]
      BY <1>9 DEF Advance
    <2>2. /\ portfolio'[i].last = t.bar
          /\ \A j \in Instances : j # i => portfolio'[j].last = portfolio[j].last
      <3>1. [portfolio[i] EXCEPT !.last = t.bar].last = t.bar
        BY <1>1 DEF PortfolioRow
      <3>2. QED
        BY <1>1, <2>1, <3>1
    <2>3. \A b \in Bars(i)' : b <= portfolio'[i].last
      BY <1>1, <2>1, <2>2 DEF Bars, InOrder
    <2>4. \A u \in ticks' : u.inst # i
      BY <1>1, <2>1 DEF Return
    <2>5. Fresh(i)'
      BY <2>3, <2>4 DEF Fresh
    <2>6. QED
      BY <2>1, <2>2, <2>5, RepeatsMove
  <1>10. QED
    BY <1>2, <1>3, <1>4, <1>5, <1>6, <1>7, <1>8, <1>9 DEF TickStep

\* A report may bring the row of its command back, and is counted for it.
LEMMA RepeatReport ==
  ASSUME TypeOK, FilledIffTraded, RepeatInv, ReportCommits
  PROVE  RepeatInv'
  <1>1. UNCHANGED <<ticks, stepped, clock>>
    BY DEF ReportCommits, tickVars
  <1>2. \A j : Bars(j)' = Bars(j) /\ Repeats(j)' = Repeats(j)
    BY <1>1 DEF Bars, Repeats
  <1>3. ASSUME NEW rows \in [Instances -> PortfolioRow], NEW bal, NEW j \in Instances
        PROVE  WithBalances(rows, bal)[j].last = rows[j].last
    BY DEF WithBalances, PortfolioRow
  <1>4. portfolio \in [Instances -> PortfolioRow]
    BY DEF TypeOK, StoreTypeOK
  <1>5. ASSUME NEW j \in Instances, portfolio'[j].last = portfolio[j].last
        PROVE  Debt(j)' <= Debt(j) /\ Debt(j)' \in 0 .. 1
    <2>1. Fresh(j) => Fresh(j)'
      BY <1>1, <1>2, <1>5, OthersStand
    <2>2. QED
      BY <2>1 DEF Debt
  <1>6. CASE UNCHANGED filled /\ \E bal : portfolio' = WithBalances(portfolio, bal)
    <2>1. \A j \in Instances : portfolio'[j].last = portfolio[j].last
      BY <1>3, <1>4, <1>6
    <2>2. \A j \in Instances : Fresh(j) => Fresh(j)'
      BY <1>1, <1>2, <2>1, OthersStand
    <2>3. clock' \in Nat /\ clock <= clock'
      BY <1>1, BarFacts
    <2>4. QED
      BY <1>1, <1>6, <2>2, <2>3, RepeatsStand
  <1>7. ASSUME NEW c \in pending, NEW row \in ReportRows, NEW bal,
               portfolio' = WithBalances([portfolio EXCEPT ![c.inst] = row], bal),
               filled' = filled \cup {c}
        PROVE  RepeatInv'
    <2> DEFINE i == c.inst
    <2>1. i \in Instances /\ c \notin filled
      BY DEF TypeOK, StoreTypeOK, Command, FilledIffTraded
    <2>2. \A j \in Instances : j # i => portfolio'[j].last = portfolio[j].last
      <3>1. [portfolio EXCEPT ![i] = row] \in [Instances -> PortfolioRow]
        BY <1>4, TickAssumption
      <3>2. \A j \in Instances : j # i => [portfolio EXCEPT ![i] = row][j] = portfolio[j]
        BY <1>4
      <3>3. QED
        BY <1>3, <1>7, <3>1, <3>2
    <2>3. IsFiniteSet(filled')
      BY <1>7, FS_AddElement DEF RepeatInv
    <2>4. \A j \in Instances : j # i => Reported(j)' = Reported(j)
      BY <1>7 DEF Reported
    <2>5. Reported(i)' = Reported(i) \cup {c} /\ c \notin Reported(i)
      BY <1>7, <2>1 DEF Reported
    <2>6. Cardinality(Reported(i)') = Cardinality(Reported(i)) + 1
      BY <2>1, <2>5, Counts, FS_AddElement
    <2>7. ASSUME NEW j \in Instances
          PROVE  Cardinality(Repeats(j)') + Debt(j)' <= Cardinality(Reported(j)')
      <3>1. /\ Cardinality(Repeats(j)) + Debt(j) <= Cardinality(Reported(j))
            /\ Cardinality(Repeats(j)') = Cardinality(Repeats(j))
        BY <1>2 DEF RepeatInv
      <3>2. CASE j = i
        <4>1. Debt(j)' \in 0 .. 1
          BY DEF Debt
        <4>2. QED
          BY <2>6, <3>1, <3>2, <4>1, Counts
      <3>3. CASE j # i
        BY <1>5, <2>2, <2>4, <3>1, <3>3, Counts
      <3>4. QED
        BY <3>2, <3>3
    <2>8. \A u \in ticks' : InOrder(u)'
      BY <1>1, <1>2 DEF RepeatInv, InOrder
    <2>9. \A j \in Instances : \A b \in Bars(j)' : b >= 1 /\ b <= clock'
      BY <1>1, <1>2 DEF RepeatInv
    <2>10. QED
      BY <2>3, <2>7, <2>8, <2>9 DEF RepeatInv
  <1>8. QED
    BY <1>6, <1>7 DEF ReportCommits

LEMMA RepeatStep ==
  ASSUME NoLostWrites, SettleInv, RepeatInv, [Next]_vars
  PROVE  RepeatInv'
  <1>1. TypeOK /\ OneTickPerInstance /\ FilledIffTraded
    BY DEF SettleInv
  <1>2. CASE Scan
    <2>1. \A i \in Instances : InOrder(NewTick(i))'
      BY DEF InOrder, NewTick
    <2>2. /\ UNCHANGED <<stepped, filled, clock, portfolio>> /\ ticks = {}
          /\ \A u \in ticks' : u.pc = "fetch" /\ InOrder(u)'
      BY <1>2, <2>1 DEF Scan, storeVars, NewTick
    <2>3. \A i \in Instances : Fresh(i) => Fresh(i)'
      BY <2>2 DEF Fresh, Bars
    <2>4. clock' \in Nat /\ clock <= clock'
      BY <1>1, <2>2, BarFacts
    <2>5. QED
      BY <1>1, <2>2, <2>3, <2>4, RepeatsStand
  <1>3. CASE \E t \in ticks : TickStep(t) \/ TickFault(t)
    BY <1>1, <1>3, NoFaults, RepeatTickStep
  <1>4. CASE ReportCommits
    BY <1>1, <1>4, RepeatReport
  <1>5. CASE (\E i \in Instances : User(i)) \/ NewBar \/ UNCHANGED vars
    <2>1. UNCHANGED <<stepped, filled, portfolio, ticks>> /\ (clock' = clock \/ clock' = clock + 1)
      BY <1>5 DEF User, Start, Stop, Delete, NewBar, vars, storeVars, tickVars
    <2>2. clock' \in Nat /\ clock <= clock'
      BY <1>1, <2>1, BarFacts
    <2>3. \A i \in Instances : Fresh(i) => Fresh(i)'
      BY <2>1 DEF Fresh, Bars
    <2>4. QED
      BY <1>1, <2>1, <2>2, <2>3, RepeatsStand
  <1>6. QED
    BY <1>2, <1>3, <1>4, <1>5, NoFaults DEF Next

\* While no statement fails and no process dies, a bar is decided again only when
\* fill reports brought the row of its instance back, and at most once for each of
\* them, whatever rows they save and however they race with the ticks
\* (portfolio.go:103, manager.go:178-182, :296).
THEOREM RepeatsAreReported ==
  ASSUME NoLostWrites
  PROVE  Spec => []RepeatedByReports
  <1>1. Init => RepeatInv
    <2> SUFFICES ASSUME Init PROVE RepeatInv
      OBVIOUS
    <2>1. /\ ticks = {} /\ filled = {}
          /\ \A i \in Instances : Bars(i) = {} /\ Repeats(i) = {} /\ Reported(i) = {}
      BY DEF Init, StoreInit, Bars, Repeats, Reported
    <2>2. \A i \in Instances : Debt(i) = 0
      BY <2>1 DEF Debt, Fresh
    <2>3. QED
      BY <2>1, <2>2, FS_EmptySet DEF RepeatInv
  <1>2. SettleInv /\ RepeatInv /\ [Next]_vars => RepeatInv'
    BY RepeatStep
  <1>3. SettleInv /\ RepeatInv => RepeatedByReports
    <2> SUFFICES ASSUME SettleInv, RepeatInv, NEW i \in Instances
                 PROVE  Cardinality(Repeats(i)) <= Cardinality(Reported(i))
      BY DEF RepeatedByReports, Reported
    <2>1. TypeOK
      BY DEF SettleInv
    <2>2. Cardinality(Repeats(i)) + Debt(i) <= Cardinality(Reported(i))
      BY DEF RepeatInv
    <2>3. QED
      BY <2>1, <2>2, Counts
  <1>4. QED
    BY <1>1, <1>2, <1>3, SettleInductive, PTL DEF Spec
-----------------------------------------------------------------------------
(* What the ticks put on record is a BUY or a SELL; and where nothing may be   *)
(* released no tick saves a row that it read before.                           *)

IsReal(order) == order.action \in {"BUY", "SELL"}

RealTick(t) ==
  /\ t.order = NoOrder \/ IsReal(t.order)
  /\ t.pc \in {"dispatch", "send"} => IsReal(t.order)
  /\ MaxRelease = 0 => t.pc \notin {"readrelease", "saverelease"}

RealInv ==
  /\ \A c \in Executions : IsReal(c.order)
  /\ \A t \in ticks : RealTick(t)

LEMMA RealDecision ==
  ASSUME NEW pf, pf.dead \in Nat, NEW rt, NEW m, NEW d \in Step(pf, rt, m)
  PROVE  /\ d.order = NoOrder \/ IsReal(d.order)
         /\ MaxRelease = 0 => d.release = 0
  <1>1. PICK e, r : /\ d.order = e[2] /\ d.release = r
                    /\ e[2] = NoOrder \/ IsReal(e[2])
                    /\ r = 0 \/ r \in 0 .. Released(pf)
    <2>1. CASE d = Decision(rt, NoOrder, 0)
      <3>1. d.order = <<rt, NoOrder>>[2] /\ d.release = 0
        BY <2>1 DEF Decision
      <3>2. QED
        BY <3>1
    <2>2. ASSUME NEW e \in MacroDecisions(pf, rt, m) \cup MicroDecisions(pf, rt),
                 NEW r \in 0 .. Released(pf), d = Decision(e[1], e[2], r)
          PROVE  d.order = e[2] /\ d.release = r /\ (e[2] = NoOrder \/ IsReal(e[2]))
      <3>1. e[2] = NoOrder \/ IsReal(e[2])
        BY <2>2 DEF MacroDecisions, MicroDecisions, IsReal, Buy, Sell
      <3>2. QED
        BY <2>2, <3>1 DEF Decision
    <2>3. QED
      BY <2>1, <2>2 DEF Step
  <1>2. MaxRelease = 0 => r = 0
    BY <1>1 DEF Released
  <1>3. QED
    BY <1>1, <1>2

LEMMA RealTickStep ==
  ASSUME TypeOK, RealInv, NEW t \in ticks, TickStep(t) \/ TickFault(t)
  PROVE  RealInv'
  <1>1. t \in Tick /\ RealTick(t) /\ t.pf \in PortfolioRow
    BY DEF TypeOK, RealInv, Tick
  <1>2. ASSUME Executions' = Executions \/ Executions' = Executions \cup {CommandOf(t)},
               Executions' = Executions \/ IsReal(t.order),
               Return(t) \/ \E t2 : Goto(t, t2) /\ RealTick(t2)
        PROVE  RealInv'
    <2>1. \A c \in Executions' : IsReal(c.order)
      BY <1>2 DEF RealInv, CommandOf
    <2>2. \A u \in ticks' : RealTick(u)
      BY <1>2 DEF RealInv, Return, Goto
    <2>3. QED
      BY <2>1, <2>2 DEF RealInv
  <1>3. ASSUME pending' = pending, filled' = filled
        PROVE  Executions' = Executions
    BY <1>3 DEF Executions
  <1>4. ASSUME NEW u \in Tick, u.order = NoOrder \/ IsReal(u.order)
        PROVE  RealTick(WithOrder(u))
    <2>1. WithOrder(u).order = u.order
          /\ WithOrder(u).pc = IF u.order = NoOrder THEN "advance" ELSE "dispatch"
      BY <1>4 DEF WithOrder, Tick
    <2>2. QED
      BY <1>4, <2>1 DEF RealTick
  <1>5. CASE Fetch(t)
    <2>1. PICK t2 : t2 = [t EXCEPT !.pc = "load", !.bar = clock]
      OBVIOUS
    <2>2. RealTick(t2)
      BY <1>1, <2>1 DEF RealTick, Tick
    <2>3. QED
      BY <1>2, <1>3, <1>5, <2>1, <2>2 DEF Fetch, storeVars
  <1>6. CASE Load(t)
    <2>1. PICK t2 : (Goto(t, t2) /\ RealTick(t2)) \/ Return(t)
      <3>1. \A pf, rt : RealTick([t EXCEPT !.pc = "step", !.pf = pf, !.rt = rt])
        BY <1>1 DEF RealTick, Tick
      <3>2. QED
        BY <1>6, <3>1 DEF Load
    <2>2. QED
      BY <1>2, <1>3, <1>6, <2>1 DEF Load
  <1>7. CASE Decide(t)
    <2>1. PICK d \in Step(t.pf, t.rt, MonthOf[t.bar + 1]) : Goto(t, Decided(t, d))
      BY <1>7 DEF Decide
    <2>2. (d.order = NoOrder \/ IsReal(d.order)) /\ (MaxRelease = 0 => d.release = 0)
      BY <1>1, <2>1, RealDecision DEF PortfolioRow
    <2>3. d.order \in Order /\ d.release \in Nat
      <3>1. MonthOf[t.bar + 1] \in Nat /\ t.rt \in RuntimeRow
        BY <1>1, Months DEF Tick
      <3>2. QED
        BY <1>1, <2>1, <3>1, StepDecision DEF SoundDecision
    <2>4. PICK u : u = [t EXCEPT !.rt = NewRuntime, !.pf = EmptyRow,
                                 !.order = d.order, !.release = d.release]
      OBVIOUS
    <2>5. u \in Tick /\ u.order = d.order
      BY <1>1, <2>3, <2>4, Rows DEF Tick
    <2>6. RealTick(WithOrder(u))
      BY <1>4, <2>2, <2>5
    <2>7. MaxRelease # 0 => RealTick([u EXCEPT !.pc = "readrelease"])
      BY <2>2, <2>5 DEF RealTick, Tick
    <2>8. d.release > 0 => MaxRelease # 0
      BY <2>2, <2>3
    <2>9. RealTick(Decided(t, d))
      BY <2>4, <2>6, <2>7, <2>8 DEF Decided
    <2>10. QED
      BY <1>2, <1>3, <1>7, <2>1, <2>9 DEF Decide
  <1>8. CASE ReadRelease(t)
    <2>1. PICK t2 : t2 = [t EXCEPT !.pc = "saverelease", !.pf = portfolio[t.inst]]
      OBVIOUS
    <2>2. RealTick(t2)
      BY <1>1, <1>8, <2>1 DEF RealTick, Tick, ReadRelease
    <2>3. QED
      BY <1>2, <1>3, <1>8, <2>1, <2>2 DEF ReadRelease, storeVars
  <1>9. CASE SaveRelease(t)
    BY <1>1, <1>2, <1>3, <1>4, <1>9 DEF SaveRelease, RealTick
  <1>10. CASE ReleaseFails(t)
    BY <1>1, <1>2, <1>3, <1>4, <1>10 DEF ReleaseFails, RealTick, storeVars
  <1>11. RealTick([t EXCEPT !.pc = "advance", !.order = NoOrder])
    BY <1>1 DEF RealTick, Tick
  <1>12. ASSUME pending' = pending \cup {CommandOf(t)}, filled' = filled
         PROVE  Executions' = Executions \cup {CommandOf(t)}
    BY <1>12 DEF Executions
  <1>13. CASE Dispatch(t)
    <2>1. IsReal(t.order) /\ RealTick([t EXCEPT !.pc = "send"])
      BY <1>1, <1>13 DEF Dispatch, RealTick, Tick
    <2>2. QED
      BY <1>2, <1>12, <1>13, <2>1 DEF Dispatch
  <1>14. CASE DispatchFails(t)
    <2>1. IsReal(t.order)
      BY <1>1, <1>14 DEF DispatchFails, RealTick
    <2>2. pending' = pending \/ pending' = pending \cup {CommandOf(t)}
      BY <1>14 DEF DispatchFails
    <2>3. QED
      BY <1>2, <1>3, <1>11, <1>12, <1>14, <2>1, <2>2 DEF DispatchFails
  <1>15. CASE Send(t)
    BY <1>2, <1>3, <1>11, <1>15 DEF Send, storeVars
  <1>16. CASE Advance(t)
    BY <1>2, <1>3, <1>16 DEF Advance
  <1>17. CASE LoadFails(t) \/ DecideFails(t) \/ AdvanceFails(t)
    BY <1>2, <1>3, <1>17 DEF LoadFails, DecideFails, AdvanceFails, Fail
  <1>18. QED
    BY <1>5, <1>6, <1>7, <1>8, <1>9, <1>10, <1>13, <1>14, <1>15, <1>16, <1>17
       DEF TickStep, TickFault

LEMMA RealStep ==
  ASSUME TypeOK, RealInv, [Next]_vars
  PROVE  RealInv'
  <1>1. ASSUME Executions' = Executions, \A u \in ticks' : u \in ticks \/ RealTick(u)
        PROVE  RealInv'
    BY <1>1 DEF RealInv
  <1>2. CASE Scan
    <2>1. \A i \in Instances : RealTick(NewTick(i))
      BY DEF RealTick, NewTick
    <2>2. Executions' = Executions
      BY <1>2 DEF Scan, storeVars, Executions
    <2>3. QED
      BY <1>1, <1>2, <2>1, <2>2 DEF Scan
  <1>3. CASE \E t \in ticks : TickStep(t) \/ TickFault(t)
    BY <1>3, RealTickStep
  <1>4. CASE (\E i \in Instances : User(i)) \/ NewBar \/ Crash \/ UNCHANGED vars
    <2>1. pending' = pending /\ filled' = filled /\ ticks' \subseteq ticks
      BY <1>4 DEF User, Start, Stop, Delete, NewBar, Crash, vars, storeVars, tickVars
    <2>2. QED
      BY <1>1, <2>1 DEF Executions
  <1>5. CASE ReportCommits
    <2>1. ticks' = ticks /\ Executions' = Executions
      BY <1>5 DEF ReportCommits, tickVars, Executions
    <2>2. QED
      BY <1>1, <2>1
  <1>6. QED
    BY <1>2, <1>3, <1>4, <1>5 DEF Next

LEMMA RealInit == Init => RealInv
  BY DEF Init, StoreInit, RealInv, Executions
-----------------------------------------------------------------------------
(* Where the order of a tick comes from: a SELL is decided over a row that the *)
(* tick has read, and is never of more than the float stack of that row.       *)

Sells(order, qty) == order.action = "SELL" => order.qty <= qty

OrdersRead ==
  \A u \in ticks' : \/ u.order = NoOrder
                    \/ \E t \in ticks : u.order = t.order \/ Sells(u.order, t.pf.float)

ExecutionsRead == \A c \in Executions' : c \in Executions \/ \E t \in ticks : c.order = t.order

LEMMA SaleDecision ==
  ASSUME NEW pf, pf.float \in Nat, NEW rt, NEW m, NEW d \in Step(pf, rt, m)
  PROVE  Sells(d.order, pf.float)
  <1>1. Sells(NoOrder, pf.float)
    BY DEF Sells, NoOrder
  <1>2. \A k : Sells(Buy(m, k), pf.float)
    BY DEF Sells, Buy
  <1>3. \A q \in Nat : q <= pf.float => Sells(Sell(q), pf.float)
    BY DEF Sells, Sell
  <1>4. CASE d = Decision(rt, NoOrder, 0)
    BY <1>1, <1>4 DEF Decision
  <1>5. ASSUME NEW e \in MacroDecisions(pf, rt, m) \cup MicroDecisions(pf, rt), NEW r,
               d = Decision(e[1], e[2], r)
        PROVE  Sells(d.order, pf.float)
    <2>1. d.order = e[2]
      BY <1>5 DEF Decision
    <2>2. CASE e \in MacroDecisions(pf, rt, m)
      <3>1. e[2] = NoOrder \/ \E k \in Tiers : e[2] = Buy(m, k)
        BY <2>2 DEF MacroDecisions
      <3>2. QED
        BY <1>1, <1>2, <2>1, <3>1
    <2>3. CASE e \in MicroDecisions(pf, rt)
      <3>1. e[2] = NoOrder \/ \E q \in Nat : q <= pf.float /\ e[2] = Sell(q)
        BY <2>3 DEF MicroDecisions
      <3>2. QED
        BY <1>1, <1>3, <2>1, <3>1
    <2>4. QED
      BY <2>2, <2>3
  <1>6. QED
    BY <1>4, <1>5 DEF Step

LEMMA TickOrders ==
  ASSUME TypeOK, NEW t \in ticks, TickStep(t) \/ TickFault(t)
  PROVE  OrdersRead /\ ExecutionsRead
  <1>1. t \in Tick /\ t.pf \in PortfolioRow /\ t.pf.float \in Nat
    BY DEF TypeOK, Tick, PortfolioRow
  <1>2. ASSUME Return(t)
        PROVE  OrdersRead
    BY <1>2 DEF Return, OrdersRead
  <1>3. ASSUME NEW u, Goto(t, u), u.order \in {NoOrder, t.order} \/ Sells(u.order, t.pf.float)
        PROVE  OrdersRead
    BY <1>3 DEF Goto, OrdersRead
  <1>4. ASSUME filled' = filled, pending' = pending \/ pending' = pending \cup {CommandOf(t)}
        PROVE  ExecutionsRead
    BY <1>4 DEF Executions, ExecutionsRead, CommandOf
  <1>5. ASSUME NEW u \in Tick
        PROVE  WithOrder(u).order = u.order
    BY <1>5 DEF WithOrder, Tick
  <1>6. CASE Fetch(t)
    <2>1. PICK u : u = [t EXCEPT !.pc = "load", !.bar = clock]
      OBVIOUS
    <2>2. u.order = t.order
      BY <1>1, <2>1 DEF Tick
    <2>3. QED
      BY <1>2, <1>3, <1>4, <1>6, <2>1, <2>2 DEF Fetch, storeVars
  <1>7. CASE Load(t)
    <2>1. \A pf, rt : [t EXCEPT !.pc = "step", !.pf = pf, !.rt = rt].order = t.order
      BY <1>1 DEF Tick
    <2>2. OrdersRead
      BY <1>2, <1>3, <1>7, <2>1 DEF Load
    <2>3. QED
      BY <1>4, <1>7, <2>2 DEF Load
  <1>8. CASE Decide(t)
    <2>1. PICK d \in Step(t.pf, t.rt, MonthOf[t.bar + 1]) : Goto(t, Decided(t, d))
      BY <1>8 DEF Decide
    <2>2. Decided(t, d).order = d.order
      BY <1>1 DEF Decided, WithOrder, Tick
    <2>3. Sells(d.order, t.pf.float)
      BY <1>1, <2>1, SaleDecision
    <2>4. QED
      BY <1>3, <1>4, <1>8, <2>1, <2>2, <2>3 DEF Decide
  <1>9. CASE ReadRelease(t)
    <2>1. PICK u : u = [t EXCEPT !.pc = "saverelease", !.pf = portfolio[t.inst]]
      OBVIOUS
    <2>2. u.order = t.order
      BY <1>1, <2>1 DEF Tick
    <2>3. QED
      BY <1>3, <1>4, <1>9, <2>1, <2>2 DEF ReadRelease, storeVars
  <1>10. CASE SaveRelease(t) \/ ReleaseFails(t)
    BY <1>1, <1>3, <1>4, <1>5, <1>10 DEF SaveRelease, ReleaseFails, storeVars
  <1>11. CASE Dispatch(t)
    <2>1. PICK u : u = [t EXCEPT !.pc = "send"]
      OBVIOUS
    <2>2. u.order = t.order
      BY <1>1, <2>1 DEF Tick
    <2>3. QED
      BY <1>3, <1>4, <1>11, <2>1, <2>2 DEF Dispatch
  <1>12. CASE Send(t) \/ DispatchFails(t)
    <2>1. PICK u : u = [t EXCEPT !.pc = "advance", !.order = NoOrder]
      OBVIOUS
    <2>2. u.order = NoOrder
      BY <1>1, <2>1 DEF Tick
    <2>3. QED
      BY <1>3, <1>4, <1>12, <2>1, <2>2 DEF Send, DispatchFails, storeVars
  <1>13. CASE Advance(t)
    BY <1>2, <1>4, <1>13 DEF Advance
  <1>14. CASE LoadFails(t) \/ DecideFails(t) \/ AdvanceFails(t)
    BY <1>2, <1>4, <1>14 DEF LoadFails, DecideFails, AdvanceFails, Fail
  <1>15. QED
    BY <1>6, <1>7, <1>8, <1>9, <1>10, <1>11, <1>12, <1>13, <1>14 DEF TickStep, TickFault

LEMMA OrdersMove ==
  ASSUME TypeOK, [Next]_vars
  PROVE  OrdersRead /\ ExecutionsRead
  <1>1. ASSUME Executions' = Executions, \A u \in ticks' : u \in ticks \/ u.order = NoOrder
        PROVE  OrdersRead /\ ExecutionsRead
    BY <1>1 DEF OrdersRead, ExecutionsRead
  <1>2. CASE Scan
    <2>1. \A i \in Instances : NewTick(i).order = NoOrder
      BY DEF NewTick
    <2>2. Executions' = Executions
      BY <1>2 DEF Scan, storeVars, Executions
    <2>3. QED
      BY <1>1, <1>2, <2>1, <2>2 DEF Scan
  <1>3. CASE \E t \in ticks : TickStep(t) \/ TickFault(t)
    BY <1>3, TickOrders
  <1>4. CASE (\E i \in Instances : User(i)) \/ NewBar \/ Crash \/ UNCHANGED vars
    <2>1. pending' = pending /\ filled' = filled /\ ticks' \subseteq ticks
      BY <1>4 DEF User, Start, Stop, Delete, NewBar, Crash, vars, storeVars, tickVars
    <2>2. QED
      BY <1>1, <2>1 DEF Executions
  <1>5. CASE ReportCommits
    <2>1. ticks' = ticks /\ Executions' = Executions
      BY <1>5 DEF ReportCommits, tickVars, Executions
    <2>2. QED
      BY <1>1, <2>1
  <1>6. QED
    BY <1>2, <1>3, <1>4, <1>5 DEF Next
=============================================================================
