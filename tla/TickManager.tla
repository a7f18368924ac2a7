----------------------------- MODULE TickManager -----------------------------
(***************************************************************************)
(* The instance manager and the cron scheduler that drives it              *)
(* (internal/saas/instance/manager.go, internal/saas/cron/scheduler.go).   *)
(*                                                                         *)
(* Once a minute the scheduler launches one goroutine per RUNNING instance *)
(* and waits for all of them.  Each goroutine runs Tick: fetch the bars,   *)
(* load the rows, skip a bar already processed, call Step, persist the     *)
(* runtime, apply the release, create the execution and send its command,  *)
(* and advance the last processed bar.  Every database call of the tick is *)
(* an action of its own, so that the users' Start, Stop and Delete, the    *)
(* other ticks, the delta reports and a crash fall between any two.        *)
(*                                                                         *)
(* Step is the pure strategy, module Decisions: the model keeps which      *)
(* orders and which next state the portfolio and the runtime allow.        *)
(***************************************************************************)
EXTENDS SaasStore

CONSTANTS
  Faults,     (* the faults that may strike: see FaultNames                *)
  MaxSteps,   (* bound on the times Step is called for one instance        *)
  ReportRows, (* the portfolio rows a delta report may save                *)
  ReportUsdt, (* the USDT balances a delta report may carry                *)
  ReportQty   (* the quantities a delta report may settle                  *)

\* fetch: no bars; db: a statement of a tick fails; mark: so does the update
\* of markError; crash: the process dies.
FaultNames == {"fetch", "db", "mark", "crash"}

ASSUME TickAssumption ==
  /\ MaxBar > 0 /\ MaxSteps \in Nat /\ MaxRelease \in Nat
  /\ ReportRows \subseteq PortfolioRow /\ ReportUsdt \subseteq Nat /\ ReportQty \subseteq Nat

VARIABLES
  clock,      (* the latest completed bar of the exchange                  *)
  ticks,      (* the Tick goroutines in flight                             *)
  stepped     (* history: the bars Step decided, for each instance         *)

tickVars == <<clock, ticks, stepped>>
vars     == <<storeVars, tickVars>>

Pc == {"fetch", "load", "step", "readrelease", "saverelease", "dispatch", "send", "advance"}

\* bar: latestBarTime; pf: the portfolio row it read last; rt: the runtime row
\* it read; order, release: the intents of Step not yet carried out.
Tick == [inst : Instances, pc : Pc, bar : Bar, pf : PortfolioRow,
         rt : RuntimeRow, order : Order, release : Nat]

NewTick(i) == [inst |-> i, pc |-> "fetch", bar |-> 0, pf |-> EmptyRow,
               rt |-> NewRuntime, order |-> NoOrder, release |-> 0]

TypeOK ==
  /\ StoreTypeOK
  /\ clock \in 1 .. MaxBar
  /\ ticks \subseteq Tick
  /\ stepped \in [Instances -> Seq(Bar)]

Init ==
  /\ StoreInit
  /\ clock = 1
  /\ ticks = {}
  /\ stepped = [i \in Instances |-> <<>>]

-----------------------------------------------------------------------------
\* The lifecycle operations: each is one UPDATE guarded by the status.

Start(i) ==
  /\ status[i] = "STOPPED"
  /\ status' = [status EXCEPT ![i] = "RUNNING"]
  /\ UNCHANGED <<portfolio, runtime, pending, filled, trades, tickVars>>

\* Mutant: the UPDATE without its status condition.
StopAny(i) ==
  /\ status' = [status EXCEPT ![i] = "STOPPED"]
  /\ UNCHANGED <<portfolio, runtime, pending, filled, trades, tickVars>>

Stop(i) ==
  /\ status[i] = "RUNNING"
  /\ status' = [status EXCEPT ![i] = "STOPPED"]
  /\ UNCHANGED <<portfolio, runtime, pending, filled, trades, tickVars>>

Delete(i) ==
  /\ status' = [status EXCEPT ![i] = "DELETED"]
  /\ UNCHANGED <<portfolio, runtime, pending, filled, trades, tickVars>>

\* The status markError leaves: its own failure is ignored.
Marked(i) ==
  {[status EXCEPT ![i] = IF @ = "RUNNING" THEN "ERROR" ELSE @]}
    \cup (IF "mark" \in Faults THEN {status} ELSE {})

-----------------------------------------------------------------------------
\* Mutant: a scan that does not wait for the ticks of the previous one.
ScanWithoutWait ==
  /\ \E i \in Instances : status[i] = "RUNNING"
  /\ ticks' = ticks \cup {NewTick(i) : i \in {j \in Instances : status[j] = "RUNNING"}}
  /\ UNCHANGED <<storeVars, clock, stepped>>

\* Mutant: the query forgets the status.
ScanAny ==
  /\ ticks = {}
  /\ ticks' = {NewTick(i) : i \in {j \in Instances : status[j] # "DELETED"}}
  /\ UNCHANGED <<storeVars, clock, stepped>>

\* scan: wg.Wait holds the next scan back until every tick has returned.
Scan ==
  /\ ticks = {}
  /\ \E i \in Instances : status[i] = "RUNNING"
  /\ ticks' = {NewTick(i) : i \in {j \in Instances : status[j] = "RUNNING"}}
  /\ UNCHANGED <<storeVars, clock, stepped>>

Return(t)   == ticks' = ticks \ {t}
Goto(t, t2) == ticks' = (ticks \ {t}) \cup {t2}

\* A persistent failure: Tick returns an error and its defer marks the row.
Fail(t) ==
  /\ "db" \in Faults
  /\ Return(t)
  /\ status' \in Marked(t.inst)
  /\ UNCHANGED <<pending, filled, trades, clock>>

\* Mutant: the bar is that of the forming candle.
FetchForming(t) ==
  /\ t.pc = "fetch"
  /\ Goto(t, [t EXCEPT !.pc = "load", !.bar = clock + 1])
  /\ UNCHANGED <<storeVars, clock, stepped>>

\* Step 1.  A failed fetch, or fewer than two bars, ends the tick quietly.
Fetch(t) ==
  /\ t.pc = "fetch"
  /\ \/ Goto(t, [t EXCEPT !.pc = "load", !.bar = clock])
     \/ "fetch" \in Faults /\ Return(t)
  /\ UNCHANGED <<storeVars, clock, stepped>>

\* Mutants: the dedup guard lets the last bar pass again, or skips one bar.
LoadWith(t, new) ==
  LET row == [portfolio[t.inst] EXCEPT !.row = TRUE]
  IN /\ t.pc = "load"
     /\ portfolio' = [portfolio EXCEPT ![t.inst] = row]
     /\ IF new THEN Goto(t, [t EXCEPT !.pc = "step", !.pf = row, !.rt = runtime[t.inst]])
               ELSE Return(t)
     /\ UNCHANGED <<status, runtime, pending, filled, trades, clock, stepped>>
LoadAgain(t) == LoadWith(t, t.bar >= portfolio[t.inst].last)
LoadLate(t)  == LoadWith(t, portfolio[t.inst].last = 0 \/ t.bar > portfolio[t.inst].last + 1)

\* Steps 2 to 5: loadOrCreatePortfolio, the dedup guard on the bar, and the
\* reads of the runtime row and of the champion's parameters.
Load(t) ==
  LET i   == t.inst
      row == [portfolio[i] EXCEPT !.row = TRUE]
      new == row.last = 0 \/ t.bar > row.last
  IN /\ t.pc = "load"
     /\ portfolio' = [portfolio EXCEPT ![i] = row]
     /\ IF new THEN Goto(t, [t EXCEPT !.pc = "step", !.pf = row, !.rt = runtime[i]])
               ELSE Return(t)
     /\ UNCHANGED <<status, runtime, pending, filled, trades, clock, stepped>>

LoadFails(t) ==
  /\ t.pc = "load"
  /\ \/ UNCHANGED portfolio
     \/ portfolio' = [portfolio EXCEPT ![t.inst].row = TRUE]
  /\ Fail(t)
  /\ UNCHANGED <<runtime, stepped>>

-----------------------------------------------------------------------------
\* The goroutine's next stop, once the release is dealt with.
WithOrder(t) == [t EXCEPT !.release = 0, !.pf = EmptyRow,
                          !.pc = IF t.order = NoOrder THEN "advance" ELSE "dispatch"]

Decided(t, d) ==
  LET t2 == [t EXCEPT !.rt = NewRuntime, !.pf = EmptyRow,
                      !.order = d.order, !.release = d.release]
  IN IF d.release > 0 THEN [t2 EXCEPT !.pc = "readrelease"] ELSE WithOrder(t2)

Calls(t) ==
  /\ t.pc = "step"
  /\ Len(stepped[t.inst]) < MaxSteps
  /\ stepped' = [stepped EXCEPT ![t.inst] = Append(@, t.bar)]

\* Mutant: the runtime is not persisted.
DecideOnly(t) ==
  /\ Calls(t)
  /\ \E d \in Step(t.pf, t.rt, MonthOf[t.bar + 1]) : Goto(t, Decided(t, d))
  /\ UNCHANGED <<storeVars, clock>>

\* Steps 6 and 7: Step sees the month of the forming candle, the one after the
\* bar that is deduplicated; upsertRuntime persists what it returns.  It is the
\* only writer of the row, of JSON it has marshalled from the struct it is read
\* back into, so that no payload is corrupt and the reset of one never happens.
Decide(t) ==
  /\ Calls(t)
  /\ \E d \in Step(t.pf, t.rt, MonthOf[t.bar + 1]) :
       /\ runtime' = [runtime EXCEPT ![t.inst] = d.rt]
       /\ Goto(t, Decided(t, d))
  /\ UNCHANGED <<status, portfolio, pending, filled, trades, clock>>

\* upsertRuntime returns an error, before or after the row was written.
DecideFails(t) ==
  /\ Calls(t)
  /\ \E d \in Step(t.pf, t.rt, MonthOf[t.bar + 1]) :
       runtime' \in {runtime, [runtime EXCEPT ![t.inst] = d.rt]}
  /\ Fail(t)
  /\ UNCHANGED portfolio

-----------------------------------------------------------------------------
\* Step 8: handleRelease reads the row and saves it whole in one transaction,
\* capped at the dead stack; a failure is logged and the tick goes on.

ReadRelease(t) ==
  /\ t.pc = "readrelease"
  /\ Goto(t, [t EXCEPT !.pc = "saverelease", !.pf = portfolio[t.inst]])
  /\ UNCHANGED <<storeVars, clock, stepped>>

\* Mutant: the release is not taken out of the dead stack.
SaveReleaseTwice(t) ==
  /\ t.pc = "saverelease"
  /\ portfolio' = [portfolio EXCEPT ![t.inst] = [t.pf EXCEPT !.float = @ + t.release]]
  /\ Goto(t, WithOrder(t))
  /\ UNCHANGED <<status, runtime, pending, filled, trades, clock, stepped>>

WithReleased(t) ==
  LET qty == IF t.release > t.pf.dead THEN t.pf.dead ELSE t.release
  IN [portfolio EXCEPT ![t.inst] = [t.pf EXCEPT !.dead = @ - qty, !.float = @ + qty]]

SaveRelease(t) ==
  /\ t.pc = "saverelease"
  /\ portfolio' = WithReleased(t)
  /\ Goto(t, WithOrder(t))
  /\ UNCHANGED <<status, runtime, pending, filled, trades, clock, stepped>>

\* A statement or the commit returns an error; the commit may have been done.
ReleaseFails(t) ==
  /\ "db" \in Faults
  /\ \/ t.pc \in {"readrelease", "saverelease"} /\ UNCHANGED portfolio
     \/ t.pc = "saverelease" /\ portfolio' = WithReleased(t)
  /\ Goto(t, WithOrder(t))
  /\ UNCHANGED <<status, runtime, pending, filled, trades, clock, stepped>>

-----------------------------------------------------------------------------
\* Step 9: dispatchCommand creates the pending execution, then sends.

\* The stepping number stands for nowMs: no two ticks of an instance share it.
CommandOf(t) == [inst |-> t.inst, at |-> Len(stepped[t.inst]), order |-> t.order]

\* Mutant: the command is sent, but no execution is created.
DispatchUnrecorded(t) ==
  /\ t.pc = "dispatch"
  /\ Goto(t, [t EXCEPT !.pc = "send"])
  /\ UNCHANGED <<storeVars, clock, stepped>>

Dispatch(t) ==
  /\ t.pc = "dispatch"
  /\ pending' = pending \cup {CommandOf(t)}
  /\ Goto(t, [t EXCEPT !.pc = "send"])
  /\ UNCHANGED <<status, portfolio, runtime, filled, trades, clock, stepped>>

\* The INSERT returns an error, before or after the row was written: the
\* command is not sent and the tick goes on.
DispatchFails(t) ==
  /\ t.pc = "dispatch"
  /\ "db" \in Faults
  /\ pending' \in {pending, pending \cup {CommandOf(t)}}
  /\ Goto(t, [t EXCEPT !.pc = "advance", !.order = NoOrder])
  /\ UNCHANGED <<status, portfolio, runtime, filled, trades, clock, stepped>>

\* SendToAgent: whatever it returns, the tick goes on.
Send(t) ==
  /\ t.pc = "send"
  /\ Goto(t, [t EXCEPT !.pc = "advance", !.order = NoOrder])
  /\ UNCHANGED <<storeVars, clock, stepped>>

\* Step 10: one column of the row is updated.
Advance(t) ==
  /\ t.pc = "advance"
  /\ portfolio' = [portfolio EXCEPT ![t.inst].last = t.bar]
  /\ Return(t)
  /\ UNCHANGED <<status, runtime, pending, filled, trades, clock, stepped>>

AdvanceFails(t) ==
  /\ t.pc = "advance"
  /\ \/ UNCHANGED portfolio
     \/ portfolio' = [portfolio EXCEPT ![t.inst].last = t.bar]
  /\ Fail(t)
  /\ UNCHANGED <<runtime, stepped>>

-----------------------------------------------------------------------------
\* The process is killed, or shut down without waiting for the ticks.
Crash ==
  /\ "crash" \in Faults
  /\ ticks' = {}
  /\ UNCHANGED <<storeVars, clock, stepped>>

\* External: the exchange completes another candle.
NewBar ==
  /\ clock < MaxBar
  /\ clock' = clock + 1
  /\ UNCHANGED <<storeVars, ticks, stepped>>

\* The delta report handler (module DeltaReport), as the tick sees it: it saves
\* the row of one instance, with a last bar that may be stale by then, settles
\* a pending command and copies a balance to the other rows, or only the last.
ReportCommits ==
  \E bal \in {{}} \cup {{u} : u \in ReportUsdt} :
    \/ /\ portfolio' = WithBalances(portfolio, bal)
       /\ UNCHANGED <<status, runtime, pending, filled, trades, tickVars>>
    \/ \E c \in pending, row \in ReportRows, qty \in ReportQty :
         /\ row.row /\ row.last <= clock
         /\ portfolio' = WithBalances([portfolio EXCEPT ![c.inst] = row], bal)
         /\ pending' = pending \ {c}
         /\ filled' = filled \cup {c}
         /\ trades' = trades \cup {[cmd |-> c, qty |-> qty]}
         /\ UNCHANGED <<status, runtime, tickVars>>

User(i) == Start(i) \/ Stop(i) \/ Delete(i)

TickStep(t) ==
  \/ Fetch(t)
  \/ Load(t)
  \/ Decide(t)
  \/ ReadRelease(t)
  \/ SaveRelease(t)
  \/ Dispatch(t)
  \/ Send(t)
  \/ Advance(t)

TickFault(t) ==
  \/ LoadFails(t)
  \/ DecideFails(t)
  \/ ReleaseFails(t)
  \/ DispatchFails(t)
  \/ AdvanceFails(t)

Next ==
  \/ \E i \in Instances : User(i)
  \/ Scan
  \/ \E t \in ticks : TickStep(t) \/ TickFault(t)
  \/ Crash
  \/ NewBar
  \/ ReportCommits

Spec == Init /\ [][Next]_vars

\* The scheduler scans every minute, and a goroutine is never starved: each of
\* its calls returns, within the 50 s of its context or with an error.
TickFairness ==
  /\ WF_vars(Scan)
  /\ \A i \in Instances : WF_vars(\E t \in ticks : t.inst = i /\ TickStep(t))

LiveSpec == Spec /\ TickFairness

-----------------------------------------------------------------------------
\* No two ticks of one instance run at once: scan waits for the last of the
\* previous ones although they outlive a Stop and a new Start (scheduler.go:98).
OneTickPerInstance == \A t, u \in ticks : t.inst = u.inst => t = u

\* A DCA tier is bought at most once a month, whatever ticks fail half-way, are
\* killed or see a stale portfolio: the tier is persisted in the runtime row
\* before its order exists (manager.go:247 before :261).
TierOncePerMonth ==
  \A c, d \in Executions :
    (/\ c.order.action = "BUY" /\ d.order.action = "BUY"
     /\ c.inst = d.inst /\ c.order.month = d.order.month /\ c.order.tier = d.order.tier)
      => c = d

\* A bar is decided at most once and bars are decided in order: the dedup guard
\* on last_processed_bar_time (manager.go:178-182).
BarOnce ==
  \A i \in Instances : \A m, n \in DOMAIN stepped[i] :
    m < n => stepped[i][m] < stepped[i][n]

\* The decisions of an instance on a bar that is not newer than one before.
Repeats(i) == {n \in DOMAIN stepped[i] : \E m \in 1 .. n - 1 : stepped[i][m] >= stepped[i][n]}

\* A bar comes back for a fill report only, and once for each: the report saves
\* the row as it read it, the last bar of then included (portfolio.go:103), and
\* the guard lets through what that brings back, but no more (manager.go:178).
RepeatedByReports ==
  \A i \in Instances : Cardinality(Repeats(i)) <= Cardinality({c \in filled : c.inst = i})

\* A tier marked triggered has its order on record, or on its way there: the
\* mark and the execution are two writes (manager.go:247 and :430).
TierHasOrder ==
  \A i \in Instances : \A k \in runtime[i].tiers :
    LET Marks(order) == order.action = "BUY" /\ order.tier = k /\ order.month = runtime[i].month
    IN \/ \E c \in Executions : c.inst = i /\ Marks(c.order)
       \/ \E t \in ticks : t.inst = i /\ Marks(t.order)

\* The argument for TierOncePerMonth.  The month of a runtime row is never ahead
\* of the bars; every BUY on record is of an earlier month or of a tier marked
\* triggered; a tick about to decide holds the runtime row as it still is; and
\* the BUY a tick still has to record is marked, but not on record yet.
IsBuy(order) == order.action = "BUY"

MonthNotAhead == \A i \in Instances : runtime[i].month <= MonthOf[clock + 1]

BuysAreMarked ==
  \A c \in Executions : IsBuy(c.order) =>
    \/ c.order.month < runtime[c.inst].month
    \/ c.order.month = runtime[c.inst].month /\ c.order.tier \in runtime[c.inst].tiers

NewBuy(i, order) ==
  /\ order.month = runtime[i].month
  /\ order.tier \in runtime[i].tiers
  /\ \A c \in Executions :
       IsBuy(c.order) /\ c.inst = i /\ c.order.month = order.month => c.order.tier # order.tier

SoundTick(t) ==
  /\ t.bar <= clock
  /\ t.pc \in {"load", "step"} => runtime[t.inst].month <= MonthOf[t.bar + 1]
  /\ t.pc = "step" => t.rt = runtime[t.inst]
  /\ t.pc \in {"readrelease", "saverelease", "dispatch"} /\ IsBuy(t.order)
       => NewBuy(t.inst, t.order)

TierInv == MonthNotAhead /\ BuysAreMarked /\ \A t \in ticks : SoundTick(t)

\* A deleted instance stays deleted, and one in ERROR leaves it only by being
\* deleted, though ticks, Stop and markError race (manager.go:87-137).
StatusTransitions ==
  [][\A i \in Instances :
       /\ status[i] = "DELETED" => status'[i] = "DELETED"
       /\ status[i] = "ERROR" => status'[i] \in {"ERROR", "DELETED"}
       /\ status[i] # status'[i] /\ status'[i] = "ERROR" => status[i] = "RUNNING"]_vars

Decides(i, b) == \E n \in DOMAIN stepped[i] : stepped[i][n] = b

\* The last completed bar is decided while the instance runs, unless the next one
\* completes before a tick has fetched it, which skips it for good: no tick is lost
\* between the scan, the fetch and the dedup guard (manager.go:152-182).
BarProcessed ==
  \A i \in Instances, b \in 1 .. MaxBar :
    (clock = b /\ status[i] = "RUNNING")
      ~> (Decides(i, b) \/ clock > b \/ status[i] # "RUNNING")

\* Once an instance is stopped, deleted or in error for good its last tick ends
\* and no other starts (scheduler.go:71-99).
StoppedGoesQuiet ==
  \A i \in Instances :
    <>[](status[i] # "RUNNING") => <>[](\A t \in ticks : t.inst # i)
=============================================================================
