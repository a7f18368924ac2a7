----------------------------- MODULE DeltaReport -----------------------------
(***************************************************************************)
(* The hub's handling of delta reports (processDeltaReport and             *)
(* updateBalances in internal/saas/ws/portfolio.go, called from the read   *)
(* loop of HandleConnection in internal/saas/ws/hub.go).                   *)
(*                                                                         *)
(* Each connection has a handler goroutine that applies one report at a    *)
(* time, in one database transaction: it looks up the pending execution    *)
(* and reads the portfolio row (Begin), then marks the execution filled,   *)
(* saves the whole row as read plus the fill, records the trade and copies *)
(* the USDT balance (Commit), or rolls everything back (Abort).  Under     *)
(* READ COMMITTED other writers fall between the two.                      *)
(***************************************************************************)
EXTENDS SaasStore, FiniteSetsExt

CONSTANTS
  Handlers,     (* the HandleConnection goroutines, one per connection     *)
  ReportFaults  (* {} or {"rollback"}: a statement of a report may fail    *)

VARIABLE
  txs           (* the report transactions in flight                       *)

\* exec is the command of the execution reported, if there is one; bal is the
\* available USDT, if there are balances (an account without USDT reports 0).
Report == [exec : SUBSET Command, qty : Nat, bal : SUBSET Nat]

\* found: the execution found pending; pf: the portfolio row read for it.
Tx == [h : Handlers, report : Report, found : SUBSET Command, pf : PortfolioRow]

ReportTypeOK == txs \subseteq Tx

ReportInit == txs = {}

Idle(h) == \A x \in txs : x.h # h

\* An execution that is not pending (a duplicate report, an unknown id) is
\* treated as a snapshot of balances.
Begin(h, report) ==
  LET found == report.exec \cap pending
      rows  == {portfolio[c.inst] : c \in found}
  IN /\ Idle(h)
     /\ txs' = txs \cup {[h |-> h, report |-> report, found |-> found,
                          pf |-> IF found = {} THEN EmptyRow ELSE CHOOSE r \in rows : TRUE]}
     /\ UNCHANGED storeVars

\* A report_ack follows a commit and a rollback alike; the agent ignores it.
Ends(x) ==
  /\ txs' = txs \ {x}
  /\ UNCHANGED <<status, runtime>>

CommitBalances(x) ==
  /\ x.found = {}
  /\ portfolio' = WithBalances(portfolio, x.report.bal)
  /\ Ends(x)
  /\ UNCHANGED <<pending, filled, trades>>

\* Mutant: the execution stays pending.
CommitFillPending(x) ==
  \E c \in x.found :
    /\ c \in pending /\ x.pf.row
    /\ portfolio' = WithBalances(
         [portfolio EXCEPT ![c.inst] = Settled(x.pf, c.order, x.report.qty)], x.report.bal)
    /\ trades' = trades \cup {[cmd |-> c, qty |-> x.report.qty]}
    /\ Ends(x)
    /\ UNCHANGED <<pending, filled>>

\* Another handler may have settled the execution since: the row lock on it
\* and the unique client_order_id of the trade turn this one into a rollback.
CommitFill(x) ==
  \E c \in x.found :
    /\ c \in pending /\ x.pf.row
    /\ portfolio' = WithBalances(
         [portfolio EXCEPT ![c.inst] = Settled(x.pf, c.order, x.report.qty)], x.report.bal)
    /\ pending' = pending \ {c}
    /\ filled' = filled \cup {c}
    /\ trades' = trades \cup {[cmd |-> c, qty |-> x.report.qty]}
    /\ Ends(x)

Abort(x) ==
  /\ \/ "rollback" \in ReportFaults
     \/ \E c \in x.found : c \notin pending \/ ~x.pf.row
  /\ Ends(x)
  /\ UNCHANGED <<portfolio, pending, filled, trades>>

Finish(x) == CommitBalances(x) \/ CommitFill(x) \/ Abort(x)

-----------------------------------------------------------------------------
\* The handlers alone: commands and reports come from the environment.

CONSTANTS
  Commands,   (* the commands the ticks may dispatch                       *)
  Usdt        (* the balances the account may have                         *)

vars == <<storeVars, txs>>

Init ==
  /\ StoreInit
  /\ ReportInit

\* External here: a tick records an execution (module TickManager).
Dispatched ==
  /\ \E c \in Commands \ Executions : pending' = pending \cup {c}
  /\ UNCHANGED <<status, portfolio, runtime, filled, trades, txs>>

\* External here: a user deletes an instance.
Deleted ==
  /\ \E i \in Instances : status' = [status EXCEPT ![i] = "DELETED"]
  /\ UNCHANGED <<portfolio, runtime, pending, filled, trades, txs>>

\* External here: an agent's report, which may come twice, over two
\* connections, after a later one, or with the zero fill of a poll timeout.
Reported ==
  \E h \in Handlers, exec \in {{}} \cup {{c} : c \in Executions},
     short \in 0 .. 1, bal \in {{}} \cup {{u} : u \in Usdt} :
    Begin(h, [exec |-> exec, bal |-> bal,
              qty |-> IF exec = {} \/ short = 1 THEN 0
                      ELSE (CHOOSE c \in exec : TRUE).order.qty])

Next == Dispatched \/ Deleted \/ Reported \/ \E x \in txs : Finish(x)

Spec == Init /\ [][Next]_vars

-----------------------------------------------------------------------------
TypeOK ==
  /\ StoreTypeOK
  /\ ReportTypeOK

Traded(i, action) ==
  LET settled == {x \in trades : x.cmd.inst = i /\ x.cmd.order.action = action}
  IN MapThenSumSet(LAMBDA x : x.qty, settled)

\* The ledger is the sum of the trades of the instance: no fill is counted
\* twice or lost, and a sale never takes the float stack below zero
\* (portfolio.go:81-105).
LedgerFollowsTrades ==
  \A i \in Instances : portfolio[i].row =>
    /\ portfolio[i].dead = InitRow.dead + Traded(i, "BUY")
    /\ portfolio[i].float = MinusDownToZero(InitRow.float, Traded(i, "SELL"))
=============================================================================
