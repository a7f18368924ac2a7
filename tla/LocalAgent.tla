------------------------------ MODULE LocalAgent ------------------------------
(***************************************************************************)
(* The LocalAgent (internal/agent/ws/client.go) with its exchange client   *)
(* (internal/agent/exchange/bitget.go), and, external, the exchange        *)
(* account behind it and the connections to the SaaS.                      *)
(*                                                                         *)
(* A session reads commands from its connection and starts one goroutine   *)
(* per command, which places the order, polls it for its fill, reads the   *)
(* balances and enqueues a delta report; the goroutine that sends the      *)
(* first snapshot of a session is a job with no command.  The jobs of a    *)
(* session die with it, whatever they have already done at the exchange.   *)
(* A session begins authenticated: the handshake is not modelled here.     *)
(***************************************************************************)
EXTENDS Naturals, Sequences

CONSTANTS
  Sessions,     (* 1 .. n: the connections the agent makes, in turn        *)
  BuySize,      (* the units of BTC a BUY fills to                         *)
  InitWallet,   (* the account at the start                                *)
  AgentFaults   (* see AgentFaultNames                                     *)

\* cut: a connection breaks, or the agent restarts; reject: an order is
\* refused; place: an accepted order's answer is lost; poll: a fill is not
\* seen within the six polls; balance: the balances cannot be read.
AgentFaultNames == {"cut", "reject", "place", "poll", "balance"}

VARIABLES
  session,    (* the session the agent runs, 0 between two                 *)
  link,       (* the state of each connection                              *)
  down,       (* the commands on their way to the agent                    *)
  up,         (* the delta reports on their way to the hub                 *)
  jobs,       (* the goroutines of the session                             *)
  orders,     (* external: the orders of the account                       *)
  wallet      (* external: what the account has available                  *)

netVars      == <<link, down, up>>
exchangeVars == <<orders, wallet>>
agentVars    == <<session, netVars, jobs, exchangeVars>>

Links == {"unused", "open", "cut", "closed"}

AgentInit ==
  /\ session = 0
  /\ link = [s \in Sessions |-> "unused"]
  /\ down = [s \in Sessions |-> <<>>]
  /\ up = [s \in Sessions |-> <<>>]
  /\ jobs = {}
  /\ orders = {}
  /\ wallet = InitWallet

\* A report is as DeltaReport reads it: exec and bal are empty or singletons.
Job(pc, cmds) == [pc |-> pc, cmds |-> cmds, exec |-> {}, qty |-> 0, bal |-> {}]

Goto(j, j2) == jobs' = (jobs \ {j}) \cup {j2}

-----------------------------------------------------------------------------
\* session(): connect, and start the goroutine of the initial snapshot.
Connect(s) ==
  /\ session = 0
  /\ link[s] = "unused"
  /\ \A r \in Sessions : r < s => link[r] # "unused"
  /\ session' = s
  /\ link' = [link EXCEPT ![s] = "open"]
  /\ jobs' = {Job("balance", {})}
  /\ UNCHANGED <<down, up, exchangeVars>>

\* readLoop: each command gets its goroutine at once.
Receive ==
  /\ session # 0 /\ down[session] # <<>>
  /\ down' = [down EXCEPT ![session] = Tail(@)]
  /\ jobs' = jobs \cup {Job("place", {Head(down[session])})}
  /\ UNCHANGED <<session, link, up, exchangeVars>>

\* The session ends: its context is cancelled, its goroutines report nothing
\* any more and what was on its way to it is lost.
EndSession ==
  /\ session # 0
  /\ "cut" \in AgentFaults \/ link[session] # "open"
  /\ session' = 0
  /\ link' = [link EXCEPT ![session] = IF @ = "open" THEN "cut" ELSE @]
  /\ down' = [down EXCEPT ![session] = <<>>]
  /\ jobs' = {}
  /\ UNCHANGED <<up, exchangeVars>>

-----------------------------------------------------------------------------
\* PlaceOrder and waitForFill.

Size(cmd) == IF cmd.order.action = "BUY" THEN BuySize ELSE cmd.order.qty

Affords(cmd) ==
  IF cmd.order.action = "BUY" THEN wallet.usdt > 0 ELSE wallet.btc >= cmd.order.qty

\* External: the exchange accepts an order once per client order id, and takes
\* what it spends out of the available balance.
Accepts(cmd) ==
  /\ Affords(cmd)
  /\ \A o \in orders : o.cmd # cmd
  /\ orders' = orders \cup {[cmd |-> cmd, filled |-> 0]}
  /\ wallet' = IF cmd.order.action = "BUY" THEN [wallet EXCEPT !.usdt = @ - 1]
                                           ELSE [wallet EXCEPT !.btc = @ - cmd.order.qty]

\* The order goes through, and its answer arrives or is lost.
Place(j) ==
  /\ j.pc = "place"
  /\ \E c \in j.cmds : Accepts(c)
  /\ \/ Goto(j, [j EXCEPT !.pc = "poll"])
     \/ "place" \in AgentFaults /\ Goto(j, [j EXCEPT !.pc = "balance"])
  /\ UNCHANGED <<session, netVars>>

\* The order is refused: the report will carry no execution.
PlaceFails(j) ==
  /\ j.pc = "place"
  /\ "reject" \in AgentFaults \/ \E c \in j.cmds : ~Affords(c)
  /\ Goto(j, [j EXCEPT !.pc = "balance"])
  /\ UNCHANGED <<session, netVars, exchangeVars>>

\* A poll finds the order filled, fully or partially.
PollFilled(j) ==
  /\ j.pc = "poll"
  /\ \E o \in orders :
       /\ o.cmd \in j.cmds /\ o.filled > 0
       /\ Goto(j, [j EXCEPT !.pc = "balance", !.exec = j.cmds, !.qty = o.filled])
  /\ UNCHANGED <<session, netVars, exchangeVars>>

\* Mutant: the polls run out and the order is taken for filled.
PollAssumed(j) ==
  /\ j.pc = "poll"
  /\ "poll" \in AgentFaults
  /\ \E c \in j.cmds : Goto(j, [j EXCEPT !.pc = "balance", !.exec = j.cmds, !.qty = Size(c)])
  /\ UNCHANGED <<session, netVars, exchangeVars>>

\* The polls run out: an execution of quantity zero, and no error.
PollTimeout(j) ==
  /\ j.pc = "poll"
  /\ "poll" \in AgentFaults
  /\ Goto(j, [j EXCEPT !.pc = "balance", !.exec = j.cmds])
  /\ UNCHANGED <<session, netVars, exchangeVars>>

\* GetBalances leaves out the assets of which nothing is available or frozen; a
\* report that lists any asset counts the USDT it leaves out as 0.
Balances ==
  LET frozen == \E o \in orders : o.filled < Size(o.cmd)
  IN IF wallet.usdt = 0 /\ wallet.btc = 0 /\ ~frozen THEN {} ELSE {wallet.usdt}

\* Mutant: without balances there is no report.
ReadBalancesOrQuit(j) ==
  /\ j.pc = "balance"
  /\ \/ Goto(j, [j EXCEPT !.pc = "send", !.bal = Balances])
     \/ "balance" \in AgentFaults /\ jobs' = jobs \ {j}
  /\ UNCHANGED <<session, netVars, exchangeVars>>

ReadBalances(j) ==
  /\ j.pc = "balance"
  /\ \/ Goto(j, [j EXCEPT !.pc = "send", !.bal = Balances])
     \/ "balance" \in AgentFaults /\ Goto(j, [j EXCEPT !.pc = "send"])
  /\ UNCHANGED <<session, netVars, exchangeVars>>

\* safeSend and writePump: the report is on the connection, if that still is.
SendReport(j) ==
  /\ j.pc = "send"
  /\ jobs' = jobs \ {j}
  /\ up' = IF link[session] # "open" THEN up ELSE
             [up EXCEPT ![session] = Append(@, [exec |-> j.exec, qty |-> j.qty, bal |-> j.bal])]
  /\ UNCHANGED <<session, link, down, exchangeVars>>

\* External: the market fills an order by one more unit.
Fill(o) ==
  /\ o.filled < Size(o.cmd)
  /\ orders' = (orders \ {o}) \cup {[o EXCEPT !.filled = @ + 1]}
  /\ wallet' = IF o.cmd.order.action = "BUY" THEN [wallet EXCEPT !.btc = @ + 1]
                                             ELSE [wallet EXCEPT !.usdt = @ + 1]
  /\ UNCHANGED <<session, netVars, jobs>>

JobStep(j) ==
  \/ Place(j)
  \/ PlaceFails(j)
  \/ PollFilled(j)
  \/ PollTimeout(j)
  \/ ReadBalances(j)
  \/ SendReport(j)
=============================================================================
