-------------------------- MODULE DeltaReportProofs --------------------------
(***************************************************************************)
(* A theorem about DeltaReport, for any handlers, commands, reports and    *)
(* failures: each execution is settled once.                               *)
(***************************************************************************)
EXTENDS DeltaReport, TLAPS

\* A commit settles an execution that is pending, hence has no trade yet, and
\* that no other transaction can have settled in between.
LEMMA CommitKeeps ==
  ASSUME FilledIffTraded, NEW x \in txs, CommitFill(x)
  PROVE  FilledIffTraded'
  <1>1. PICK c \in x.found :
          /\ c \in pending
          /\ pending' = pending \ {c}
          /\ filled' = filled \cup {c}
          /\ trades' = trades \cup {[cmd |-> c, qty |-> x.report.qty]}
    BY DEF CommitFill
  <1> DEFINE trade == [cmd |-> c, qty |-> x.report.qty]
  <1>2. trade.cmd = c
    OBVIOUS
  <1>3. \A y \in trades : y.cmd # c
    BY <1>1 DEF FilledIffTraded
  <1> HIDE DEF trade
  <1>4. trades' = trades \cup {trade}
    BY <1>1 DEF trade
  <1>5. filled' = {y.cmd : y \in trades'}
    BY <1>1, <1>2, <1>4 DEF FilledIffTraded
  <1>6. \A y, z \in trades' : y.cmd = z.cmd => y = z
    BY <1>2, <1>3, <1>4 DEF FilledIffTraded
  <1>7. pending' \cap filled' = {}
    BY <1>1 DEF FilledIffTraded
  <1>8. QED
    BY <1>5, <1>6, <1>7 DEF FilledIffTraded

LEMMA HandlerStep ==
  ASSUME FilledIffTraded, Next
  PROVE  FilledIffTraded'
  <1>1. ASSUME UNCHANGED <<pending, filled, trades>>
        PROVE  FilledIffTraded'
    BY <1>1 DEF FilledIffTraded
  <1>2. CASE Dispatched
    BY <1>2 DEF Dispatched, Executions, FilledIffTraded
  <1>3. CASE Deleted \/ Reported
    BY <1>1, <1>3 DEF Deleted, Reported, Begin, storeVars
  <1>4. ASSUME NEW x \in txs, CommitBalances(x) \/ Abort(x)
        PROVE  FilledIffTraded'
    BY <1>1, <1>4 DEF CommitBalances, Abort
  <1>5. QED
    BY <1>2, <1>3, <1>4, CommitKeeps DEF Next, Finish

\* However often an execution is reported, over how many connections, and which
\* transactions fail, it has a trade exactly when it is filled, and one only
\* (portfolio.go:56, :67, :118).
THEOREM SettledOnce == Spec => []FilledIffTraded
  <1>1. Init => FilledIffTraded
    BY DEF Init, StoreInit, FilledIffTraded
  <1>2. FilledIffTraded /\ UNCHANGED vars => FilledIffTraded'
    BY DEF vars, storeVars, FilledIffTraded
  <1>3. FilledIffTraded /\ [Next]_vars => FilledIffTraded'
    BY <1>2, HandlerStep
  <1>4. QED
    BY <1>1, <1>3, PTL DEF Spec
=============================================================================
