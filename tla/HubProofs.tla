------------------------------ MODULE HubProofs ------------------------------
(***************************************************************************)
(* Theorems about Hub, for any number of connections, agents and senders:  *)
(* its type invariant, and that the registry only holds a connection whose *)
(* handler has accepted it and has not returned.  The two are proved as    *)
(* one: a handler evicts a connection other than its own because its own   *)
(* is not registered before it is accepted.                                *)
(***************************************************************************)
EXTENDS Hub, TLAPS

\* A connection with a handler has been dialled, so that a dial does not start
\* the handler of a registered connection anew.
Dialled == \A c \in Conn : handler[c] # "none" => link[c] # "none"

IInv == TypeOK /\ RegisteredIsServed /\ Dialled

LEMMA QueueKeepsMessages ==
  ASSUME TypeOK, NEW c \in Conn, NEW msg \in Message, Queue(c, msg)
  PROVE  toAgent' \in [Conn -> Seq(Message)]
  <1>1. toAgent[c] \in Seq(Message)
    BY DEF TypeOK
  <1>2. Append(toAgent[c], msg) \in Seq(Message)
    BY <1>1
  <1>3. QED
    BY <1>2 DEF TypeOK, Queue

\* The handler that swaps a connection in found another one, or none.
LEMMA AcceptsAnother ==
  ASSUME IInv, NEW c \in Conn, handler[c] = "auth"
  PROVE  conns # c
  BY DEF IInv, TypeOK, RegisteredIsServed, Registered, Conn

-----------------------------------------------------------------------------
\* The steps that write the registry or move a handler keep it served.
LEMMA ServedStep ==
  ASSUME HubAssumption, IInv, Next
  PROVE  RegisteredIsServed'
  <1>1. conns \in 0 .. MaxConn /\ handler \in [Conn -> HandlerPc]
    BY DEF IInv, TypeOK
  <1>2. ASSUME NEW c \in Conn, Dial(c)
        PROVE  RegisteredIsServed'
    <2>1. handler[c] = "none"
      BY <1>2 DEF Dial, IInv, Dialled
    <2>2. conns # c
      BY <2>1, <1>1 DEF IInv, RegisteredIsServed, Registered, Conn
    <2>3. QED
      BY <1>1, <1>2, <2>2 DEF Dial, IInv, RegisteredIsServed
  <1>3. ASSUME NEW c \in Conn, Accept(c)
        PROVE  RegisteredIsServed'
    <2>1. conns' = c /\ handler'[c] \in {"answer", "evict"}
      BY <1>1, <1>3 DEF Accept
    <2>2. QED
      BY <2>1 DEF RegisteredIsServed, Registered
  <1>4. ASSUME NEW c \in Conn, Refuse(c)
        PROVE  RegisteredIsServed'
    BY <1>1, <1>4, AcceptsAnother DEF Refuse, IInv, RegisteredIsServed
  <1>5. ASSUME NEW c \in Conn, Evict(c) \/ Answer(c)
        PROVE  RegisteredIsServed'
    <2>1. conns' = conns /\ \E pc \in {"answer", "loop"} : handler' = [handler EXCEPT ![c] = pc]
      BY <1>5 DEF Evict, Answer
    <2>2. conns # 0 => conns \in Conn
      BY <1>1 DEF Conn
    <2>3. QED
      BY <1>1, <2>1, <2>2 DEF IInv, RegisteredIsServed, Registered
  <1>6. ASSUME NEW c \in Conn, Exit(c)
        PROVE  RegisteredIsServed'
    BY <1>6 DEF Exit, RegisteredIsServed
  <1>7. ASSUME NEW c \in Conn, AgentStep(c) \/ Break(c)
        PROVE  RegisteredIsServed'
    BY <1>7 DEF AgentStep, AgentReads, AgentFails, Break, IInv, RegisteredIsServed
  <1>8. ASSUME NEW s \in Senders, Load(s) \/ SenderStep(s)
        PROVE  RegisteredIsServed'
    BY <1>8 DEF Load, SenderStep, Write, WriteFails, Evicts, IInv, RegisteredIsServed
  <1>9. QED
    BY <1>2, <1>3, <1>4, <1>5, <1>6, <1>7, <1>8 DEF Next, HandlerStep

LEMMA DialledStep ==
  ASSUME HubAssumption, IInv, Next
  PROVE  Dialled'
  <1>1. /\ handler \in [Conn -> HandlerPc]
        /\ link \in [Conn -> {"none", "open", "broken"}]
        /\ \A c \in Conn : handler[c] = "evict" => prev[c] \in Conn
    BY DEF IInv, TypeOK
  <1>2. ASSUME NEW c \in Conn, HandlerStep(c)
        PROVE  Dialled'
    BY <1>1, <1>2 DEF HandlerStep, Accept, Refuse, Evict, Answer, Exit, IInv, Dialled
  <1>3. ASSUME NEW c \in Conn, Dial(c) \/ AgentStep(c) \/ Break(c)
        PROVE  Dialled'
    BY <1>1, <1>3 DEF Dial, AgentStep, AgentReads, AgentFails, Break, IInv, Dialled
  <1>4. ASSUME NEW s \in Senders, Load(s) \/ SenderStep(s)
        PROVE  Dialled'
    <2>1. UNCHANGED <<handler, link>>
      BY <1>4 DEF Load, SenderStep, Write, WriteFails, Evicts
    <2>2. QED
      BY <2>1 DEF IInv, Dialled
  <1>5. QED
    BY <1>2, <1>3, <1>4 DEF Next

-----------------------------------------------------------------------------
LEMMA HandlerKeepsTypes ==
  ASSUME HubAssumption, IInv, NEW c \in Conn, HandlerStep(c)
  PROVE  TypeOK'
  <1>1. CASE Accept(c)
    <2>1. conns \in Conn \ {c} \/ conns = 0
      <3>1. conns # c
        BY <1>1, AcceptsAnother DEF Accept
      <3>2. conns \in 0 .. MaxConn /\ MaxConn \in Nat
        BY HubAssumption DEF IInv, TypeOK
      <3>3. QED
        BY <3>1, <3>2 DEF Conn
    <2>2. c \in 0 .. MaxConn
      BY HubAssumption DEF Conn
    <2>3. QED
      BY <1>1, <2>1, <2>2 DEF Accept, IInv, TypeOK, HandlerPc
  <1>2. CASE Refuse(c)
    <2>1. toAgent' \in [Conn -> Seq(Message)]
      BY <1>2, QueueKeepsMessages DEF Refuse, IInv, TypeOK, Message
    <2>2. QED
      BY <1>2, <2>1 DEF Refuse, IInv, TypeOK, HandlerPc
  <1>3. CASE Evict(c)
    BY <1>3 DEF Evict, IInv, TypeOK, HandlerPc
  <1>4. CASE Answer(c)
    <2>1. toAgent' \in [Conn -> Seq(Message)]
      BY <1>4, QueueKeepsMessages DEF Answer, IInv, Message
    <2>2. QED
      BY <1>4, <2>1 DEF Answer, IInv, TypeOK, HandlerPc
  <1>5. CASE Exit(c)
    BY <1>5, HubAssumption DEF Exit, IInv, TypeOK, HandlerPc
  <1>6. QED
    BY <1>1, <1>2, <1>3, <1>4, <1>5 DEF HandlerStep

LEMMA SenderKeepsTypes ==
  ASSUME HubAssumption, IInv, NEW s \in Senders, Load(s) \/ SenderStep(s)
  PROVE  TypeOK'
  <1>1. CASE Load(s)
    BY <1>1 DEF Load, IInv, TypeOK
  <1>2. CASE Write(s)
    <2>1. sender[s].conn \in Conn
      BY <1>2 DEF Write, IInv, TypeOK, Conn
    <2>2. toAgent' \in [Conn -> Seq(Message)]
      BY <1>2, <2>1, QueueKeepsMessages DEF Write, IInv, Message
    <2>3. [pc |-> "idle", conn |-> 0] \in [pc : {"idle", "write", "delete"}, conn : 0 .. MaxConn]
      BY HubAssumption
    <2>4. QED
      BY <1>2, <2>2, <2>3 DEF Write, IInv, TypeOK
  <1>3. CASE WriteFails(s)
    BY <1>3 DEF WriteFails, IInv, TypeOK
  <1>4. CASE Evicts(s)
    BY <1>4, HubAssumption DEF Evicts, IInv, TypeOK
  <1>5. QED
    BY <1>1, <1>2, <1>3, <1>4 DEF SenderStep

LEMMA AgentKeepsTypes ==
  ASSUME HubAssumption, IInv, NEW c \in Conn, Dial(c) \/ AgentStep(c) \/ Break(c)
  PROVE  TypeOK'
  <1>1. CASE Dial(c)
    <2>1. handler[c] = "none"
      BY <1>1 DEF Dial, IInv, Dialled
    <2>2. QED
      BY <1>1, <2>1 DEF Dial, IInv, TypeOK, HandlerPc, AgentPc
  <1>2. CASE AgentReads(c)
    <2>1. agent' \in [Conn -> AgentPc] /\ link' \in [Conn -> {"none", "open", "broken"}]
      BY <1>2 DEF AgentReads, IInv, TypeOK, AgentPc
    <2>2. QED
      BY <1>2, <2>1 DEF AgentReads, IInv, TypeOK
  <1>3. CASE AgentFails(c)
    BY <1>3 DEF AgentFails, IInv, TypeOK, AgentPc
  <1>4. CASE Break(c)
    BY <1>4 DEF Break, IInv, TypeOK
  <1>5. QED
    BY <1>1, <1>2, <1>3, <1>4 DEF AgentStep

-----------------------------------------------------------------------------
LEMMA Inductive == Spec => []IInv
  <1>1. Init => IInv
    BY HubAssumption DEF Init, IInv, TypeOK, HandlerPc, AgentPc, RegisteredIsServed, Dialled
  <1>2. IInv /\ [Next]_vars => IInv'
    <2>1. CASE UNCHANGED vars
      BY <2>1 DEF vars, IInv, TypeOK, RegisteredIsServed, Dialled
    <2>2. ASSUME IInv, Next
          PROVE  TypeOK'
      BY <2>2, HubAssumption, HandlerKeepsTypes, SenderKeepsTypes, AgentKeepsTypes DEF Next
    <2>3. QED
      BY <2>1, <2>2, HubAssumption, ServedStep, DialledStep DEF IInv
  <1>3. QED
    BY <1>1, <1>2, PTL DEF Spec

\* The registry, the handlers, the connections and the calls of SendToAgent keep
\* their types; a handler never evicts its own connection, and a call never
\* writes to none (hub.go:65-77, :122-130).
THEOREM HubTypeCorrect == Spec => []TypeOK
  <1>1. IInv => TypeOK
    BY DEF IInv
  <1>2. QED
    BY <1>1, Inductive, PTL

\* The registry holds no connection that is not accepted yet or whose handler
\* has returned, in any race of handlers and senders (hub.go:72, :122, :131).
THEOREM Served == Spec => []RegisteredIsServed
  <1>1. IInv => RegisteredIsServed
    BY DEF IInv
  <1>2. QED
    BY <1>1, Inductive, PTL
=============================================================================
