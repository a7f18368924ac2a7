--------------------------------- MODULE Hub ---------------------------------
(***************************************************************************)
(* The hub's registry of agent connections (HandleConnection and           *)
(* SendToAgent in internal/saas/ws/hub.go) and the first messages on a     *)
(* connection as the agent reads them (session in                          *)
(* internal/agent/ws/client.go), for one user.                             *)
(*                                                                         *)
(* Connections are numbered in the order they are dialled.  A user may run *)
(* more than one agent with one account; each of them makes one connection *)
(* after another.  What follows the handshake on a connection is in the    *)
(* modules LocalAgent and TradingPipeline.                                 *)
(***************************************************************************)
EXTENDS Naturals, Sequences, FiniteSets

CONSTANTS
  MaxConn,    (* bound on the connections dialled                          *)
  MaxAgents,  (* the agents the user runs at once                          *)
  Senders,    (* the ticks that may call SendToAgent at once               *)
  MaxQueue    (* bound on the messages unread on one connection            *)

ASSUME HubAssumption == MaxConn \in Nat /\ MaxAgents \in Nat /\ MaxQueue \in Nat

Conn == 1 .. MaxConn

VARIABLES
  conns,      (* Hub.conns of the user: the connection, 0 for none         *)
  handler,    (* the goroutine of HandleConnection, for each connection    *)
  prev,       (* the connection it swapped out, 0 for none                 *)
  link,       (* the state of the connection itself                        *)
  toAgent,    (* the messages on their way to the agent                    *)
  agent,      (* the session of the agent on the connection                *)
  sender      (* the calls of SendToAgent                                  *)

vars == <<conns, handler, prev, link, toAgent, agent, sender>>

\* evict: registered, the connection it replaced still open; answer: about to
\* write auth_result; loop: reading messages; refused: no connection accepted.
HandlerPc  == {"none", "auth", "evict", "answer", "loop", "done", "refused"}
Registered == {"evict", "answer", "loop"}
AgentPc    == {"none", "waiting", "live", "rejected", "failed"}

\* An envelope as it is marshalled: the success flag is within the payload.
AuthResult(ok) == [type |-> "auth_result", payload |-> [success |-> ok]]
CommandMsg     == [type |-> "command", payload |-> "trade"]
Message        == {AuthResult(TRUE), AuthResult(FALSE), CommandMsg}

\* authResultMsg: the agent unmarshals a success flag next to the type, and an
\* absent one is false.
Success(msg) == "success" \in DOMAIN msg /\ msg.success

TypeOK ==
  /\ conns \in 0 .. MaxConn
  /\ handler \in [Conn -> HandlerPc]
  /\ prev \in [Conn -> 0 .. MaxConn]
  /\ \A c \in Conn : handler[c] = "evict" => prev[c] \in Conn \ {c}
  /\ link \in [Conn -> {"none", "open", "broken"}]
  /\ toAgent \in [Conn -> Seq(Message)]
  /\ agent \in [Conn -> AgentPc]
  /\ sender \in [Senders -> [pc : {"idle", "write", "delete"}, conn : 0 .. MaxConn]]
  /\ \A s \in Senders : sender[s].pc # "idle" => sender[s].conn # 0

Init ==
  /\ conns = 0
  /\ handler = [c \in Conn |-> "none"]
  /\ prev = [c \in Conn |-> 0]
  /\ link = [c \in Conn |-> "none"]
  /\ toAgent = [c \in Conn |-> <<>>]
  /\ agent = [c \in Conn |-> "none"]
  /\ sender = [s \in Senders |-> [pc |-> "idle", conn |-> 0]]

InSession == {c \in Conn : agent[c] \in {"waiting", "live"}}

Queue(c, msg) ==
  toAgent' = IF link[c] = "open" THEN [toAgent EXCEPT ![c] = Append(@, msg)] ELSE toAgent

-----------------------------------------------------------------------------
\* An agent dials and sends auth.
Dial(c) ==
  /\ link[c] = "none"
  /\ \A b \in Conn : b < c => link[b] # "none"
  /\ Cardinality(InSession) < MaxAgents
  /\ link' = [link EXCEPT ![c] = "open"]
  /\ handler' = [handler EXCEPT ![c] = "auth"]
  /\ agent' = [agent EXCEPT ![c] = "waiting"]
  /\ UNCHANGED <<conns, prev, toAgent, sender>>

\* Mutant: Swap's second result is ignored.
AcceptAndEvict(c) ==
  /\ handler[c] = "auth"
  /\ conns' = c
  /\ prev' = [prev EXCEPT ![c] = conns]
  /\ handler' = [handler EXCEPT ![c] = "evict"]
  /\ UNCHANGED <<link, toAgent, agent, sender>>

\* The token is valid: Swap registers the connection.
Accept(c) ==
  /\ handler[c] = "auth"
  /\ conns' = c
  /\ prev' = [prev EXCEPT ![c] = conns]
  /\ handler' = [handler EXCEPT ![c] = IF conns = 0 THEN "answer" ELSE "evict"]
  /\ UNCHANGED <<link, toAgent, agent, sender>>

\* No auth in 10 s, another message, or an invalid token: the connection is
\* closed, after an auth_result or without.
Refuse(c) ==
  /\ handler[c] = "auth"
  /\ handler' = [handler EXCEPT ![c] = "refused"]
  /\ link' = [link EXCEPT ![c] = "broken"]
  /\ Queue(c, AuthResult(FALSE)) \/ UNCHANGED toAgent
  /\ UNCHANGED <<conns, prev, agent, sender>>

\* The connection replaced is closed.
Evict(c) ==
  /\ handler[c] = "evict"
  /\ link' = [link EXCEPT ![prev[c]] = "broken"]
  /\ handler' = [handler EXCEPT ![c] = "answer"]
  /\ UNCHANGED <<conns, prev, toAgent, agent, sender>>

\* writeRaw(authOK), whose error the exit below covers.
Answer(c) ==
  /\ handler[c] = "answer"
  /\ Queue(c, AuthResult(TRUE))
  /\ handler' = [handler EXCEPT ![c] = "loop"]
  /\ UNCHANGED <<conns, prev, link, agent, sender>>

\* Mutant: the handler returns without the Delete.
ExitRegistered(c) ==
  /\ handler[c] \in {"answer", "loop"} /\ link[c] = "broken"
  /\ handler' = [handler EXCEPT ![c] = "done"]
  /\ UNCHANGED <<conns, prev, link, toAgent, agent, sender>>

\* A write or a read fails: the deferred Delete removes what is registered.
Exit(c) ==
  /\ handler[c] \in {"answer", "loop"} /\ link[c] = "broken"
  /\ handler' = [handler EXCEPT ![c] = "done"]
  /\ conns' = 0
  /\ UNCHANGED <<prev, link, toAgent, agent, sender>>

-----------------------------------------------------------------------------
\* SendToAgent: look the connection up, write to it, delete it on an error.

Load(s) ==
  /\ sender[s].pc = "idle" /\ conns # 0
  /\ sender' = [sender EXCEPT ![s] = [pc |-> "write", conn |-> conns]]
  /\ UNCHANGED <<conns, handler, prev, link, toAgent, agent>>

Write(s) ==
  LET c == sender[s].conn
  IN /\ sender[s].pc = "write"
     /\ Len(toAgent[c]) < MaxQueue
     /\ Queue(c, CommandMsg)
     /\ sender' = [sender EXCEPT ![s] = [pc |-> "idle", conn |-> 0]]
     /\ UNCHANGED <<conns, handler, prev, link, agent>>

\* The connection is broken, or the write takes longer than its 10 s.  Only the
\* registry entry goes: a connection that is open stays so, and is read still.
WriteFails(s) ==
  /\ sender[s].pc = "write"
  /\ sender' = [sender EXCEPT ![s].pc = "delete"]
  /\ UNCHANGED <<conns, handler, prev, link, toAgent, agent>>

Evicts(s) ==
  /\ sender[s].pc = "delete"
  /\ conns' = 0
  /\ sender' = [sender EXCEPT ![s] = [pc |-> "idle", conn |-> 0]]
  /\ UNCHANGED <<handler, prev, link, toAgent, agent>>

-----------------------------------------------------------------------------
\* The agent reads its first message, and ends the session, closing the
\* connection, unless that is an auth_result with success.
AgentReads(c) ==
  /\ agent[c] = "waiting" /\ toAgent[c] # <<>>
  /\ LET msg == Head(toAgent[c])
     IN agent' = [agent EXCEPT ![c] = IF msg.type # "auth_result" THEN "failed"
                                      ELSE IF Success(msg) THEN "live" ELSE "rejected"]
  /\ toAgent' = [toAgent EXCEPT ![c] = <<>>]
  /\ link' = [link EXCEPT ![c] = IF agent'[c] = "live" THEN @ ELSE "broken"]
  /\ UNCHANGED <<conns, handler, prev, sender>>

\* The connection fails, or its 15 s are over.
AgentFails(c) ==
  /\ agent[c] = "waiting"
  /\ agent' = [agent EXCEPT ![c] = "failed"]
  /\ toAgent' = [toAgent EXCEPT ![c] = <<>>]
  /\ link' = [link EXCEPT ![c] = "broken"]
  /\ UNCHANGED <<conns, handler, prev, sender>>

\* External: the network.
Break(c) ==
  /\ link[c] = "open"
  /\ link' = [link EXCEPT ![c] = "broken"]
  /\ UNCHANGED <<conns, handler, prev, toAgent, agent, sender>>

HandlerStep(c) == Accept(c) \/ Refuse(c) \/ Evict(c) \/ Answer(c) \/ Exit(c)

SenderStep(s) == Write(s) \/ WriteFails(s) \/ Evicts(s)

AgentStep(c) == AgentReads(c) \/ AgentFails(c)

Next ==
  \/ \E c \in Conn : Dial(c) \/ HandlerStep(c) \/ AgentStep(c) \/ Break(c)
  \/ \E s \in Senders : Load(s) \/ SenderStep(s)

Spec == Init /\ [][Next]_vars

\* No goroutine is starved: the deadlines of the writes and of the handshake
\* and the keepalive of the connection see to it that each of its calls returns.
Fairness ==
  /\ \A c \in Conn : WF_vars(HandlerStep(c)) /\ WF_vars(AgentStep(c))
  /\ \A s \in Senders : WF_vars(SenderStep(s))

LiveSpec == Spec /\ Fairness

-----------------------------------------------------------------------------
\* The registry holds no connection whose handler has returned, or has not
\* accepted it yet, whatever evicts and deletes race (hub.go:72, :122, :131).
RegisteredIsServed == conns # 0 => handler[conns] \in Registered

\* A broken connection leaves the registry, replaced, deleted by its handler or
\* evicted by a failed write (hub.go:72, :131).
BrokenLeaves == \A c \in Conn : (conns = c /\ link[c] = "broken") ~> conns # c

\* The hub keeps "the connection registry for all authenticated LocalAgents"
\* (hub.go:46): once every other handler has returned, an accepted connection
\* that is open is the registered one, unless a write to it timed out.
ServedIsRegistered ==
  \A c \in Conn :
    (/\ handler[c] = "loop" /\ link[c] = "open"
     /\ \A b \in Conn \ {c} : handler[b] \in {"none", "done", "refused"}
     /\ \A s \in Senders : sender[s].pc = "idle")
      => conns = c

=============================================================================
