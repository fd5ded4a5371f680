---------------------------- MODULE EventConsumer ----------------------------
(***************************************************************************)
(* pkg/broker.EventConsumer.Start, one goroutine per service, with the     *)
(* parts of rabbitmq.Client and of RabbitMQ it depends on.  Each service   *)
(* owns one durable queue.  The broker pushes deliveries ahead of the      *)
(* goroutine (the client sets no Qos) into a buffer the AMQP library keeps *)
(* for the subscription, so deliveries of a lost connection may still be   *)
(* handled after the broker has requeued them.                             *)
(*                                                                         *)
(* The queue is a bag: no property depends on the order of messages.  The  *)
(* handler is left open here; OrderFlow gives each service its own, and    *)
(* ServiceProcess the process that starts and ends the goroutine.          *)
(***************************************************************************)
EXTENDS Naturals

CONSTANTS Services, Msgs,
          MaxFaults,    \* bound on lost connections and process exits
          None          \* no message in hand

ASSUME ConsumerAssumption == MaxFaults \in Nat /\ None \notin Msgs

VARIABLES conn,      \* conn[s]: the client's connection and channel are usable
          bound,     \* bound[s]: the queue is declared and bound
          ready,     \* ready[s][m]: copies of m in the queue, not delivered
          buf,       \* buf[s][m]: copies of m in the subscription's buffer
          cur,       \* cur[s]: the delivery in hand, or None
          pc,        \* where the goroutine of s is
          open,      \* open[s]: the channel of its subscription is alive
          faults     \* faults so far

queueVars == <<bound, ready>>
consumerVars == <<conn, bound, ready, buf, cur, pc, open, faults>>

Verdicts == {"ack", "drop", "requeue"}
Locations == {"retry", "subscribe", "select", "handle"} \cup Verdicts

Empty == [m \in Msgs |-> 0]
AddBag(a, b) == [m \in Msgs |-> a[m] + b[m]]
Held(s, m) == IF cur[s] = m THEN 1 ELSE 0

\* What the broker has delivered to s and not seen settled.  It requeues all
\* of it when the channel dies.
Unacked(s) == IF open[s] THEN [m \in Msgs |-> buf[s][m] + Held(s, m)] ELSE Empty

ConsumerInit ==
  /\ conn = [s \in Services |-> FALSE]
  /\ bound = [s \in Services |-> FALSE]
  /\ ready = [s \in Services |-> Empty]
  /\ buf = [s \in Services |-> Empty]
  /\ cur = [s \in Services |-> None]
  /\ pc = [s \in Services |-> "retry"]
  /\ open = [s \in Services |-> FALSE]
  /\ faults = 0

Goto(s, l) == pc' = [pc EXCEPT ![s] = l]

------------------------------------------------------------------------------
(* The broker and the connection *)

\* A publish that reaches the broker: the exchange routes it to the bound
\* queue, and discards it when there is none (mandatory is false).
Enqueue(s, m) ==
  ready' = IF bound[s] THEN [ready EXCEPT ![s][m] = @ + 1] ELSE ready

\* Client.handleReconnect installs a new connection.
Reconnect(s) ==
  /\ ~ conn[s]
  /\ conn' = [conn EXCEPT ![s] = TRUE]
  /\ UNCHANGED <<bound, ready, buf, cur, pc, open, faults>>

\* Something goes wrong that nobody asked for.
Fault ==
  /\ faults < MaxFaults
  /\ faults' = faults + 1

\* The connection of s is gone: the broker requeues what was not settled.
Sever(s) ==
  /\ conn' = [conn EXCEPT ![s] = FALSE]
  /\ ready' = [ready EXCEPT ![s] = AddBag(@, Unacked(s))]
  /\ open' = [open EXCEPT ![s] = FALSE]

\* The connection or its channel is closed.  The goroutine keeps what it has
\* in hand and in its buffer.
LoseConnection(s) ==
  /\ conn[s]
  /\ Sever(s) /\ Fault
  /\ UNCHANGED <<bound, buf, cur, pc>>

\* Client.Close, called by a main function that returns.
CloseClient(s) ==
  /\ Sever(s)
  /\ UNCHANGED <<bound, buf, cur, pc, faults>>

\* The process is gone, with all that it remembers, and may be started again.
Vanish(s) ==
  /\ Sever(s)
  /\ buf' = [buf EXCEPT ![s] = Empty]
  /\ cur' = [cur EXCEPT ![s] = None]
  /\ Goto(s, "retry")
  /\ UNCHANGED bound

\* The process stops, gracefully (ctx.Done) or not, and is started again.
Exit(s) == Vanish(s) /\ Fault

\* Something goes wrong that leaves the consumer alone.
Elsewhere == Fault /\ UNCHANGED <<conn, bound, ready, buf, cur, pc, open>>

\* The broker sends a delivery; the library buffers it.
Push(s, m) ==
  /\ open[s]
  /\ ready[s][m] > 0
  /\ ready' = [ready EXCEPT ![s][m] = @ - 1]
  /\ buf' = [buf EXCEPT ![s][m] = @ + 1]
  /\ UNCHANGED <<conn, bound, cur, pc, open, faults>>

------------------------------------------------------------------------------
(* EventConsumer.Start *)

\* IsConnected, ExchangeDeclare, QueueDeclare and QueueBind succeed.
Declare(s) ==
  /\ pc[s] = "retry"
  /\ conn[s]
  /\ bound' = [bound EXCEPT ![s] = TRUE]
  /\ Goto(s, "subscribe")
  /\ UNCHANGED <<conn, ready, buf, cur, open, faults>>

\* A call of the set-up fails because the connection is gone.
SetupFails(s) ==
  /\ pc[s] = "subscribe"
  /\ ~ conn[s]
  /\ Goto(s, "retry")
  /\ UNCHANGED <<conn, bound, ready, buf, cur, open, faults>>

\* Consume succeeds, with manual acknowledgement and an empty buffer.
Subscribe(s) ==
  /\ pc[s] = "subscribe"
  /\ conn[s]
  /\ open' = [open EXCEPT ![s] = TRUE]
  /\ buf' = [buf EXCEPT ![s] = Empty]
  /\ Goto(s, "select")
  /\ UNCHANGED <<conn, bound, ready, cur, faults>>

\* A delivery is received, of the live subscription or of a dead one.
Take(s, m) ==
  /\ pc[s] = "select"
  /\ buf[s][m] > 0
  /\ buf' = [buf EXCEPT ![s][m] = @ - 1]
  /\ cur' = [cur EXCEPT ![s] = m]
  /\ Goto(s, "handle")
  /\ UNCHANGED <<conn, bound, ready, open, faults>>

\* Mutated form: the goroutine ends when the deliveries channel is closed.
StreamClosedReturns(s) ==
  /\ pc[s] = "select"
  /\ ~ open[s]
  /\ buf' = [buf EXCEPT ![s] = Empty]
  /\ Goto(s, "returned")
  /\ UNCHANGED <<conn, bound, ready, cur, open, faults>>

\* The deliveries channel is closed; what was left in its buffer is dropped.
StreamClosed(s) ==
  /\ pc[s] = "select"
  /\ ~ open[s]
  /\ buf' = [buf EXCEPT ![s] = Empty]
  /\ Goto(s, "retry")
  /\ UNCHANGED <<conn, bound, ready, cur, open, faults>>

\* The handler returns: nil, an error without requeue, or one with.
HandlerReturns(s, v) == pc[s] = "handle" /\ Goto(s, v)

\* Mutated form: the requeue flag of Nack is lost.
SettleNeverRequeues(s) ==
  /\ pc[s] \in Verdicts
  /\ cur' = [cur EXCEPT ![s] = None]
  /\ Goto(s, "select")
  /\ UNCHANGED <<conn, bound, ready, buf, open, faults>>

\* Ack or Nack.  On a dead channel it fails, which is only logged.  A nack
\* without requeue discards: the queue has no dead-letter exchange.
Settle(s) ==
  /\ pc[s] \in Verdicts
  /\ cur' = [cur EXCEPT ![s] = None]
  /\ ready' = IF pc[s] = "requeue" /\ open[s]
                THEN [ready EXCEPT ![s][cur[s]] = @ + 1] ELSE ready
  /\ Goto(s, "select")
  /\ UNCHANGED <<conn, bound, buf, open, faults>>

------------------------------------------------------------------------------
\* The steps of the goroutine other than those of the handler.
Loop(s) == Declare(s) \/ SetupFails(s) \/ Subscribe(s) \/ StreamClosed(s) \/ Settle(s)

\* The consumer without its handler and without its faults.
Deliver(s) == Reconnect(s) \/ Loop(s) \/ \E m \in Msgs : Push(s, m) \/ Take(s, m)

\* A published message arrives; at most MaxFaults + 1 copies of it.
Arrive(s, m) ==
  /\ ready[s][m] + buf[s][m] <= MaxFaults
  /\ Enqueue(s, m)
  /\ UNCHANGED <<conn, bound, buf, cur, pc, open, faults>>

HandleAny(s) ==
  /\ \E v \in Verdicts : HandlerReturns(s, v)
  /\ UNCHANGED <<conn, bound, ready, buf, cur, open, faults>>

ConsumerNext ==
  \E s \in Services :
    \/ Deliver(s) \/ HandleAny(s) \/ LoseConnection(s) \/ CloseClient(s)
    \/ Vanish(s) /\ (Fault \/ UNCHANGED faults)
    \/ Elsewhere
    \/ \E m \in Msgs : Arrive(s, m)

ConsumerSpec == ConsumerInit /\ [][ConsumerNext]_consumerVars

\* Dialling is retried until it succeeds, the goroutine runs, the broker
\* pushes, and the buffer is first in, first out: no delivery in it is passed
\* over forever while others are taken.
DeliveryFairness ==
  \A s \in Services :
    /\ WF_consumerVars(Reconnect(s))
    /\ WF_consumerVars(Loop(s))
    /\ \A m \in Msgs : WF_consumerVars(Push(s, m)) /\ SF_consumerVars(Take(s, m))

------------------------------------------------------------------------------
(* Properties *)

\* Every variable has its type; a subscription is live only on a live
\* connection, and a message is in hand exactly from Take to Settle.
ConsumerTypeOK ==
  /\ conn \in [Services -> BOOLEAN]
  /\ bound \in [Services -> BOOLEAN]
  /\ ready \in [Services -> [Msgs -> Nat]]
  /\ buf \in [Services -> [Msgs -> Nat]]
  /\ cur \in [Services -> Msgs \cup {None}]
  /\ pc \in [Services -> Locations]
  /\ open \in [Services -> BOOLEAN]
  /\ faults \in 0..MaxFaults
  /\ \A s \in Services :
       /\ open[s] => conn[s] /\ pc[s] \notin {"retry", "subscribe"}
       /\ cur[s] = None <=> pc[s] \in {"retry", "subscribe", "select"}

\* The messages the broker still answers for.
Backlog(s) == AddBag(ready[s], Unacked(s))
Verdict(s) == IF pc[s] \in {"ack", "drop"} THEN cur[s] ELSE None

\* Whatever connections are lost and processes exit, and wherever the
\* goroutine is when they do, the queue and its consumer lose no message the
\* handler has not finished with, and never settle two copies for one answer.
Promise ==
  INSTANCE AtLeastOnce WITH backlog <- [s \in Services |-> Backlog(s)],
                            verdict <- [s \in Services |-> Verdict(s)]
DeliversAtLeastOnce == Promise!Spec
===============================================================================
