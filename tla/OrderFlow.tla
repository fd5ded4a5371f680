------------------------------ MODULE OrderFlow ------------------------------
(***************************************************************************)
(* The life of an order across the two services: PlaceOrder saves it and   *)
(* publishes order_created; the payment service charges and publishes      *)
(* payment_completed; the order service marks the order PAID.  Each        *)
(* service runs one EventConsumer, and shares one rabbitmq.Client between  *)
(* what it consumes and what it publishes.                                 *)
(*                                                                         *)
(* There are no publisher confirms: Publish returns nil once the message   *)
(* is written to the connection.  order_created is persistent and          *)
(* payment_completed is not.  orderService.UpdateStatus is one step here,  *)
(* as OrderStore shows it to be.                                           *)
(***************************************************************************)
EXTENDS OrderDomain, EventConsumer

\* Services is {"order", "payment"}, and a message is known by its order.
Orders == Msgs
ASSUME FlowAssumption == Services = {"order", "payment"}

VARIABLES status,      \* committed status of each order, NoOrder without a row
          placed,      \* the CreateOrder request that makes the order: how far
                       \* it is, and in the end what its caller was told
          charged,     \* times the customer was charged for it
          charging,    \* the payment handler has charged for what it handles
          lost,        \* lost[s]: messages to s that were published in vain
          exchange     \* the exchange has been declared

orderVars == <<status, placed, charged, charging, lost>>
flowVars == <<orderVars, exchange>>
vars == <<consumerVars, flowVars>>

Requests == {"new", "saved", "sent", "ok", "error"}

Init ==
  /\ ConsumerInit
  /\ status = [o \in Orders |-> NoOrder]
  /\ placed = [o \in Orders |-> "new"]
  /\ charged = [o \in Orders |-> 0]
  /\ charging = FALSE
  /\ lost = [s \in Services |-> {}]
  /\ exchange = FALSE

Lose(s, msgs) == lost' = [lost EXCEPT ![s] = @ \cup msgs]

\* Publish returned nil: the message reaches the queue if there is one.
Publish(s, o) ==
  /\ Enqueue(s, o)
  /\ Lose(s, IF bound[s] THEN {} ELSE {o})

\* Publish returned nil too, but the connection of its sender was dying.
PublishInVain(from, s, o) ==
  /\ conn[from]
  /\ Sever(from) /\ Fault
  /\ Lose(s, {o})

------------------------------------------------------------------------------
(* orderService.PlaceOrder *)

Answer(o, a) == placed' = [placed EXCEPT ![o] = a]

\* The transaction that saves the order commits.
SaveOrder(o) ==
  /\ placed[o] = "new"
  /\ Answer(o, "saved")
  /\ status' = [status EXCEPT ![o] = "PENDING"]
  /\ UNCHANGED <<consumerVars, charged, charging, lost, exchange>>

\* CreateOrder returns an error, with the order saved or without.
SaveFails(o) ==
  /\ placed[o] = "new"
  /\ Answer(o, "error")
  /\ status' \in {status, [status EXCEPT ![o] = "PENDING"]}
  /\ UNCHANGED <<consumerVars, charged, charging, lost, exchange>>

PublishCreated(o) ==
  /\ placed[o] = "saved"
  /\ conn["order"] /\ exchange
  /\ Publish("payment", o)
  /\ Answer(o, "sent")
  /\ UNCHANGED <<conn, bound, buf, cur, pc, open, faults, status, charged, charging, exchange>>

PublishCreatedInVain(o) ==
  /\ placed[o] = "saved"
  /\ PublishInVain("order", "payment", o)
  /\ Answer(o, "sent")
  /\ UNCHANGED <<bound, buf, cur, pc, status, charged, charging, exchange>>

\* There is no exchange yet: the broker closes the channel, and the client its
\* connection.  Publish has returned nil.
PublishUndeclared(o) ==
  /\ placed[o] = "saved"
  /\ conn["order"] /\ ~ exchange
  /\ Sever("order")
  /\ Lose("payment", {o})
  /\ Answer(o, "sent")
  /\ UNCHANGED <<bound, buf, cur, pc, faults, status, charged, charging, exchange>>

\* The client is not connected: the order stays, the request fails.
PublishCreatedFails(o) ==
  /\ placed[o] = "saved"
  /\ ~ conn["order"]
  /\ Answer(o, "error")
  /\ UNCHANGED <<consumerVars, status, charged, charging, lost, exchange>>

\* PlaceOrder and the handler return the order, and the caller gets it.
Respond(o) ==
  /\ placed[o] = "sent"
  /\ Answer(o, "ok")
  /\ UNCHANGED <<consumerVars, status, charged, charging, lost, exchange>>

\* The caller gets an error instead: it stopped waiting, now or before, or its
\* call broke.  The event is out all the same.
AnswerLost(o) ==
  /\ placed[o] = "sent"
  /\ Elsewhere
  /\ Answer(o, "error")
  /\ UNCHANGED <<status, charged, charging, lost, exchange>>

\* The goroutine that NewRabbitMQBroker starts; nothing waits for it.
DeclareExchange ==
  /\ ~ exchange /\ conn["order"]
  /\ exchange' = TRUE
  /\ UNCHANGED <<consumerVars, orderVars>>

------------------------------------------------------------------------------
(* The payment service's handler *)

InHand(s, o) == pc[s] = "handle" /\ cur[s] = o

\* Mutated form: the event is published before the business logic runs.
ChargeSkipped(o) ==
  /\ InHand("payment", o)
  /\ ~ charging
  /\ charging' = TRUE
  /\ UNCHANGED <<consumerVars, status, placed, charged, lost, exchange>>

\* The business logic: the customer pays.
Charge(o) ==
  /\ InHand("payment", o)
  /\ ~ charging
  /\ charging' = TRUE
  /\ charged' = [charged EXCEPT ![o] = @ + 1]
  /\ UNCHANGED <<consumerVars, status, placed, lost, exchange>>

PaymentReturns(v) ==
  /\ HandlerReturns("payment", v)
  /\ charging' = FALSE

\* Mutated form: the handler asks for the event again after a success.
PublishCompletedRequeues(o) ==
  /\ InHand("payment", o)
  /\ charging
  /\ conn["payment"]
  /\ Publish("order", o)
  /\ PaymentReturns("requeue")
  /\ UNCHANGED <<conn, bound, buf, cur, open, faults, status, placed, charged, exchange>>

PublishCompleted(o) ==
  /\ InHand("payment", o)
  /\ charging
  /\ conn["payment"]
  /\ Publish("order", o)
  /\ PaymentReturns("ack")
  /\ UNCHANGED <<conn, bound, buf, cur, open, faults, status, placed, charged, exchange>>

PublishCompletedInVain(o) ==
  /\ InHand("payment", o)
  /\ charging
  /\ PublishInVain("payment", "order", o)
  /\ PaymentReturns("ack")
  /\ UNCHANGED <<bound, buf, cur, status, placed, charged, exchange>>

\* The client is not connected.
PublishCompletedFails(o) ==
  /\ InHand("payment", o)
  /\ charging
  /\ ~ conn["payment"]
  /\ PaymentReturns("requeue")
  /\ UNCHANGED <<conn, bound, ready, buf, cur, open, faults, status, placed, charged, lost, exchange>>

------------------------------------------------------------------------------
(* PaymentCompletedHandler.HandlePaymentCompleted *)

OrderReturns(v) ==
  /\ HandlerReturns("order", v)
  /\ UNCHANGED <<conn, bound, ready, buf, cur, open, placed, charged, charging, lost, exchange>>

SetPaid(o) == status' = [status EXCEPT ![o] = "PAID"]

MarkPaid(o) ==
  /\ InHand("order", o)
  /\ CanTransitionTo(status[o], "PAID")
  /\ SetPaid(o)
  /\ OrderReturns("ack")
  /\ UNCHANGED faults

\* The database fails; after a COMMIT of unknown outcome the order may be
\* PAID all the same.
MarkPaidFails(o) ==
  /\ InHand("order", o)
  /\ Fault
  /\ CanTransitionTo(status[o], "PAID")
  /\ SetPaid(o) \/ UNCHANGED status
  /\ OrderReturns("requeue")

\* The order cannot become PAID (ErrInvalidStatus, or no row): the handler
\* treats this like any other failure.
RejectPaid(o) ==
  /\ InHand("order", o)
  /\ ~ CanTransitionTo(status[o], "PAID")
  /\ OrderReturns("requeue")
  /\ UNCHANGED <<faults, status>>

------------------------------------------------------------------------------
(* Failures *)

\* A service exits, and somebody starts it again.  A request that it has not
\* answered ends in an error, wherever it was.
Crash(s) ==
  /\ Exit(s)
  /\ IF s = "order"
       THEN /\ placed' = [o \in Orders |->
                           IF placed[o] \in {"saved", "sent"} THEN "error" ELSE placed[o]]
            /\ UNCHANGED charging
       ELSE charging' = FALSE /\ UNCHANGED placed
  /\ UNCHANGED <<status, charged, lost, exchange>>

\* Mutated form: order_created is transient as well.
BrokerRestartForgets ==
  /\ Fault
  /\ conn' = [s \in Services |-> FALSE]
  /\ open' = [s \in Services |-> FALSE]
  /\ ready' = [s \in Services |-> Empty]
  /\ lost' = [s \in Services |-> lost[s] \cup {o \in Orders : Backlog(s)[o] > 0}]
  /\ UNCHANGED <<bound, buf, cur, pc, status, placed, charged, charging, exchange>>

\* The broker restarts: queues and persistent messages survive, transient
\* messages do not, and every connection is lost.
BrokerRestart ==
  /\ Fault
  /\ conn' = [s \in Services |-> FALSE]
  /\ open' = [s \in Services |-> FALSE]
  /\ ready' = [s \in Services |-> IF s = "payment" THEN Backlog(s) ELSE Empty]
  /\ Lose("order", {o \in Orders : Backlog("order")[o] > 0})
  /\ UNCHANGED <<bound, buf, cur, pc, status, placed, charged, charging, exchange>>

------------------------------------------------------------------------------
Place(o) ==
  \/ SaveOrder(o) \/ SaveFails(o)
  \/ PublishCreated(o) \/ PublishCreatedInVain(o) \/ PublishUndeclared(o)
  \/ PublishCreatedFails(o) \/ Respond(o) \/ AnswerLost(o)

HandleCreated(o) ==
  \/ Charge(o)
  \/ PublishCompleted(o) \/ PublishCompletedInVain(o) \/ PublishCompletedFails(o)

HandleCompleted(o) == MarkPaid(o) \/ MarkPaidFails(o) \/ RejectPaid(o)

\* A consumer declares the exchange before it binds its queue.
Consume(s) ==
  /\ Deliver(s)
  /\ exchange' = (exchange \/ bound'[s])
  /\ UNCHANGED orderVars

Next ==
  \/ \E o \in Orders : Place(o) \/ HandleCreated(o) \/ HandleCompleted(o)
  \/ \E s \in Services : Consume(s) \/ (LoseConnection(s) /\ UNCHANGED flowVars)
  \/ \E s \in Services : Crash(s)
  \/ DeclareExchange \/ BrokerRestart

Spec == Init /\ [][Next]_vars

\* The consumers are fair, a handler that was called returns, and a request
\* whose order is saved goes on to publish and to answer.  No fault has to
\* happen, and no request has to be made.  That a service which exited is
\* started again is part of Exit: nothing in the repository sees to it.
Fairness ==
  /\ DeliveryFairness
  /\ \A o \in Orders :
       /\ WF_vars(HandleCreated(o))
       /\ WF_vars(HandleCompleted(o))
       /\ WF_vars(PublishCreated(o) \/ PublishUndeclared(o) \/ PublishCreatedFails(o)
                    \/ Respond(o))

LiveSpec == Spec /\ Fairness

------------------------------------------------------------------------------
(* Properties *)

\* Every variable has its type; a charge under way belongs to the delivery
\* the payment handler has in hand.
TypeOK ==
  /\ ConsumerTypeOK
  /\ status \in [Orders -> {NoOrder, "PENDING", "PAID"}]
  /\ placed \in [Orders -> Requests]
  /\ charged \in [Orders -> Nat]
  /\ charging \in BOOLEAN /\ exchange \in BOOLEAN
  /\ lost \in [Services -> SUBSET Orders]
  /\ charging => pc["payment"] = "handle"

\* PublishOrderCreated has returned nil, and no answer to the contrary was given.
Announced(o) == placed[o] \in {"sent", "ok"}

\* An announced order that is not PAID yet is not forgotten: unless one of its
\* two events was published in vain or died with the broker, the broker still
\* owes one of them to a service, whatever crashed in between.
NothingForgotten ==
  \A o \in Orders :
    Announced(o) /\ status[o] = "PENDING" /\ (\A s \in Services : o \notin lost[s])
      => \E s \in Services : Backlog(s)[o] > 0

\* What the customer may have been charged for o.
MayBeCharged(o) ==
  IF Announced(o) THEN 1 + faults
    ELSE IF placed[o] = "error" THEN faults ELSE 0

\* A customer is charged once the order is announced, and once more at most for
\* each failure.  An order whose request ended in an error may be charged too,
\* since the event can be out before the answer is lost; but never without a
\* failure, which then pays for the first charge.
ChargesHaveACause == \A o \in Orders : charged[o] <= MayBeCharged(o)

\* Every announced order becomes PAID, unless one of its events was lost.
AcceptedOrdersGetPaid ==
  \A o \in Orders :
    Announced(o) ~> (status[o] = "PAID" \/ \E s \in Services : o \in lost[s])

\* The two services implement the abstract checkout: PAID once, and only after
\* a charge of an order that exists, however deliveries are repeated.
Abstract == INSTANCE Checkout
ImplementsCheckout == Abstract!Spec

\* The store that the two services share only ever sees the moves it allows:
\* what is one step here is a call of OrderStore that succeeds.
Lifecycle == INSTANCE OrderLifecycle
OrdersKeepLifecycle == Lifecycle!Spec

\* How far RequeuesAreTransient, below, fails: an event that can never succeed
\* reaches its handler only after a fault.  Without one each order is charged,
\* announced and PAID once, though the first events may find nothing declared.
PoisonHasACause ==
  \A o \in Orders :
    InHand("order", o) /\ ~ CanTransitionTo(status[o], "PAID") => faults > 0

\* order_created is persistent and its queue durable: through any fault, of the
\* broker too, its consumer keeps the at-least-once promise.  payment_completed
\* is transient, and its consumer cannot.
PaymentPromise ==
  INSTANCE AtLeastOnce WITH Services <- {"payment"},
                            backlog <- [s \in {"payment"} |-> Backlog(s)],
                            verdict <- [s \in {"payment"} |-> Verdict(s)]
PaymentQueueIsDurable == PaymentPromise!Spec

\* What internal/order/domain/order.go says of PublishOrderCreated: it returns
\* an error if the message fails to publish.
PublishedOrReported ==
  \A o \in Orders : placed[o] = "ok" => o \notin lost["payment"]

\* What payment_handler.go says of the deliveries it requeues: the failure is
\* transient, so that the event is consumed in the end.
RequeuesAreTransient ==
  \A o \in Orders :
    (pc["order"] = "requeue" /\ cur["order"] = o) ~> (Backlog("order")[o] = 0)
===============================================================================
