--------------------------- MODULE OrderFlowProofs ---------------------------
(***************************************************************************)
(* Theorems of OrderFlow, for every set of orders and any number of        *)
(* faults.  The invariants follow each event from its publication on: an   *)
(* order_created exists only for an order whose publish was called, and at *)
(* most once in the broker, a payment_completed only for a charged one,    *)
(* and a fault pays for every delivery of an order_created beyond the      *)
(* first, and for the first one if the request ended in an error.          *)
(***************************************************************************)
EXTENDS OrderFlow, EventConsumerProofs

USE DEF Fault

\* Events of o to s, in the broker or in the hands of the service.
Present(s, o) == ready[s][o] > 0 \/ buf[s][o] > 0 \/ cur[s] = o

\* Deliveries of o the payment handler may still charge for.
Chargeable(o) ==
  ready["payment"][o] + buf["payment"][o]
    + (IF InHand("payment", o) /\ ~ charging THEN 1 ELSE 0)

\* o is announced, not PAID, and no event of it was lost.
Waiting(o) ==
  Announced(o) /\ status[o] = "PENDING" /\ \A s \in Services : o \notin lost[s]

SavedHasRow ==
  \A o \in Orders :
    /\ placed[o] = "new" => status[o] = NoOrder
    /\ placed[o] = "saved" \/ Announced(o) => status[o] # NoOrder

CreatedIsSent ==
  \A o \in Orders : Present("payment", o) => placed[o] \notin {"new", "saved"}

CreatedHasRow == \A o \in Orders : Present("payment", o) => status[o] # NoOrder

CreatedIsUnique == \A o \in Orders : Copies("payment", o) <= 1

CompletedIsCharged == \A o \in Orders : Present("order", o) => charged[o] > 0

ChargingIsCharged == charging => charged[cur["payment"]] > 0

RequeuedIsStale == pc["payment"] = "requeue" => ~ open["payment"]

NeverDropped == \A s \in Services : pc[s] # "drop"

ChargesAccounted ==
  \A o \in Orders :
    /\ charged[o] + Chargeable(o) <= 1 + faults
    /\ placed[o] = "error" => charged[o] + Chargeable(o) <= faults
    /\ placed[o] \in {"new", "saved"} => charged[o] = 0

AckedIsPaid == pc["order"] = "ack" => status[cur["order"]] = "PAID"

AckedIsPublished ==
  \A o \in Orders :
    pc["payment"] = "ack" /\ cur["payment"] = o /\ Waiting(o) => Copies("order", o) > 0

WaitingIsOwed ==
  \A o \in Orders : Waiting(o) => Copies("payment", o) > 0 \/ Copies("order", o) > 0

\* Where orders, events and charges come from.
Provenance ==
  /\ TypeOK
  /\ SavedHasRow
  /\ CreatedIsSent
  /\ CreatedHasRow
  /\ CompletedIsCharged
  /\ ChargingIsCharged

\* Charges are paid for by faults.
Accounting ==
  /\ CreatedIsUnique
  /\ RequeuedIsStale
  /\ ChargesAccounted

\* Waiting orders are owed an event.
Owing ==
  /\ NeverDropped
  /\ AckedIsPaid
  /\ AckedIsPublished
  /\ WaitingIsOwed

------------------------------------------------------------------------------
(* Types *)

LEMMA FlowInit == Init => TypeOK
  <1> SUFFICES ASSUME Init PROVE TypeOK
    OBVIOUS
  <1>1. ConsumerTypeOK
    BY TypeInit DEF Init
  <1>2. lost \in [Services -> SUBSET Orders]
    BY DEF Init
  <1>3. QED
    BY <1>1, <1>2 DEF Init, TypeOK, Requests

\* A step of the consumer alone keeps the consumer's types.
LEMMA ConsumerStepType ==
  ASSUME ConsumerTypeOK, NEW s \in Services,
         Deliver(s) \/ LoseConnection(s) \/ Exit(s)
  PROVE  ConsumerTypeOK'
<1>1. CASE Exit(s)
  BY <1>1, TypeStep DEF Exit, ConsumerNext
<1>2. CASE Deliver(s) \/ LoseConnection(s)
  BY <1>2, TypeStep DEF ConsumerNext
<1> QED
  BY <1>1, <1>2

LEMMA FlowTypeStep == TypeOK /\ [Next]_vars => TypeOK'
  <1> SUFFICES ASSUME TypeOK, [Next]_vars PROVE TypeOK'
    OBVIOUS
  <1> USE FlowAssumption, ConsumerAssumption
      DEF TypeOK, Requests, Orders, Answer, Lose, InHand
  <1>1. ASSUME NEW o \in Orders, SaveOrder(o) PROVE TypeOK'
    BY <1>1 DEF SaveOrder, consumerVars, ConsumerTypeOK
  <1>2. ASSUME NEW o \in Orders, SaveFails(o) PROVE TypeOK'
    BY <1>2 DEF SaveFails, consumerVars, ConsumerTypeOK
  <1>3. ASSUME NEW o \in Orders, PublishCreated(o) PROVE TypeOK'
    <2>1. ConsumerTypeOK'
      BY <1>3 DEF PublishCreated, Publish, Enqueue, ConsumerTypeOK
    <2>2. QED
      BY <1>3, <2>1 DEF PublishCreated, Publish
  <1>4. ASSUME NEW o \in Orders, PublishCreatedInVain(o) \/ PublishUndeclared(o) PROVE TypeOK'
    <2>1. ConsumerTypeOK'
      BY <1>4, SeverType DEF PublishCreatedInVain, PublishInVain, PublishUndeclared, ConsumerTypeOK
    <2>2. QED
      BY <1>4, <2>1 DEF PublishCreatedInVain, PublishInVain, PublishUndeclared
  <1>5. ASSUME NEW o \in Orders, PublishCreatedFails(o) \/ Respond(o) PROVE TypeOK'
    BY <1>5 DEF PublishCreatedFails, Respond, consumerVars, ConsumerTypeOK
  <1>18. ASSUME NEW o \in Orders, AnswerLost(o) PROVE TypeOK'
    BY <1>18 DEF AnswerLost, Elsewhere, ConsumerTypeOK
  <1>6. ASSUME NEW o \in Orders, Charge(o) PROVE TypeOK'
    BY <1>6 DEF Charge, consumerVars, ConsumerTypeOK
  <1>7. ASSUME NEW o \in Orders, PublishCompleted(o) PROVE TypeOK'
    <2>1. ConsumerTypeOK'
      BY <1>7 DEF PublishCompleted, Publish, Enqueue, PaymentReturns, HandlerReturns,
        Goto, ConsumerTypeOK, Locations, Verdicts
    <2>2. QED
      BY <1>7, <2>1 DEF PublishCompleted, Publish, PaymentReturns
  <1>8. ASSUME NEW o \in Orders, PublishCompletedInVain(o) PROVE TypeOK'
    <2>1. ConsumerTypeOK'
      BY <1>8, SeverType DEF PublishCompletedInVain, PublishInVain, PaymentReturns,
        HandlerReturns, Goto, ConsumerTypeOK, Locations, Verdicts
    <2>2. QED
      BY <1>8, <2>1 DEF PublishCompletedInVain, PublishInVain, PaymentReturns
  <1>9. ASSUME NEW o \in Orders, PublishCompletedFails(o) PROVE TypeOK'
    <2>1. ConsumerTypeOK'
      BY <1>9 DEF PublishCompletedFails, PaymentReturns, HandlerReturns, Goto,
        ConsumerTypeOK, Locations, Verdicts
    <2>2. QED
      BY <1>9, <2>1 DEF PublishCompletedFails, PaymentReturns
  <1>10. ASSUME NEW o \in Orders, HandleCompleted(o) PROVE TypeOK'
    <2>1. ConsumerTypeOK'
      BY <1>10 DEF HandleCompleted, MarkPaid, MarkPaidFails, RejectPaid, OrderReturns,
        HandlerReturns, Goto, ConsumerTypeOK, Locations, Verdicts
    <2>2. UNCHANGED <<placed, charged, charging, lost, exchange>>
      BY <1>10 DEF HandleCompleted, MarkPaid, MarkPaidFails, RejectPaid, OrderReturns
    <2>3. status' \in [Orders -> {NoOrder, "PENDING", "PAID"}]
      BY <1>10 DEF HandleCompleted, MarkPaid, MarkPaidFails, RejectPaid, SetPaid
    <2>4. pc'["payment"] = pc["payment"]
      BY <1>10 DEF HandleCompleted, MarkPaid, MarkPaidFails, RejectPaid, OrderReturns,
        HandlerReturns, Goto, ConsumerTypeOK
    <2>5. QED
      BY <2>1, <2>2, <2>3, <2>4
  <1>11. ASSUME NEW s \in Services, Deliver(s), UNCHANGED orderVars,
                exchange' \in BOOLEAN
         PROVE  TypeOK'
    <2>1. ConsumerTypeOK'
      BY <1>11, ConsumerStepType
    <2>2. pc["payment"] = "handle" => pc'["payment"] = "handle"
      BY <1>11 DEF Deliver, Loop, Reconnect, Declare, SetupFails, Subscribe, StreamClosed,
        Settle, Push, Take, Goto, Verdicts, ConsumerTypeOK
    <2>3. QED
      BY <1>11, <2>1, <2>2 DEF orderVars
  <1>12. ASSUME NEW s \in Services, LoseConnection(s), UNCHANGED flowVars PROVE TypeOK'
    <2>1. ConsumerTypeOK'
      BY <1>12, ConsumerStepType
    <2>2. QED
      BY <1>12, <2>1 DEF flowVars, orderVars, LoseConnection
  <1>13. ASSUME NEW s \in Services, Crash(s) PROVE TypeOK'
    <2>1. ConsumerTypeOK'
      BY <1>13, ConsumerStepType DEF Crash
    <2>2. placed' \in [Orders -> Requests] /\ UNCHANGED <<status, charged, lost, exchange>>
      BY <1>13 DEF Crash
    <2>3. charging' \in BOOLEAN /\ (charging' => pc'["payment"] = "handle")
      BY <1>13 DEF Crash, Exit, Vanish, Goto, ConsumerTypeOK
    <2>4. QED
      BY <2>1, <2>2, <2>3
  <1>14. CASE BrokerRestart
    <2>1. \A s \in Services : Backlog(s) \in [Msgs -> Nat]
      BY DEF Backlog, Unacked, Held, AddBag, Empty, ConsumerTypeOK
    <2>2. ConsumerTypeOK'
      BY <1>14, <2>1 DEF BrokerRestart, Empty, ConsumerTypeOK
    <2>3. QED
      BY <1>14, <2>2 DEF BrokerRestart
  <1>15. CASE DeclareExchange \/ UNCHANGED vars
    <2>1. UNCHANGED <<consumerVars, orderVars>>
      BY <1>15 DEF DeclareExchange, vars, flowVars
    <2>2. exchange' \in BOOLEAN
      BY <1>15 DEF DeclareExchange, vars, flowVars
    <2>3. QED
      BY <2>1, <2>2 DEF orderVars, consumerVars, ConsumerTypeOK
  <1>16. ASSUME NEW s \in Services, Consume(s) PROVE exchange' \in BOOLEAN
    <2>1. exchange' = (exchange \/ bound'[s])
      BY <1>16 DEF Consume
    <2>2. QED
      BY <2>1
  <1>17. QED
    BY <1>1, <1>2, <1>3, <1>4, <1>5, <1>6, <1>7, <1>8, <1>9, <1>10, <1>11, <1>12, <1>13,
      <1>14, <1>15, <1>16, <1>18 DEF Next, Consume, flowVars, Place, HandleCreated

\* Every reachable state is well typed.
THEOREM TypeCorrect == Spec => []TypeOK
  BY FlowInit, FlowTypeStep, PTL DEF Spec
------------------------------------------------------------------------------
(* Where orders, events and charges come from *)

\* A severed connection brings back only events that were present.
LEMMA SeverPresent ==
  ASSUME ConsumerTypeOK, NEW s \in Services, Sever(s),
         NEW t \in Services, NEW o \in Orders, ready'[t][o] > 0
  PROVE  Present(t, o)
  <1>1. CASE t = s
    BY <1>1 DEF Sever, Unacked, Held, AddBag, Empty, Present, Orders, ConsumerTypeOK
  <1>2. CASE t # s
    BY <1>2 DEF Sever, Present, ConsumerTypeOK
  <1>3. QED
    BY <1>1, <1>2

\* The consumer moves events; it makes none.
LEMMA ConsumerPresent ==
  ASSUME ConsumerTypeOK, NEW s \in Services,
         Deliver(s) \/ LoseConnection(s) \/ Exit(s),
         NEW t \in Services, NEW o \in Orders, Present(t, o)'
  PROVE  Present(t, o)
  <1> USE ConsumerAssumption DEF ConsumerTypeOK, Present, Orders
  <1>1. CASE LoseConnection(s)
    BY <1>1, SeverPresent DEF LoseConnection
  <1>2. CASE Exit(s)
    <2>1. ready'[t][o] > 0 \/ (t # s /\ buf'[t] = buf[t] /\ cur'[t] = cur[t])
      BY <1>2 DEF Exit, Vanish, Empty
    <2>2. QED
      BY <1>2, <2>1, SeverPresent DEF Exit, Vanish
  <1>3. CASE Reconnect(s)
    BY <1>3 DEF Reconnect
  <1>4. CASE Declare(s)
    BY <1>4 DEF Declare
  <1>5. CASE SetupFails(s)
    BY <1>5 DEF SetupFails
  <1>6. CASE Subscribe(s)
    BY <1>6 DEF Subscribe, Empty
  <1>7. CASE StreamClosed(s)
    BY <1>7 DEF StreamClosed, Empty
  <1>8. CASE Settle(s)
    BY <1>8 DEF Settle, Verdicts
  <1>9. ASSUME NEW m \in Msgs, Push(s, m) PROVE Present(t, o)
    BY <1>9 DEF Push
  <1>10. ASSUME NEW m \in Msgs, Take(s, m) PROVE Present(t, o)
    BY <1>10 DEF Take
  <1>11. QED
    BY <1>1, <1>2, <1>3, <1>4, <1>5, <1>6, <1>7, <1>8, <1>9, <1>10 DEF Deliver, Loop

LEMMA ProvenanceInit == Init => Provenance
  BY FlowInit, FlowAssumption, ConsumerAssumption DEF Init, ConsumerInit, Provenance, SavedHasRow, CreatedIsSent,
    CreatedHasRow, CompletedIsCharged, ChargingIsCharged, Present, Orders, Empty, Announced

LEMMA ProvenanceStep == Provenance /\ [Next]_vars => Provenance'
  <1> SUFFICES ASSUME Provenance, [Next]_vars PROVE Provenance'
    OBVIOUS
  <1>0. TypeOK'
    BY FlowTypeStep DEF Provenance
  <1> USE <1>0, FlowAssumption, ConsumerAssumption DEF Provenance, SavedHasRow,
        CreatedIsSent, CreatedHasRow, CompletedIsCharged, ChargingIsCharged, TypeOK, ConsumerTypeOK,
        Orders, Answer, InHand, Announced, Requests
  <1>1. ASSUME NEW o \in Orders, SaveOrder(o) PROVE Provenance'
    BY <1>1 DEF SaveOrder, consumerVars, Present, NoOrder
  <1>2. ASSUME NEW o \in Orders, SaveFails(o) PROVE Provenance'
    BY <1>2 DEF SaveFails, consumerVars, Present
  <1>3. ASSUME NEW o \in Orders, PublishCreated(o) PROVE Provenance'
    <2>1. \A p \in Orders : Present("payment", p)' => Present("payment", p) \/ p = o
      BY <1>3 DEF PublishCreated, Publish, Enqueue, Present
    <2>2. \A p \in Orders : Present("order", p)' => Present("order", p)
      BY <1>3 DEF PublishCreated, Publish, Enqueue, Present
    <2>3. QED
      BY <1>3, <2>1, <2>2 DEF PublishCreated
  <1>4. ASSUME NEW o \in Orders, PublishCreatedInVain(o) \/ PublishUndeclared(o)
        PROVE  Provenance'
    <2>1. \A s \in Services, p \in Orders : Present(s, p)' => Present(s, p)
      BY <1>4, SeverPresent DEF PublishCreatedInVain, PublishInVain, PublishUndeclared, Present
    <2>2. QED
      BY <1>4, <2>1 DEF PublishCreatedInVain, PublishUndeclared
  <1>5. ASSUME NEW o \in Orders, PublishCreatedFails(o) \/ Respond(o) \/ AnswerLost(o)
        PROVE  Provenance'
    BY <1>5 DEF PublishCreatedFails, Respond, AnswerLost, Elsewhere, consumerVars, Present
  <1>6. ASSUME NEW o \in Orders, Charge(o) PROVE Provenance'
    BY <1>6 DEF Charge, consumerVars, Present
  <1>7. ASSUME NEW o \in Orders, PublishCompleted(o) PROVE Provenance'
    <2>1. \A p \in Orders : Present("order", p)' => Present("order", p) \/ p = o
      BY <1>7 DEF PublishCompleted, Publish, Enqueue, Present
    <2>2. \A p \in Orders : Present("payment", p)' => Present("payment", p)
      BY <1>7 DEF PublishCompleted, Publish, Enqueue, Present
    <2>3. QED
      BY <1>7, <2>1, <2>2 DEF PublishCompleted, PaymentReturns
  <1>8. ASSUME NEW o \in Orders, PublishCompletedInVain(o) PROVE Provenance'
    <2>1. \A s \in Services, p \in Orders : Present(s, p)' => Present(s, p)
      BY <1>8, SeverPresent DEF PublishCompletedInVain, PublishInVain, Present
    <2>2. QED
      BY <1>8, <2>1 DEF PublishCompletedInVain, PaymentReturns
  <1>9. ASSUME NEW o \in Orders, PublishCompletedFails(o) PROVE Provenance'
    BY <1>9 DEF PublishCompletedFails, PaymentReturns, Present
  <1>10. ASSUME NEW o \in Orders, HandleCompleted(o) PROVE Provenance'
    <2>1. UNCHANGED <<ready, buf, cur, placed, charged, charging>>
      BY <1>10 DEF HandleCompleted, MarkPaid, MarkPaidFails, RejectPaid, OrderReturns
    <2>2. status' = status \/ (status[o] = "PENDING" /\ SetPaid(o))
      BY <1>10 DEF HandleCompleted, MarkPaid, MarkPaidFails, RejectPaid, CanTransitionTo
    <2>3. QED
      BY <2>1, <2>2 DEF SetPaid, Present, NoOrder
  <1>11. ASSUME NEW s \in Services, Deliver(s) \/ LoseConnection(s), UNCHANGED orderVars
         PROVE  Provenance'
    <2>1. \A t \in Services, p \in Orders : Present(t, p)' => Present(t, p)
      BY <1>11, ConsumerPresent
    <2>2. charging => cur'["payment"] = cur["payment"]
      BY <1>11 DEF Deliver, Loop, Reconnect, Declare, SetupFails, Subscribe, StreamClosed,
        Settle, Push, Take, LoseConnection, Verdicts
    <2>3. QED
      BY <1>11, <2>1, <2>2 DEF orderVars
  <1>12. ASSUME NEW s \in Services, Crash(s) PROVE Provenance'
    <2>1. \A t \in Services, p \in Orders : Present(t, p)' => Present(t, p)
      BY <1>12, ConsumerPresent DEF Crash
    <2>2. \A p \in Orders : placed'[p] = placed[p] \/ (placed[p] \in {"saved", "sent"} /\ placed'[p] = "error")
      BY <1>12 DEF Crash
    <2>3. charging' => charging /\ cur'["payment"] = cur["payment"]
      BY <1>12 DEF Crash, Exit, Vanish
    <2>4. QED
      BY <1>12, <2>1, <2>2, <2>3 DEF Crash
  <1>13. CASE BrokerRestart
    <2>1. \A t \in Services, p \in Orders : Present(t, p)' => Present(t, p)
      BY <1>13 DEF BrokerRestart, Backlog, Unacked, Held, AddBag, Empty, Present
    <2>2. QED
      BY <1>13, <2>1 DEF BrokerRestart
  <1>14. CASE DeclareExchange \/ UNCHANGED vars
    BY <1>14 DEF DeclareExchange, vars, flowVars, orderVars, consumerVars, Present
  <1>15. QED
    BY <1>1, <1>2, <1>3, <1>4, <1>5, <1>6, <1>7, <1>8, <1>9, <1>10, <1>11, <1>12, <1>13,
      <1>14 DEF Next, Consume, flowVars, Place, HandleCreated
LEMMA ProvenanceHolds == Spec => []Provenance
  BY ProvenanceInit, ProvenanceStep, PTL DEF Spec

\* Every step of the two services is a step of the abstract checkout, or
\* changes neither the orders nor the charges.
LEMMA CheckoutStep ==
  Provenance /\ [Next]_vars => [Abstract!Next]_<<status, charged>>
  <1> SUFFICES ASSUME Provenance, [Next]_vars
               PROVE  Abstract!Next \/ UNCHANGED <<status, charged>>
    OBVIOUS
  <1> USE DEF Provenance, TypeOK, Abstract!Next, Orders
  <1>1. ASSUME NEW o \in Orders, SaveOrder(o) \/ SaveFails(o)
        PROVE  Abstract!Next \/ UNCHANGED <<status, charged>>
    <2>1. status[o] = NoOrder
      BY <1>1 DEF SaveOrder, SaveFails, SavedHasRow
    <2>2. status' = status \/ status' = [status EXCEPT ![o] = "PENDING"]
      BY <1>1 DEF SaveOrder, SaveFails
    <2>3. charged' = charged
      BY <1>1 DEF SaveOrder, SaveFails
    <2>4. QED
      BY <2>1, <2>2, <2>3 DEF Abstract!Place, Abstract!NoOrder, NoOrder
  <1>2. ASSUME NEW o \in Orders, Charge(o) PROVE Abstract!Next
    <2>1. status[o] # NoOrder
      BY <1>2 DEF Charge, InHand, Present, CreatedHasRow
    <2>2. Abstract!Charge(o)
      BY <1>2, <2>1 DEF Charge, Abstract!Charge, Abstract!NoOrder, NoOrder
    <2>3. QED
      BY <2>2
  <1>3. ASSUME NEW o \in Orders, HandleCompleted(o)
        PROVE  Abstract!Next \/ UNCHANGED <<status, charged>>
    <2>1. charged' = charged /\ charged[o] > 0
      BY <1>3 DEF HandleCompleted, MarkPaid, MarkPaidFails, RejectPaid, OrderReturns,
        InHand, Present, CompletedIsCharged
    <2>2. status' = status \/ (status[o] = "PENDING" /\ SetPaid(o))
      BY <1>3 DEF HandleCompleted, MarkPaid, MarkPaidFails, RejectPaid, CanTransitionTo
    <2>3. QED
      BY <2>1, <2>2 DEF SetPaid, Abstract!Pay
  <1>4. QED
    BY <1>1, <1>2, <1>3 DEF Next, Place, HandleCreated, PublishCreated,
      PublishCreatedInVain, PublishUndeclared, PublishCreatedFails, Respond, AnswerLost, DeclareExchange,
      PublishCompleted, PublishCompletedInVain, PublishCompletedFails, Crash, BrokerRestart,
      Consume, vars, flowVars, orderVars

\* An order is PAID once, and only after a charge of an order that exists,
\* however often its events are delivered.
THEOREM FlowImplementsCheckout == Spec => ImplementsCheckout
  <1>1. Init => Abstract!Init
    BY DEF Init, Abstract!Init, Abstract!NoOrder, NoOrder
  <1>2. QED
    BY <1>1, CheckoutStep, ProvenanceHolds, PTL
      DEF Spec, ImplementsCheckout, Abstract!Spec

\* The checkout moves orders only as their store lets it.
LEMMA CheckoutMovesLegally == [Abstract!Next]_<<status, charged>> => [Lifecycle!Next]_status
  BY DEF Abstract!Next, Abstract!Place, Abstract!Charge, Abstract!Pay, Abstract!NoOrder,
    Lifecycle!Next, Lifecycle!Create, Lifecycle!Transition, Lifecycle!Statuses,
    Lifecycle!CanTransitionTo, Lifecycle!NoOrder

\* The two services ask of the order store only what OrderStore provides, so
\* that one step of an order here may stand for a call there.
THEOREM FlowKeepsLifecycle == Spec => OrdersKeepLifecycle
  <1>1. Init => Lifecycle!Init
    BY DEF Init, Lifecycle!Init, Lifecycle!NoOrder, NoOrder
  <1>2. QED
    BY <1>1, CheckoutStep, CheckoutMovesLegally, ProvenanceHolds, PTL
      DEF Spec, OrdersKeepLifecycle, Lifecycle!Spec

------------------------------------------------------------------------------
(* Charges are paid for by faults *)

\* A severed connection adds at most one delivery to charge for, if the
\* broker has at most one to send.
LEMMA SeverChargeable ==
  ASSUME ConsumerTypeOK, NEW s \in Services, Sever(s), "payment" \in Services,
         NEW o \in Orders, Copies("payment", o) <= 1
  PROVE  ready'["payment"][o] <= ready["payment"][o] + 1
  <1>1. CASE s = "payment"
    BY <1>1 DEF Sever, Unacked, Held, AddBag, Empty, Copies, Orders, ConsumerTypeOK
  <1>2. CASE s # "payment"
    BY <1>2 DEF Sever, Orders, ConsumerTypeOK
  <1>3. QED
    BY <1>1, <1>2

LEMMA AccountingInit == Init => Accounting
  BY FlowAssumption, ConsumerAssumption DEF Init, ConsumerInit, Accounting,
    CreatedIsUnique, RequeuedIsStale, ChargesAccounted, Chargeable, Copies, InHand,
    Orders, Empty

LEMMA AccountingStep ==
  Provenance /\ Provenance' /\ Accounting /\ [Next]_vars => Accounting'
  <1> SUFFICES ASSUME Provenance, Provenance', Accounting, [Next]_vars
               PROVE  Accounting'
    OBVIOUS
  <1> USE FlowAssumption, ConsumerAssumption DEF Provenance, Accounting,
        CreatedIsUnique, RequeuedIsStale, ChargesAccounted, TypeOK, ConsumerTypeOK,
        Orders, Answer, InHand, Copies, Held, Chargeable, Present, CreatedIsSent,
        Announced
  <1>1. ASSUME NEW o \in Orders, SaveOrder(o) PROVE Accounting'
    BY <1>1 DEF SaveOrder, consumerVars
  <1>2. ASSUME NEW o \in Orders, SaveFails(o) PROVE Accounting'
    BY <1>2 DEF SaveFails, consumerVars
  <1>3. ASSUME NEW o \in Orders, PublishCreated(o) PROVE Accounting'
    <2>1. /\ ready["payment"][o] = 0 /\ buf["payment"][o] = 0 /\ cur["payment"] # o
          /\ charged[o] = 0
      BY <1>3 DEF PublishCreated
    <2>2. ready'["payment"][o] <= 1
      BY <1>3, <2>1 DEF PublishCreated, Publish, Enqueue
    <2>3. \A p \in Orders : p # o =>
            ready'["payment"][p] = ready["payment"][p] /\ placed'[p] = placed[p]
      BY <1>3 DEF PublishCreated, Publish, Enqueue
    <2>8. /\ UNCHANGED <<buf, cur, pc, open, charged, charging, faults>>
          /\ placed'[o] = "sent"
      BY <1>3 DEF PublishCreated
    <2>4. CreatedIsUnique'
      <3>1. Copies("payment", o)' <= 1
        BY <2>1, <2>2, <2>8
      <3>2. \A p \in Orders : p # o => Copies("payment", p)' = Copies("payment", p)
        BY <2>3, <2>8
      <3>3. QED
        BY <3>1, <3>2
    <2>5. ChargesAccounted'
      BY <2>1, <2>2, <2>3, <2>8
    <2>6. RequeuedIsStale'
      BY <1>3 DEF PublishCreated
    <2>7. QED
      BY <2>4, <2>5, <2>6
  <1>4. ASSUME NEW o \in Orders, PublishCreatedInVain(o) \/ PublishUndeclared(o)
        PROVE  Accounting'
    <2>1. \A p \in Orders : Copies("payment", p)' = Copies("payment", p)
      BY <1>4, SeverKeepsCopies DEF PublishCreatedInVain, PublishInVain, PublishUndeclared
    <2>2. /\ ready'["payment"] = ready["payment"] /\ faults' \in {faults, faults + 1}
          /\ open'["payment"] = open["payment"]
      BY <1>4 DEF PublishCreatedInVain, PublishInVain, PublishUndeclared, Sever
    <2>3. QED
      BY <1>4, <2>1, <2>2 DEF PublishCreatedInVain, PublishUndeclared
  <1>5. ASSUME NEW o \in Orders, PublishCreatedFails(o) \/ Respond(o) \/ AnswerLost(o)
        PROVE  Accounting'
    BY <1>5 DEF PublishCreatedFails, Respond, AnswerLost, Elsewhere, consumerVars
  <1>6. ASSUME NEW o \in Orders, Charge(o) PROVE Accounting'
    BY <1>6 DEF Charge, consumerVars
  <1>7. ASSUME NEW o \in Orders, PublishCompleted(o) PROVE Accounting'
    BY <1>7 DEF PublishCompleted, Publish, Enqueue, PaymentReturns, HandlerReturns, Goto
  <1>9. ASSUME NEW o \in Orders, PublishCompletedFails(o) PROVE Accounting'
    BY <1>9 DEF PublishCompletedFails, PaymentReturns, HandlerReturns, Goto
  <1>10. ASSUME NEW o \in Orders, HandleCompleted(o) PROVE Accounting'
    BY <1>10 DEF HandleCompleted, MarkPaid, MarkPaidFails, RejectPaid, OrderReturns,
      HandlerReturns, Goto
  <1>8. ASSUME NEW o \in Orders, PublishCompletedInVain(o) PROVE Accounting'
    <2>1. Sever("payment") /\ faults' = faults + 1 /\ UNCHANGED <<buf, cur, placed, charged>>
      BY <1>8 DEF PublishCompletedInVain, PublishInVain
    <2>2. \A p \in Orders : Copies("payment", p)' = Copies("payment", p)
      BY <2>1, SeverKeepsCopies
    <2>3. \A p \in Orders : ready'["payment"][p] <= ready["payment"][p] + 1
      BY <2>1, SeverChargeable
    <2>4. faults' = faults + 1 /\ ~ open'["payment"]
      BY <2>1 DEF Sever
    <2>5. pc'["payment"] = "ack"
      BY <1>8 DEF PublishCompletedInVain, PaymentReturns, HandlerReturns, Goto
    <2>6. QED
      BY <1>8, <2>1, <2>2, <2>3, <2>4, <2>5
  <1>11. ASSUME NEW s \in Services, Deliver(s), UNCHANGED orderVars PROVE Accounting'
    <2>1. CASE s = "order"
      BY <1>11, <2>1 DEF Deliver, Loop, Reconnect, Declare, SetupFails, Subscribe,
        StreamClosed, Settle, Push, Take, Goto, orderVars
    <2>2. CASE s = "payment"
      <3>1. UNCHANGED <<faults, placed, charged, charging>>
        BY <1>11 DEF Deliver, Loop, Reconnect, Declare, SetupFails, Subscribe,
          StreamClosed, Settle, Push, Take, orderVars
      <3>2. CASE Reconnect("payment")
        BY <3>1, <3>2 DEF Reconnect
      <3>3. CASE Declare("payment")
        BY <3>1, <3>3 DEF Declare, Goto
      <3>4. CASE SetupFails("payment")
        BY <3>1, <3>4 DEF SetupFails, Goto
      <3>5. CASE Subscribe("payment")
        BY <3>1, <3>5 DEF Subscribe, Goto, Empty
      <3>6. CASE StreamClosed("payment")
        BY <3>1, <3>6 DEF StreamClosed, Goto, Empty
      <3>7. CASE Settle("payment")
        BY <3>1, <3>7 DEF Settle, Goto, Verdicts
      <3>8. ASSUME NEW m \in Msgs, Push("payment", m) PROVE Accounting'
        BY <3>1, <3>8 DEF Push
      <3>9. ASSUME NEW m \in Msgs, Take("payment", m) PROVE Accounting'
        <4>1. /\ buf["payment"][m] > 0 /\ cur["payment"] # m
              /\ buf' = [buf EXCEPT !["payment"][m] = @ - 1]
              /\ cur' = [cur EXCEPT !["payment"] = m]
              /\ pc' = [pc EXCEPT !["payment"] = "handle"]
              /\ UNCHANGED <<ready, open, faults>>
          BY <3>9 DEF Take, Goto
        <4>2. \A p \in Orders : Copies("payment", p)' = Copies("payment", p)
          BY <3>9, <4>1 DEF Take
        <4>3. \A p \in Orders : Chargeable(p)' = Chargeable(p)
          BY <3>1, <3>9, <4>1 DEF Take
        <4>4. QED
          BY <3>1, <4>1, <4>2, <4>3
      <3>10. Deliver("payment")
        BY <1>11, <2>2
      <3>11. QED
        BY <3>2, <3>3, <3>4, <3>5, <3>6, <3>7, <3>8, <3>9, <3>10 DEF Deliver, Loop
    <2>3. QED
      BY <2>1, <2>2
  <1>12. ASSUME NEW s \in Services, LoseConnection(s), UNCHANGED orderVars
         PROVE  Accounting'
    <2>1. \A p \in Orders : Copies("payment", p)' = Copies("payment", p)
      BY <1>12, SeverKeepsCopies DEF LoseConnection
    <2>2. \A p \in Orders : ready'["payment"][p] <= ready["payment"][p] + 1
      BY <1>12, SeverChargeable DEF LoseConnection
    <2>3. faults' = faults + 1 /\ (open'["payment"] => open["payment"])
      BY <1>12 DEF LoseConnection, Sever
    <2>4. QED
      BY <1>12, <2>1, <2>2, <2>3 DEF LoseConnection, flowVars, orderVars
  <1>13. ASSUME NEW s \in Services, Crash(s) PROVE Accounting'
    <2>0. Exit(s) /\ charged' = charged
      BY <1>13 DEF Crash
    <2>1. \A p \in Orders : Copies("payment", p)' = Copies("payment", p)
      BY <2>0, SeverKeepsCopies DEF Exit, Vanish
    <2>2. \A p \in Orders : ready'["payment"][p] <= ready["payment"][p] + 1
      BY <2>0, SeverChargeable DEF Exit, Vanish
    <2>3. faults' = faults + 1 /\ (open'["payment"] => open["payment"])
      BY <2>0 DEF Exit, Vanish, Sever
    <2>4. \A p \in Orders : placed'[p] = placed[p] \/ (placed[p] \in {"saved", "sent"} /\ placed'[p] = "error")
      <3>1. CASE s = "order"
        <4>1. \A p \in Orders :
                placed'[p] = IF placed[p] \in {"saved", "sent"} THEN "error" ELSE placed[p]
          BY <1>13, <3>1 DEF Crash
        <4>2. QED
          BY <4>1
      <3>2. CASE s # "order"
        BY <1>13, <3>2 DEF Crash
      <3>3. QED
        BY <3>1, <3>2
    <2>5. CASE s = "order"
      BY <1>13, <2>0, <2>1, <2>3, <2>4, <2>5 DEF Crash, Exit, Vanish, Goto, Sever
    <2>6. CASE s = "payment"
      <3>1. \A p \in Orders : buf'["payment"][p] = 0 /\ cur'["payment"] # p
        BY <2>0, <2>6 DEF Exit, Vanish, Empty
      <3>2. pc'["payment"] = "retry"
        BY <2>0, <2>6 DEF Exit, Vanish, Goto
      <3>4. placed' = placed
        BY <1>13, <2>6 DEF Crash
      <3>5. \A p \in Orders : Chargeable(p)' <= Chargeable(p) + 1
        BY <2>2, <3>1
      <3>6. \A p \in Orders : Chargeable(p) \in Nat /\ Chargeable(p)' \in Nat
        OBVIOUS
      <3>7. ChargesAccounted'
        BY <2>0, <2>3, <3>4, <3>5, <3>6
      <3>8. QED
        BY <2>1, <2>3, <3>2, <3>7
    <2>7. QED
      BY <2>5, <2>6
  <1>14. CASE BrokerRestart
    <2>1. \A p \in Orders : /\ ready'["payment"][p] = Copies("payment", p)
                            /\ ready'["payment"][p] <= ready["payment"][p] + 1
      BY <1>14, BacklogIsCopies DEF BrokerRestart
    <2>2. /\ faults' = faults + 1 /\ ~ open'["payment"]
          /\ UNCHANGED <<buf, cur, pc, placed, charged, charging>>
      BY <1>14 DEF BrokerRestart
    <2>3. QED
      BY <2>1, <2>2
  <1>15. CASE DeclareExchange \/ UNCHANGED vars
    BY <1>15 DEF DeclareExchange, vars, flowVars, orderVars, consumerVars
  <1>16. QED
    BY <1>1, <1>2, <1>3, <1>4, <1>5, <1>6, <1>7, <1>8, <1>9, <1>10, <1>11, <1>12, <1>13,
      <1>14, <1>15 DEF Next, Consume, flowVars, Place, HandleCreated

\* A customer is charged once, and once more at most for each fault.  An order
\* whose request ended in an error is charged only after a fault: its answer
\* was lost when the event was out, and that fault pays for the first charge.
THEOREM ChargesBounded == Spec => []ChargesHaveACause
  <1>1. Spec => []Accounting
    BY AccountingInit, AccountingStep, ProvenanceHolds, PTL DEF Spec
  <1>2. Provenance /\ Accounting => ChargesHaveACause
    <2> SUFFICES ASSUME Provenance, Accounting, NEW o \in Orders
                 PROVE  charged[o] <= MayBeCharged(o)
      BY DEF ChargesHaveACause
    <2> USE FlowAssumption, ConsumerAssumption
        DEF Provenance, TypeOK, ConsumerTypeOK, Orders, Requests
    <2>1. Chargeable(o) \in Nat /\ charged[o] \in Nat /\ faults \in Nat
      BY DEF Chargeable
    <2>2. /\ charged[o] <= 1 + faults
          /\ placed[o] = "error" => charged[o] <= faults
          /\ placed[o] \in {"new", "saved"} => charged[o] = 0
      BY <2>1 DEF Accounting, ChargesAccounted
    <2> QED
      BY <2>1, <2>2 DEF MayBeCharged, Announced
  <1>3. QED
    BY <1>1, <1>2, ProvenanceHolds, PTL
------------------------------------------------------------------------------
(* Waiting orders are owed an event *)

\* Only an answer of a handler takes a message from the broker.
LEMMA ConsumerCopies ==
  ASSUME ConsumerTypeOK, NEW s \in Services,
         Deliver(s) \/ LoseConnection(s) \/ Exit(s),
         NEW t \in Services, NEW m \in Msgs
  PROVE  \/ Copies(t, m)' = Copies(t, m)
         \/ Settle(s) /\ t = s /\ m = cur[s] /\ pc[s] # "requeue"
  <1> USE ConsumerAssumption DEF ConsumerTypeOK, Copies, Held
  <1>1. CASE LoseConnection(s)
    BY <1>1, SeverKeepsCopies DEF LoseConnection
  <1>2. CASE Exit(s)
    BY <1>2, SeverKeepsCopies DEF Exit, Vanish
  <1>3. CASE Reconnect(s)
    BY <1>3 DEF Reconnect
  <1>4. CASE Declare(s)
    BY <1>4 DEF Declare
  <1>5. CASE SetupFails(s)
    BY <1>5 DEF SetupFails
  <1>6. CASE Subscribe(s)
    BY <1>6 DEF Subscribe, Empty
  <1>7. CASE StreamClosed(s)
    BY <1>7 DEF StreamClosed
  <1>8. CASE Settle(s)
    <2>1. cur[s] \in Msgs /\ cur[s] # None
      BY <1>8 DEF Settle, Verdicts
    <2>2. CASE t # s \/ m # cur[s]
      BY <1>8, <2>1, <2>2 DEF Settle
    <2>3. CASE t = s /\ m = cur[s] /\ pc[s] = "requeue"
      BY <1>8, <2>1, <2>3 DEF Settle
    <2>4. QED
      BY <1>8, <2>2, <2>3
  <1>9. ASSUME NEW k \in Msgs, Push(s, k) PROVE Copies(t, m)' = Copies(t, m)
    BY <1>9 DEF Push
  <1>10. ASSUME NEW k \in Msgs, Take(s, k) PROVE Copies(t, m)' = Copies(t, m)
    BY <1>10 DEF Take
  <1>11. QED
    BY <1>1, <1>2, <1>3, <1>4, <1>5, <1>6, <1>7, <1>8, <1>9, <1>10 DEF Deliver, Loop

LEMMA OwingInit == Init => Owing
  <1> SUFFICES ASSUME Init PROVE Owing
    OBVIOUS
  <1>1. \A s \in Services : pc[s] = "retry"
    BY DEF Init, ConsumerInit
  <1>2. \A o \in Orders : ~ Waiting(o)
    BY DEF Init, Waiting, Announced
  <1>3. QED
    BY <1>1, <1>2, FlowAssumption DEF Owing, NeverDropped, AckedIsPaid, AckedIsPublished,
      WaitingIsOwed

\* What a step must not do to keep every debt: take a message, let an order
\* wait that did not, or give a message to a handler's answer.
LEMMA OwingKept ==
  ASSUME Provenance, Provenance', Owing,
         \A s \in Services : pc'[s] = pc[s] \/ pc'[s] \notin Verdicts \/ pc'[s] = "requeue",
         \A s \in Services : pc'[s] \in {"ack", "drop"} => cur'[s] = cur[s],
         \A o \in Orders : status[o] = "PAID" => status'[o] = "PAID",
         \A o \in Orders : Waiting(o)' => Waiting(o),
         \A s \in Services, o \in Orders :
           Copies(s, o)' = Copies(s, o) \/ Copies(s, o)' > 0
  PROVE  Owing'
  <1> USE FlowAssumption, ConsumerAssumption
  <1>1. NeverDropped'
    BY DEF Owing, NeverDropped, Verdicts
  <1>2. AckedIsPaid'
    BY DEF Owing, AckedIsPaid, Verdicts, Provenance, TypeOK, ConsumerTypeOK, Orders
  <1>3. AckedIsPublished'
    BY DEF Owing, AckedIsPublished, Verdicts
  <1>4. WaitingIsOwed'
    BY DEF Owing, WaitingIsOwed
  <1>5. QED
    BY <1>1, <1>2, <1>3, <1>4 DEF Owing

LEMMA OwingStep ==
  Provenance /\ Provenance' /\ Owing /\ [Next]_vars => Owing'
  <1> SUFFICES ASSUME Provenance, Provenance', Owing, [Next]_vars
               PROVE  Owing'
    OBVIOUS
  <1> USE FlowAssumption, ConsumerAssumption DEF Provenance, TypeOK, ConsumerTypeOK,
        Orders, Answer, InHand, Verdicts, Announced
  <1>1. ASSUME NEW o \in Orders, SaveOrder(o) \/ SaveFails(o) PROVE Owing'
    <2>1. UNCHANGED <<consumerVars, lost>>
      BY <1>1 DEF SaveOrder, SaveFails
    <2>2. \A s \in Services, p \in Orders : Copies(s, p)' = Copies(s, p)
      BY <2>1 DEF consumerVars, Copies, Held
    <2>3. status[o] = NoOrder /\ placed'[o] \notin {"sent", "ok"}
      BY <1>1 DEF SaveOrder, SaveFails, SavedHasRow
    <2>4. \A p \in Orders : p # o => status'[p] = status[p] /\ placed'[p] = placed[p]
      BY <1>1 DEF SaveOrder, SaveFails
    <2>5. \A p \in Orders : Waiting(p)' => Waiting(p)
      BY <2>1, <2>3, <2>4 DEF Waiting
    <2>6. QED
      BY <2>1, <2>2, <2>3, <2>4, <2>5, OwingKept DEF consumerVars, NoOrder
  <1>2. ASSUME NEW o \in Orders, PublishCreated(o) PROVE Owing'
    <2>1. UNCHANGED <<buf, cur, pc, open, status>>
      BY <1>2 DEF PublishCreated
    <2>2. \A p \in Orders : Copies("order", p)' = Copies("order", p)
      BY <1>2 DEF PublishCreated, Publish, Enqueue, Copies, Held
    <2>3. \A p \in Orders : p # o => /\ Copies("payment", p)' = Copies("payment", p)
                                     /\ Waiting(p)' => Waiting(p)
      BY <1>2 DEF PublishCreated, Publish, Enqueue, Copies, Held, Waiting, Lose
    <2>4. Waiting(o)' => Copies("payment", o)' > 0
      BY <1>2 DEF PublishCreated, Publish, Enqueue, Copies, Held, Waiting, Lose
    <2>5. cur["payment"] # o
      BY <1>2 DEF PublishCreated, CreatedIsSent, Present
    <2>6. NeverDropped' /\ AckedIsPaid'
      BY <2>1 DEF Owing, NeverDropped, AckedIsPaid
    <2>7. AckedIsPublished'
      BY <2>1, <2>2, <2>3, <2>5 DEF Owing, AckedIsPublished
    <2>8. WaitingIsOwed'
      BY <2>2, <2>3, <2>4 DEF Owing, WaitingIsOwed
    <2>9. QED
      BY <2>6, <2>7, <2>8 DEF Owing
  <1>3. ASSUME NEW o \in Orders, PublishCreatedInVain(o) \/ PublishUndeclared(o) PROVE Owing'
    <2>1. UNCHANGED <<cur, pc, status>>
      BY <1>3 DEF PublishCreatedInVain, PublishUndeclared
    <2>2. \A s \in Services, p \in Orders : Copies(s, p)' = Copies(s, p)
      BY <1>3, SeverKeepsCopies DEF PublishCreatedInVain, PublishInVain, PublishUndeclared
    <2>3. \A p \in Orders : Waiting(p)' => Waiting(p)
      BY <1>3 DEF PublishCreatedInVain, PublishInVain, PublishUndeclared, Lose, Waiting
    <2>4. QED
      BY <2>1, <2>2, <2>3, OwingKept
  <1>4. ASSUME NEW o \in Orders,
               PublishCreatedFails(o) \/ Respond(o) \/ AnswerLost(o) \/ Charge(o)
        PROVE  Owing'
    <2>1. UNCHANGED <<ready, buf, cur, pc, open, status, lost>>
      BY <1>4 DEF PublishCreatedFails, Respond, AnswerLost, Elsewhere, Charge, consumerVars
    <2>2. \A s \in Services, p \in Orders : Copies(s, p)' = Copies(s, p)
      BY <2>1 DEF Copies, Held
    <2>3. \A p \in Orders : Waiting(p)' => Waiting(p)
      BY <1>4, <2>1 DEF PublishCreatedFails, Respond, AnswerLost, Charge, Waiting
    <2>4. QED
      BY <2>1, <2>2, <2>3, OwingKept
  <1>5. ASSUME NEW o \in Orders, PublishCompleted(o) PROVE Owing'
    <2>1. /\ UNCHANGED <<cur, status, placed>>
          /\ cur["payment"] = o /\ pc'["order"] = pc["order"]
          /\ pc'["payment"] = "ack"
      BY <1>5 DEF PublishCompleted, PaymentReturns, HandlerReturns, Goto
    <2>2. \A p \in Orders : Copies("payment", p)' = Copies("payment", p)
      BY <1>5 DEF PublishCompleted, Publish, Enqueue, Copies, Held
    <2>3. \A p \in Orders : p # o => Copies("order", p)' = Copies("order", p)
      BY <1>5 DEF PublishCompleted, Publish, Enqueue, Copies, Held
    <2>4. \A p \in Orders : Waiting(p)' => Waiting(p)
      BY <1>5 DEF PublishCompleted, Publish, Lose, Waiting
    <2>5. Waiting(o)' => Copies("order", o)' > 0
      BY <1>5 DEF PublishCompleted, Publish, Enqueue, Copies, Held, Waiting, Lose
    <2>6. NeverDropped' /\ AckedIsPaid'
      BY <2>1 DEF Owing, NeverDropped, AckedIsPaid
    <2>7. AckedIsPublished'
      BY <2>1, <2>5 DEF AckedIsPublished
    <2>8. WaitingIsOwed'
      BY <2>2, <2>3, <2>4, <2>5 DEF Owing, WaitingIsOwed
    <2>9. QED
      BY <2>6, <2>7, <2>8 DEF Owing
  <1>6. ASSUME NEW o \in Orders, PublishCompletedInVain(o) PROVE Owing'
    <2>1. /\ UNCHANGED <<cur, status, placed>>
          /\ cur["payment"] = o /\ pc'["order"] = pc["order"]
          /\ pc'["payment"] = "ack"
      BY <1>6 DEF PublishCompletedInVain, PaymentReturns, HandlerReturns, Goto
    <2>2. \A s \in Services, p \in Orders : Copies(s, p)' = Copies(s, p)
      BY <1>6, SeverKeepsCopies DEF PublishCompletedInVain, PublishInVain
    <2>3. \A p \in Orders : Waiting(p)' => Waiting(p) /\ p # o
      BY <1>6 DEF PublishCompletedInVain, PublishInVain, Lose, Waiting
    <2>4. NeverDropped' /\ AckedIsPaid'
      BY <2>1 DEF Owing, NeverDropped, AckedIsPaid
    <2>5. AckedIsPublished'
      BY <2>1, <2>3 DEF AckedIsPublished
    <2>6. WaitingIsOwed'
      BY <2>2, <2>3 DEF Owing, WaitingIsOwed
    <2>7. QED
      BY <2>4, <2>5, <2>6 DEF Owing
  <1>7. ASSUME NEW o \in Orders, PublishCompletedFails(o) PROVE Owing'
    <2>1. \A s \in Services : pc'[s] = pc[s] \/ pc'[s] = "requeue"
      BY <1>7 DEF PublishCompletedFails, PaymentReturns, HandlerReturns, Goto
    <2>2. UNCHANGED <<ready, buf, cur, open, status, placed, lost>>
      BY <1>7 DEF PublishCompletedFails
    <2>3. QED
      BY <2>1, <2>2, OwingKept DEF Copies, Held, Waiting
  <1>8. ASSUME NEW o \in Orders, HandleCompleted(o) PROVE Owing'
    <2>1. UNCHANGED <<ready, buf, cur, open, placed, lost>>
      BY <1>8 DEF HandleCompleted, MarkPaid, MarkPaidFails, RejectPaid, OrderReturns
    <2>2. status' = status \/ SetPaid(o)
      BY <1>8 DEF HandleCompleted, MarkPaid, MarkPaidFails, RejectPaid
    <2>3. /\ cur["order"] = o /\ pc'["payment"] = pc["payment"]
          /\ pc'["order"] = "requeue" \/ (pc'["order"] = "ack" /\ SetPaid(o))
      BY <1>8 DEF HandleCompleted, MarkPaid, MarkPaidFails, RejectPaid, OrderReturns,
        HandlerReturns, Goto
    <2>4. \A p \in Orders : Waiting(p)' => Waiting(p)
      BY <2>1, <2>2 DEF Waiting, SetPaid
    <2>5. \A s \in Services, p \in Orders : Copies(s, p)' = Copies(s, p)
      BY <2>1 DEF Copies, Held
    <2>6. NeverDropped' /\ AckedIsPaid'
      BY <2>1, <2>3 DEF Owing, NeverDropped, AckedIsPaid, SetPaid
    <2>7. AckedIsPublished' /\ WaitingIsOwed'
      BY <2>1, <2>3, <2>4, <2>5 DEF Owing, AckedIsPublished, WaitingIsOwed
    <2>8. QED
      BY <2>6, <2>7 DEF Owing
  <1>9. ASSUME NEW s \in Services, Deliver(s), ~ Settle(s), UNCHANGED orderVars
        PROVE  Owing'
    <2>1. \A t \in Services, p \in Orders : Copies(t, p)' = Copies(t, p)
      BY <1>9, ConsumerCopies
    <2>2. \A t \in Services : \/ pc'[t] = pc[t] /\ cur'[t] = cur[t]
                              \/ pc'[t] \notin Verdicts
      BY <1>9 DEF Deliver, Loop, Reconnect, Declare, SetupFails, Subscribe, StreamClosed,
        Push, Take, Goto
    <2>3. QED
      BY <1>9, <2>1, <2>2, OwingKept DEF orderVars, Waiting
  <1>10. ASSUME NEW s \in Services, Settle(s), UNCHANGED orderVars PROVE Owing'
    <2>1. /\ pc'[s] = "select" /\ pc[s] # "drop"
          /\ \A t \in Services : t # s => pc'[t] = pc[t] /\ cur'[t] = cur[t]
      BY <1>10 DEF Settle, Goto, Owing, NeverDropped
    <2>2. \A t \in Services, p \in Orders :
            \/ Copies(t, p)' = Copies(t, p)
            \/ t = s /\ p = cur[s] /\ pc[s] = "ack"
      <3>1. Deliver(s)
        BY <1>10 DEF Deliver, Loop
      <3>2. pc[s] # "requeue" => pc[s] = "ack"
        BY <1>10, <2>1 DEF Settle
      <3>3. QED
        BY <3>1, <3>2, ConsumerCopies
    <2>3. \A p \in Orders : Waiting(p)' = Waiting(p)
      BY <1>10 DEF orderVars, Waiting
    <2>4. NeverDropped' /\ AckedIsPaid'
      BY <1>10, <2>1 DEF Owing, NeverDropped, AckedIsPaid, orderVars
    <2>5. \A p \in Orders : Waiting(p) => Copies("order", p)' = Copies("order", p)
      BY <2>2 DEF Owing, AckedIsPaid, Waiting
    <2>6. AckedIsPublished'
      BY <2>1, <2>3, <2>5 DEF Owing, AckedIsPublished
    <2>7. \A p \in Orders :
            Waiting(p) => \/ Copies("payment", p)' = Copies("payment", p)
                          \/ Copies("order", p) > 0
      BY <2>2 DEF Owing, AckedIsPublished
    <2>8. WaitingIsOwed'
      BY <2>3, <2>5, <2>7 DEF Owing, WaitingIsOwed
    <2>9. QED
      BY <2>4, <2>6, <2>8 DEF Owing
  <1>11. ASSUME NEW s \in Services, LoseConnection(s), UNCHANGED flowVars PROVE Owing'
    <2>1. \A t \in Services, p \in Orders : Copies(t, p)' = Copies(t, p)
      BY <1>11, SeverKeepsCopies DEF LoseConnection
    <2>2. UNCHANGED <<pc, cur>>
      BY <1>11 DEF LoseConnection
    <2>3. QED
      BY <1>11, <2>1, <2>2, OwingKept DEF flowVars, orderVars, Waiting
  <1>12. ASSUME NEW s \in Services, Crash(s) PROVE Owing'
    <2>1. \A t \in Services, p \in Orders : Copies(t, p)' = Copies(t, p)
      BY <1>12, SeverKeepsCopies DEF Crash, Exit, Vanish
    <2>2. \A t \in Services : \/ pc'[t] = pc[t] /\ cur'[t] = cur[t]
                              \/ pc'[t] = "retry"
      BY <1>12 DEF Crash, Exit, Vanish, Goto
    <2>3. UNCHANGED <<status, lost>>
      BY <1>12 DEF Crash
    <2>4. \A p \in Orders : placed'[p] = placed[p] \/ placed'[p] = "error"
      BY <1>12 DEF Crash
    <2>5. \A p \in Orders : Waiting(p)' => Waiting(p)
      BY <2>3, <2>4 DEF Waiting
    <2>6. QED
      BY <2>1, <2>2, <2>3, <2>5, OwingKept
  <1>13. CASE BrokerRestart
    <2>1. UNCHANGED <<cur, pc, status, placed>>
      BY <1>13 DEF BrokerRestart
    <2>2. \A p \in Orders : Copies("payment", p)' = Copies("payment", p)
      BY <1>13, BacklogIsCopies DEF BrokerRestart, Copies
    <2>3. \A p \in Orders : Waiting(p)' => Waiting(p) /\ ~ (Copies("order", p) > 0)
      BY <1>13, BacklogIsCopies DEF BrokerRestart, Waiting, Lose
    <2>4. NeverDropped' /\ AckedIsPaid'
      BY <2>1 DEF Owing, NeverDropped, AckedIsPaid
    <2>5. AckedIsPublished' /\ WaitingIsOwed'
      BY <2>1, <2>2, <2>3 DEF Owing, AckedIsPublished, WaitingIsOwed
    <2>6. QED
      BY <2>4, <2>5 DEF Owing
  <1>14. CASE DeclareExchange \/ UNCHANGED vars
    BY <1>14, OwingKept DEF DeclareExchange, vars, flowVars, orderVars, consumerVars, Copies, Held, Waiting
  <1>15. QED
    BY <1>1, <1>2, <1>3, <1>4, <1>5, <1>6, <1>7, <1>8, <1>9, <1>10, <1>11, <1>12, <1>13,
      <1>14 DEF Next, Consume, flowVars, Place, HandleCreated

\* An announced order that is not PAID is owed one of its events by the
\* broker, unless one was published in vain or died with the broker.
THEOREM NoneForgotten == Spec => []NothingForgotten
  <1>1. Spec => []Owing
    BY OwingInit, OwingStep, ProvenanceHolds, PTL DEF Spec
  <1>2. Provenance /\ Owing => NothingForgotten
    BY BacklogIsCopies, FlowAssumption DEF Provenance, TypeOK, Owing, WaitingIsOwed,
      Waiting, Announced, NothingForgotten, Orders
  <1>3. QED
    BY <1>1, <1>2, ProvenanceHolds, PTL

------------------------------------------------------------------------------
(* Without a fault.  Nothing can be severed that has anything in hand, so    *)
(* each order is at one place on its way to PAID, and only once there.       *)

\* Deliveries of o that the handler of s may still be called for, or is.
Deliverable(s, o) == ready[s][o] + buf[s][o] + (IF InHand(s, o) THEN 1 ELSE 0)

\* The places where o is, on its way or at its end.
Ahead(o) ==
  Deliverable("payment", o) + Deliverable("order", o) + (IF status[o] = "PAID" THEN 1 ELSE 0)

\* Until the exchange is declared no consumer has anything.
IdleUndeclared ==
  ~ exchange =>
    \A s \in Services :
      ~ bound[s] /\ ~ open[s] /\ pc[s] = "retry" /\ \A o \in Orders : buf[s][o] = 0

\* A consumer that got to its select keeps its subscription.
Subscribed ==
  \A s \in Services :
    /\ pc[s] \notin {"retry", "subscribe"} => open[s]
    /\ pc[s] # "requeue"
    /\ \A o \in Orders : ~ open[s] => buf[s][o] = 0

OnceAhead == \A o \in Orders : Ahead(o) <= IF Announced(o) THEN 1 ELSE 0

Calm == faults = 0 => IdleUndeclared /\ Subscribed /\ OnceAhead

\* The steps that are not faults.
CalmNext ==
  \/ \E o \in Orders :
       \/ SaveOrder(o) \/ SaveFails(o)
       \/ PublishCreated(o) \/ PublishUndeclared(o) \/ PublishCreatedFails(o) \/ Respond(o)
       \/ Charge(o) \/ PublishCompleted(o) \/ PublishCompletedFails(o)
       \/ MarkPaid(o) \/ RejectPaid(o)
  \/ \E s \in Services : Consume(s)
  \/ DeclareExchange

LEMMA WithoutFault ==
  ASSUME TypeOK, [Next]_vars, faults' = 0
  PROVE  faults = 0 /\ (CalmNext \/ UNCHANGED vars)
<1>1. faults \in Nat
  BY ConsumerAssumption DEF TypeOK, ConsumerTypeOK
<1>2. ASSUME NEW o \in Orders, PublishCreatedInVain(o) \/ PublishCompletedInVain(o) \/ MarkPaidFails(o)
               \/ AnswerLost(o)
      PROVE  FALSE
  BY <1>1, <1>2 DEF PublishCreatedInVain, PublishCompletedInVain, PublishInVain, MarkPaidFails,
    AnswerLost, Elsewhere
<1>3. ASSUME NEW s \in Services, LoseConnection(s) \/ Crash(s)
      PROVE  FALSE
  BY <1>1, <1>3 DEF LoseConnection, Crash, Exit
<1>4. ~ BrokerRestart
  BY <1>1 DEF BrokerRestart
<1>5. CalmNext \/ UNCHANGED vars
  BY <1>2, <1>3, <1>4 DEF Next, CalmNext, Place, HandleCreated, HandleCompleted
<1>6. CalmNext => faults' = faults
  <2>1. ASSUME NEW s \in Services, Deliver(s)
        PROVE  faults' = faults
    BY <2>1 DEF Deliver, Loop, Reconnect, Declare, SetupFails, Subscribe, StreamClosed,
      Settle, Push, Take
  <2> QED
    BY <2>1 DEF CalmNext, SaveOrder, SaveFails, PublishCreated, PublishUndeclared,
      PublishCreatedFails, Respond, Charge, PublishCompleted, PublishCompletedFails, MarkPaid,
      RejectPaid, OrderReturns, Consume, DeclareExchange, consumerVars
<1> QED
  BY <1>5, <1>6 DEF vars, consumerVars

LEMMA CalmInit == Init => Calm
  BY FlowAssumption, ConsumerAssumption
  DEF Init, ConsumerInit, Calm, IdleUndeclared, Subscribed, OnceAhead, Ahead, Deliverable,
    InHand, Orders, Empty, NoOrder, Announced

\* What a step of a consumer does when its subscription does not die.
LEMMA ConsumeCalmly ==
  ASSUME Provenance, IdleUndeclared, Subscribed, OnceAhead,
         NEW s \in Services, Consume(s)
  PROVE  IdleUndeclared' /\ Subscribed' /\ OnceAhead'
<1> USE FlowAssumption, ConsumerAssumption DEF Provenance, TypeOK, ConsumerTypeOK, Orders
<1>1. UNCHANGED orderVars /\ exchange' = (exchange \/ bound'[s]) /\ Deliver(s)
  BY DEF Consume
<1>2. IdleUndeclared'
  <2>1. SUFFICES ASSUME ~ exchange'
                 PROVE  \A t \in Services :
                          /\ ~ bound'[t] /\ ~ open'[t] /\ pc'[t] = "retry"
                          /\ \A o \in Orders : buf'[t][o] = 0
    BY DEF IdleUndeclared
  <2>2. ~ exchange /\ ~ bound'[s] /\ pc[s] = "retry" /\ ~ open[s]
    BY <1>1, <2>1 DEF IdleUndeclared
  <2>3. Reconnect(s)
    BY <1>1, <2>2 DEF Deliver, Loop, Declare, SetupFails, Subscribe, StreamClosed, Settle,
      Push, Take, Verdicts
  <2> QED
    BY <2>2, <2>3 DEF Reconnect, IdleUndeclared
<1>3. Subscribed'
  <2>1. CASE Reconnect(s) \/ Declare(s) \/ SetupFails(s)
    BY <2>1 DEF Reconnect, Declare, SetupFails, Goto, Subscribed
  <2>2. CASE Subscribe(s)
    BY <2>2 DEF Subscribe, Goto, Subscribed
  <2>3. CASE StreamClosed(s)
    BY <2>3 DEF StreamClosed, Subscribed
  <2>4. CASE Settle(s)
    BY <2>4 DEF Settle, Goto, Subscribed, Verdicts
  <2>5. ASSUME NEW m \in Msgs, Push(s, m) PROVE Subscribed'
    BY <2>5 DEF Push, Subscribed
  <2>6. ASSUME NEW m \in Msgs, Take(s, m) PROVE Subscribed'
    BY <2>6 DEF Take, Goto, Subscribed
  <2> QED
    BY <1>1, <2>1, <2>2, <2>3, <2>4, <2>5, <2>6 DEF Deliver, Loop
<1>4. ASSUME NEW t \in Services, NEW o \in Orders
      PROVE  Deliverable(t, o)' <= Deliverable(t, o)
  <2> USE DEF Deliverable, InHand
  <2>1. CASE Reconnect(s) \/ Declare(s) \/ SetupFails(s)
    BY <2>1 DEF Reconnect, Declare, SetupFails, Goto
  <2>2. CASE Subscribe(s)
    BY <2>2 DEF Subscribe, Goto, Empty
  <2>3. CASE StreamClosed(s)
    BY <2>3 DEF StreamClosed, Subscribed
  <2>4. CASE Settle(s)
    BY <2>4 DEF Settle, Goto, Subscribed, Verdicts
  <2>5. ASSUME NEW m \in Msgs, Push(s, m) PROVE Deliverable(t, o)' <= Deliverable(t, o)
    BY <2>5 DEF Push
  <2>6. ASSUME NEW m \in Msgs, Take(s, m) PROVE Deliverable(t, o)' <= Deliverable(t, o)
    BY <2>6 DEF Take, Goto
  <2> QED
    BY <1>1, <2>1, <2>2, <2>3, <2>4, <2>5, <2>6 DEF Deliver, Loop
<1>5. \A t \in Services, o \in Orders : Deliverable(t, o) \in Nat /\ Deliverable(t, o)' \in Nat
  <2>1. ConsumerTypeOK'
    BY <1>1, ConsumerStepType
  <2> QED
    BY <2>1 DEF Deliverable
<1>6. OnceAhead'
  BY <1>1, <1>4, <1>5 DEF OnceAhead, Ahead, Announced, orderVars
<1> QED
  BY <1>2, <1>3, <1>6

LEMMA CalmStep ==
  ASSUME Provenance, Provenance', Calm, [Next]_vars
  PROVE  Calm'
<1> SUFFICES ASSUME faults' = 0
             PROVE  IdleUndeclared' /\ Subscribed' /\ OnceAhead'
  BY DEF Calm
<1>1. IdleUndeclared /\ Subscribed /\ OnceAhead
  BY WithoutFault DEF Calm, Provenance
<1>2. CalmNext \/ UNCHANGED vars
  BY WithoutFault DEF Provenance
<1> USE <1>1, FlowAssumption, ConsumerAssumption
    DEF Provenance, TypeOK, ConsumerTypeOK, Orders, Answer, InHand, Announced
<1>3. CASE UNCHANGED vars \/ DeclareExchange
  BY <1>3 DEF vars, flowVars, orderVars, consumerVars, DeclareExchange, IdleUndeclared,
    Subscribed, OnceAhead, Ahead, Deliverable
<1>4. ASSUME NEW o \in Orders,
             SaveOrder(o) \/ SaveFails(o) \/ PublishCreatedFails(o) \/ Respond(o)
      PROVE  IdleUndeclared' /\ Subscribed' /\ OnceAhead'
  <2>1. UNCHANGED <<consumerVars, exchange>>
    BY <1>4 DEF SaveOrder, SaveFails, PublishCreatedFails, Respond
  <2>2. /\ Announced(o) => placed'[o] = "ok"
        /\ \A p \in Orders : p # o => placed'[p] = placed[p] /\ status'[p] = status[p]
        /\ status'[o] = status[o] \/ status'[o] = "PENDING"
    BY <1>4 DEF SaveOrder, SaveFails, PublishCreatedFails, Respond
  <2>3. \A p \in Orders : Ahead(p)' <= Ahead(p)
    BY <2>1, <2>2 DEF Ahead, Deliverable, consumerVars
  <2>4. \A p \in Orders : Ahead(p) \in Nat /\ Ahead(p)' \in Nat
    BY DEF Ahead, Deliverable
  <2>5. OnceAhead'
    BY <2>2, <2>3, <2>4 DEF OnceAhead
  <2> QED
    BY <2>1, <2>5 DEF IdleUndeclared, Subscribed, consumerVars
<1>5. ASSUME NEW o \in Orders, PublishCreated(o)
      PROVE  IdleUndeclared' /\ Subscribed' /\ OnceAhead'
  <2>1. /\ exchange /\ placed[o] = "saved" /\ placed'[o] = "sent"
        /\ UNCHANGED <<bound, buf, cur, pc, open, status, exchange>>
        /\ \A p \in Orders : p # o => placed'[p] = placed[p]
    BY <1>5 DEF PublishCreated
  <2>2. /\ ready'["order"] = ready["order"]
        /\ ready'["payment"][o] <= ready["payment"][o] + 1
        /\ \A p \in Orders : p # o => ready'["payment"][p] = ready["payment"][p]
    BY <1>5 DEF PublishCreated, Publish, Enqueue
  <2>3. OnceAhead'
    BY <2>1, <2>2 DEF OnceAhead, Ahead, Deliverable
  <2> QED
    BY <2>1, <2>3 DEF IdleUndeclared, Subscribed
<1>6. ASSUME NEW o \in Orders, PublishUndeclared(o)
      PROVE  IdleUndeclared' /\ Subscribed' /\ OnceAhead'
  <2>1. /\ ~ exchange
        /\ UNCHANGED <<bound, buf, cur, pc, status, exchange>>
        /\ ready' = [ready EXCEPT !["order"] = AddBag(@, Unacked("order"))]
        /\ open' = [open EXCEPT !["order"] = FALSE]
    BY <1>6 DEF PublishUndeclared, Sever
  <2>2. ~ open["order"] /\ open' = open
    BY <2>1 DEF IdleUndeclared
  <2>3. \A s \in Services, p \in Orders : ready'[s][p] = ready[s][p]
    BY <2>1, <2>2 DEF Unacked, AddBag, Empty
  <2>4. placed[o] = "saved" /\ placed' = [placed EXCEPT ![o] = "sent"]
    BY <1>6 DEF PublishUndeclared
  <2>5. OnceAhead'
    BY <2>1, <2>3, <2>4 DEF OnceAhead, Ahead, Deliverable
  <2> QED
    BY <2>1, <2>2, <2>5 DEF IdleUndeclared, Subscribed
<1>7. ASSUME NEW o \in Orders, Charge(o)
      PROVE  IdleUndeclared' /\ Subscribed' /\ OnceAhead'
  BY <1>7 DEF Charge, consumerVars, IdleUndeclared, Subscribed, OnceAhead, Ahead, Deliverable
<1>8. ASSUME NEW o \in Orders, PublishCompleted(o)
      PROVE  IdleUndeclared' /\ Subscribed' /\ OnceAhead'
  <2>1. /\ UNCHANGED <<bound, buf, cur, open, status, placed, exchange>>
        /\ pc["payment"] = "handle" /\ cur["payment"] = o
        /\ pc' = [pc EXCEPT !["payment"] = "ack"]
    BY <1>8 DEF PublishCompleted, PaymentReturns, HandlerReturns, Goto
  <2>2. /\ ready'["payment"] = ready["payment"]
        /\ ready'["order"][o] <= ready["order"][o] + 1
        /\ \A p \in Orders : p # o => ready'["order"][p] = ready["order"][p]
    BY <1>8 DEF PublishCompleted, Publish, Enqueue
  <2>3. IdleUndeclared' /\ Subscribed'
    BY <2>1 DEF IdleUndeclared, Subscribed
  <2>4. \A p \in Orders : Ahead(p)' <= Ahead(p)
    BY <2>1, <2>2 DEF Ahead, Deliverable
  <2>5. \A p \in Orders : Ahead(p) \in Nat /\ Ahead(p)' \in Nat
    BY DEF Ahead, Deliverable
  <2>6. OnceAhead'
    BY <2>1, <2>4, <2>5 DEF OnceAhead
  <2> QED
    BY <2>3, <2>6
<1>9. ASSUME NEW o \in Orders, PublishCompletedFails(o)
      PROVE  FALSE
  BY <1>9 DEF PublishCompletedFails, Subscribed
<1>10. ASSUME NEW o \in Orders, MarkPaid(o)
       PROVE  IdleUndeclared' /\ Subscribed' /\ OnceAhead'
  <2>1. /\ UNCHANGED <<bound, ready, buf, cur, open, placed, exchange>>
        /\ pc["order"] = "handle" /\ cur["order"] = o
        /\ pc' = [pc EXCEPT !["order"] = "ack"]
        /\ status' = [status EXCEPT ![o] = "PAID"]
    BY <1>10 DEF MarkPaid, OrderReturns, HandlerReturns, Goto, SetPaid
  <2>2. IdleUndeclared' /\ Subscribed'
    BY <2>1 DEF IdleUndeclared, Subscribed
  <2>3. \A p \in Orders : Ahead(p)' <= Ahead(p)
    BY <2>1 DEF Ahead, Deliverable
  <2>4. \A p \in Orders : Ahead(p) \in Nat /\ Ahead(p)' \in Nat
    BY DEF Ahead, Deliverable
  <2>5. OnceAhead'
    BY <2>1, <2>3, <2>4 DEF OnceAhead
  <2> QED
    BY <2>2, <2>5
<1>11. ASSUME NEW o \in Orders, RejectPaid(o)
       PROVE  FALSE
  <2>1. status[o] \in {NoOrder, "PAID"} /\ Deliverable("order", o) > 0
    BY <1>11 DEF RejectPaid, CanTransitionTo, Deliverable
  <2>2. Announced(o) /\ status[o] # "PAID"
    BY <2>1 DEF OnceAhead, Ahead, Deliverable
  <2> QED
    BY <2>1, <2>2 DEF SavedHasRow, NoOrder
<1> QED
  BY <1>2, <1>3, <1>4, <1>5, <1>6, <1>7, <1>8, <1>9, <1>10, <1>11, ConsumeCalmly DEF CalmNext

\* A delivery that can only be requeued, for ever, is the work of a fault.
THEOREM PoisonCaused == Spec => []PoisonHasACause
<1>1. Spec => []Calm
  BY CalmInit, CalmStep, ProvenanceHolds, PTL DEF Spec
<1>2. Provenance /\ Calm => PoisonHasACause
  <2> SUFFICES ASSUME Provenance, Calm, NEW o \in Orders, InHand("order", o),
                      ~ CanTransitionTo(status[o], "PAID"), faults = 0
               PROVE  FALSE
    BY ConsumerAssumption DEF PoisonHasACause, Provenance, TypeOK, ConsumerTypeOK
  <2> USE FlowAssumption DEF Provenance, TypeOK, ConsumerTypeOK, Orders
  <2>1. status[o] \in {NoOrder, "PAID"} /\ Deliverable("order", o) > 0
    BY DEF CanTransitionTo, Deliverable
  <2>2. Announced(o) /\ status[o] # "PAID"
    BY <2>1 DEF Calm, OnceAhead, Ahead, Deliverable, Announced
  <2> QED
    BY <2>1, <2>2 DEF SavedHasRow, NoOrder
<1> QED
  BY <1>1, <1>2, ProvenanceHolds, PTL
------------------------------------------------------------------------------
(* The durable queue *)

PaymentOwed == [s \in {"payment"} |-> Backlog(s)]
PaymentSaid == [s \in {"payment"} |-> Verdict(s)]

\* What both queues promise, the one of the payment service promises.
LEMMA PaymentPart ==
  ASSUME [Promise!Next]_<<Owed, Said>>
  PROVE  [PaymentPromise!Next]_<<PaymentOwed, PaymentSaid>>
<1> USE FlowAssumption DEF Orders
<1>1. PaymentOwed["payment"] = Owed["payment"] /\ PaymentSaid["payment"] = Said["payment"]
  BY DEF PaymentOwed, PaymentSaid, Owed, Said
<1>2. /\ PaymentOwed' = [s \in {"payment"} |-> Owed'["payment"]]
      /\ PaymentSaid' = [s \in {"payment"} |-> Said'["payment"]]
  BY DEF PaymentOwed, PaymentSaid, Owed, Said
<1>3. /\ PaymentOwed = [s \in {"payment"} |-> Owed["payment"]]
      /\ PaymentSaid = [s \in {"payment"} |-> Said["payment"]]
  BY DEF PaymentOwed, PaymentSaid, Owed, Said
<1>4. CASE UNCHANGED <<Owed, Said>>
  BY <1>2, <1>3, <1>4
<1>5. ASSUME NEW s \in Services, Promise!Forget(s)
      PROVE  [PaymentPromise!Next]_<<PaymentOwed, PaymentSaid>>
  <2>1. Owed' = Owed /\ Said' = [Said EXCEPT ![s] = None]
    BY <1>5 DEF Promise!Forget, Owed, Said
  <2>2. CASE s = "payment"
    <3>1. PaymentPromise!Forget("payment")
      BY <1>2, <1>3, <2>1, <2>2 DEF PaymentPromise!Forget, PaymentOwed, PaymentSaid, Said
    <3> QED
      BY <3>1 DEF PaymentPromise!Next
  <2>3. CASE s # "payment"
    BY <1>2, <1>3, <2>1, <2>3 DEF Said
  <2> QED
    BY <2>2, <2>3
<1>6. ASSUME NEW s \in Services, NEW m \in Msgs, Promise!Accept(s, m)
      PROVE  [PaymentPromise!Next]_<<PaymentOwed, PaymentSaid>>
  <2>1. Owed' = [Owed EXCEPT ![s][m] = @ + 1] /\ Said' = Said
    BY <1>6 DEF Promise!Accept, Owed, Said
  <2>2. CASE s = "payment"
    <3>1. PaymentPromise!Accept("payment", m)
      BY <1>2, <1>3, <2>1, <2>2 DEF PaymentPromise!Accept, PaymentOwed, PaymentSaid, Owed
    <3> QED
      BY <3>1 DEF PaymentPromise!Next
  <2>3. CASE s # "payment"
    BY <1>2, <1>3, <2>1, <2>3 DEF Owed
  <2> QED
    BY <2>2, <2>3
<1>7. ASSUME NEW s \in Services, NEW m \in Msgs, Promise!Decide(s, m)
      PROVE  [PaymentPromise!Next]_<<PaymentOwed, PaymentSaid>>
  <2>1. Owed' = Owed /\ Said[s] = None /\ Said' = [Said EXCEPT ![s] = m]
    BY <1>7 DEF Promise!Decide, Owed, Said
  <2>2. CASE s = "payment"
    <3>1. PaymentPromise!Decide("payment", m)
      BY <1>2, <1>3, <2>1, <2>2 DEF PaymentPromise!Decide, PaymentOwed, PaymentSaid, Said
    <3> QED
      BY <3>1 DEF PaymentPromise!Next
  <2>3. CASE s # "payment"
    BY <1>2, <1>3, <2>1, <2>3 DEF Said
  <2> QED
    BY <2>2, <2>3
<1>8. ASSUME NEW s \in Services, NEW m \in Msgs, Promise!Remove(s, m)
      PROVE  [PaymentPromise!Next]_<<PaymentOwed, PaymentSaid>>
  <2>1. /\ Said[s] = m /\ Owed[s][m] > 0
        /\ Owed' = [Owed EXCEPT ![s][m] = @ - 1] /\ Said' = [Said EXCEPT ![s] = None]
    BY <1>8 DEF Promise!Remove, Owed, Said
  <2>2. CASE s = "payment"
    <3>1. PaymentPromise!Remove("payment", m)
      BY <1>2, <1>3, <2>1, <2>2 DEF PaymentPromise!Remove, PaymentOwed, PaymentSaid, Owed, Said
    <3> QED
      BY <3>1 DEF PaymentPromise!Next
  <2>3. CASE s # "payment"
    BY <1>2, <1>3, <2>1, <2>3 DEF Owed, Said
  <2> QED
    BY <2>2, <2>3
<1> QED
  BY <1>4, <1>5, <1>6, <1>7, <1>8 DEF Promise!Next

LEMMA PaymentKeeps ==
  ASSUME TypeOK, TypeOK', \A m \in Msgs : Copies("payment", m)' = Copies("payment", m)
  PROVE  PaymentOwed' = PaymentOwed
BY FlowAssumption, BacklogIsCopies, BacklogIsCopiesNext DEF TypeOK, PaymentOwed

\* The payment handler's last word on an event.
LEMMA PaymentDecides ==
  ASSUME TypeOK, TypeOK', NEW o \in Orders, InHand("payment", o), PaymentReturns("ack"), cur' = cur,
         \A m \in Msgs : Copies("payment", m)' = Copies("payment", m)
  PROVE  PaymentPromise!Next
<1> USE FlowAssumption DEF Orders, TypeOK, ConsumerTypeOK
<1>1. PaymentSaid["payment"] = None /\ PaymentSaid' = [PaymentSaid EXCEPT !["payment"] = o]
  BY DEF PaymentSaid, Verdict, InHand, PaymentReturns, HandlerReturns, Goto
<1>2. PaymentPromise!Decide("payment", o)
  BY <1>1, PaymentKeeps DEF PaymentPromise!Decide, PaymentOwed, PaymentSaid
<1> QED
  BY <1>2 DEF PaymentPromise!Next

LEMMA PaymentPromiseStep ==
  ASSUME Provenance, Provenance', [Next]_vars
  PROVE  [PaymentPromise!Next]_<<PaymentOwed, PaymentSaid>>
<1> USE FlowAssumption DEF Provenance, TypeOK, Orders
<1>1. ASSUME [ConsumerNext]_consumerVars
      PROVE  [PaymentPromise!Next]_<<PaymentOwed, PaymentSaid>>
  BY <1>1, PromiseStep, PaymentPart
<1>2. ASSUME NEW o \in Orders, PublishCreated(o) PROVE ConsumerNext
  <2>1. ready["payment"][o] = 0 /\ buf["payment"][o] = 0
    BY <1>2 DEF PublishCreated, CreatedIsSent, Present, ConsumerTypeOK
  <2>2. Arrive("payment", o)
    BY <1>2, <2>1, ConsumerAssumption DEF PublishCreated, Publish, Arrive
  <2> QED
    BY <2>2 DEF ConsumerNext
<1>3. ASSUME NEW o \in Orders, PublishCreatedInVain(o) \/ PublishUndeclared(o)
      PROVE  ConsumerNext
  <2>1. LoseConnection("order") \/ CloseClient("order")
    BY <1>3 DEF PublishCreatedInVain, PublishInVain, PublishUndeclared, LoseConnection, CloseClient
  <2> QED
    BY <2>1 DEF ConsumerNext
<1>4. ASSUME NEW o \in Orders, PublishCompleted(o) PROVE PaymentPromise!Next
  <2>1. \A m \in Msgs : Copies("payment", m)' = Copies("payment", m)
    BY <1>4 DEF PublishCompleted, Publish, Enqueue, Copies, Held, ConsumerTypeOK
  <2> QED
    BY <1>4, <2>1, PaymentDecides DEF PublishCompleted
<1>5. ASSUME NEW o \in Orders, PublishCompletedInVain(o) PROVE PaymentPromise!Next
  <2>1. \A m \in Msgs : Copies("payment", m)' = Copies("payment", m)
    BY <1>5, SeverKeepsCopies DEF PublishCompletedInVain, PublishInVain
  <2> QED
    BY <1>5, <2>1, PaymentDecides DEF PublishCompletedInVain
<1>6. ASSUME NEW o \in Orders, PublishCompletedFails(o) \/ HandleCompleted(o)
      PROVE  UNCHANGED <<PaymentOwed, PaymentSaid>>
  <2>1. UNCHANGED <<ready, buf, cur, open>>
    BY <1>6 DEF PublishCompletedFails, HandleCompleted, MarkPaid, MarkPaidFails, RejectPaid, OrderReturns
  <2>2. \A m \in Msgs : Copies("payment", m)' = Copies("payment", m)
    BY <2>1 DEF Copies, Held
  <2>3. Verdict("payment")' = Verdict("payment")
    BY <1>6, <2>1 DEF PublishCompletedFails, HandleCompleted, MarkPaid, MarkPaidFails, RejectPaid,
      OrderReturns, PaymentReturns, HandlerReturns, Goto, InHand, Verdict, ConsumerTypeOK
  <2> QED
    BY <2>2, <2>3, PaymentKeeps DEF PaymentSaid
<1>7. ASSUME NEW s \in Services, Deliver(s) \/ LoseConnection(s) \/ Crash(s) PROVE ConsumerNext
  BY <1>7 DEF Crash, Exit, ConsumerNext
<1>8. CASE BrokerRestart
  <2>1. \A m \in Msgs : Copies("payment", m)' = Copies("payment", m)
    BY <1>8, BacklogIsCopies DEF BrokerRestart, Copies, ConsumerTypeOK
  <2>2. UNCHANGED <<cur, pc>>
    BY <1>8 DEF BrokerRestart
  <2> QED
    BY <2>1, <2>2, PaymentKeeps DEF PaymentSaid, Verdict
<1>9. ASSUME UNCHANGED consumerVars
      PROVE  [PaymentPromise!Next]_<<PaymentOwed, PaymentSaid>>
  BY <1>9, <1>1
<1>10. ASSUME NEW o \in Orders,
              SaveOrder(o) \/ SaveFails(o) \/ PublishCreatedFails(o) \/ Respond(o) \/ Charge(o)
       PROVE  UNCHANGED consumerVars
  BY <1>10 DEF SaveOrder, SaveFails, PublishCreatedFails, Respond, Charge
<1>12. ASSUME NEW o \in Orders, AnswerLost(o) PROVE ConsumerNext
  BY <1>12 DEF AnswerLost, ConsumerNext
<1>11. CASE DeclareExchange \/ UNCHANGED vars
  BY <1>9, <1>11 DEF DeclareExchange, vars
<1> QED
  BY <1>1, <1>2, <1>3, <1>4, <1>5, <1>6, <1>7, <1>8, <1>9, <1>10, <1>11, <1>12
  DEF Next, Consume, Place, HandleCreated

\* An order_created event that is in its queue stays there until the payment
\* handler has finished with it: not even a restart of the broker takes it.
THEOREM PaymentQueueDurable == Spec => PaymentQueueIsDurable
<1>1. Init => PaymentPromise!Init
  BY FlowAssumption DEF Init, ConsumerInit, PaymentPromise!Init, Backlog, Unacked, AddBag, Empty,
    Verdict
<1>2. Provenance /\ Provenance' /\ [Next]_vars
        => [PaymentPromise!Next]_<<[s \in {"payment"} |-> Backlog(s)], [s \in {"payment"} |-> Verdict(s)]>>
  BY PaymentPromiseStep DEF PaymentOwed, PaymentSaid
<1> QED
  BY <1>1, <1>2, ProvenanceHolds, PTL DEF Spec, PaymentQueueIsDurable, PaymentPromise!Spec
===============================================================================
